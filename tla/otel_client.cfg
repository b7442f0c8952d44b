SPECIFICATION Spec
CONSTANTS MaxMetrics = 6
          MaxSpans = 5
          MaxRound = 3
INVARIANTS TypeOK AtMostOnce OutageNeverDrops SourcesNeverMix
