SPECIFICATION FairSpec
CONSTANTS Clients = {c1, c2}
          MaxOpen = 1
          Life = 2
          MaxSecret = 2
          None = None
INVARIANTS TypeOK
PROPERTIES EnteredWhenProven RequestsAnswered MetricsSpared
