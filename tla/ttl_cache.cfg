SPECIFICATION FairSpec
CONSTANTS
  Keys = {k1, k2}
  Values = {v1, v2}
  TTL = 1
  CleanupInterval = 2
  Absent = Absent
INVARIANT TypeOK
PROPERTIES ImplementsTtlMap ExpiredForgotten SweeperStops
