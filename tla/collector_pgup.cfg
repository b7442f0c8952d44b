SPECIFICATION Spec
CONSTANTS
  NTenants = 1
  NQueries = 1
  Fallback = {}
  Clients = {c1}
  Backlog = 1
  MaxRound = 1
  None = None
INVARIANT PgUpMeansUp
