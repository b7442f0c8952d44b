SPECIFICATION FairSpec
CONSTANTS
  NTenants = 2
  NQueries = 1
  Fallback = {}
  Clients = {c1}
  Backlog = 1
  MaxRound = 1
  None = None
PROPERTIES ServerReturns ShutdownCompletes EveryTenantTried
