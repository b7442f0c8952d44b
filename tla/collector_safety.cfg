SPECIFICATION Spec
CONSTANTS
  NTenants = 2
  NQueries = 2
  Fallback = {2}
  Clients = {c1}
  Backlog = 1
  MaxRound = 2
  None = None
INVARIANTS TypeOK ReplyIsSnapshot NoMixedRounds AtMostOneLateClient CleanExit
PROPERTY ImplementsBoard
