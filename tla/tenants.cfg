SPECIFICATION FairSpec
CONSTANTS Databases = {a, b}
          MaxTenants = 2
          NStats = 1
          BodyRoom = 1
          SendRoom = 1
          None = None
INVARIANTS TypeOK ScrapeNamesOneDiscovery DestroyedUnused
PROPERTIES ShutdownCompletes ServerReturns
