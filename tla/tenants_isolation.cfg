SPECIFICATION Spec
CONSTANTS Databases = {a, b}
          MaxTenants = 2
          NStats = 1
          BodyRoom = 1
          SendRoom = 1
          None = None
INVARIANT TenantIsolation
