SPECIFICATION FairSpec
CONSTANTS Requests = {r1, r2}
          MaxOpen = 1
INVARIANTS TypeOK ConnectionsReturned WholeSections
PROPERTIES RequestsAnswered
