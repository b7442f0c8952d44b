SPECIFICATION FairSpec
CONSTANTS Clients = {c1}
          Ticker = ticker
INVARIANTS TypeOK ConnectionsReturned
PROPERTIES ComesUp RequestsAnswered CollectionResumes
