SPECIFICATION FairSpec
CONSTANTS
  Threads = {h1, h2}
  NConns = 2
  Period = 2
INVARIANTS TypeOK NoLeak OnlyOpened NoUseAfterFree
PROPERTY GracefulShutdown
