SPECIFICATION HandlerFairSpec
CONSTANTS
  MaxAddress = 3
  StackBottom = 2
  Ips <- MCIps
  MAX_DEPTH = 2
  Loaded <- MCLoaded
  blocklist <- MCBlocklist
  MAX_THREAD_NAME = 3
  Refused = Refused
  Interrupted <- MCInterrupted
  Main = Main
  ThreadIds <- MCIds
  ThreadNames <- MCNames
INVARIANTS TypeOK Backtraces FaultsOnlyRaced TellsThread
PROPERTIES Returns
