SPECIFICATION FramehopSpec
CONSTANTS
  t1 = t1
  t2 = t2
  t3 = t3
  Threads <- MCThree
  Frequencies <- MCUsual
  Blocklists <- MCLib
  Original = "app"
  Faults <- MCNoFault
  MaxCalls = 4
  MaxSignals = 3
SYMMETRY Symmetry
INVARIANTS TypeOK Restored NoSelfDeadlock UnwinderReady TraceSucceeds
PROPERTIES ReportsAreStable
