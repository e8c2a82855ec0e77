SPECIFICATION Spec
CONSTANTS
  t1 = t1
  t2 = t2
  Threads <- MCTwo
  Frequencies <- MCUsual
  Blocklists <- MCLib
  Original = "default"
  Faults <- MCNoFault
  MaxCalls = 2
  MaxSignals = 2
INVARIANTS NeverKilled
