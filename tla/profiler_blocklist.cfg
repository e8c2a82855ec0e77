SPECIFICATION Spec
CHECK_DEADLOCK FALSE
CONSTANTS
  t1 = t1
  t2 = t2
  Threads <- MCTwo
  Frequencies <- MCUsual
  Blocklists <- MCNoneOrLib
  Original = "ignore"
  Faults <- MCNoFault
  MaxCalls = 3
  MaxSignals = 2
INVARIANTS IgnoresBlocklisted
