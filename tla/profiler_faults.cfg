SPECIFICATION FairSpec
CONSTANTS
  t1 = t1
  t2 = t2
  Threads <- MCTwo
  Frequencies <- MCAny
  Blocklists <- MCLib
  Original = "app"
  Faults <- MCAllFaults
  MaxCalls = 3
  MaxSignals = 2
INVARIANTS OneOwner TimerOnlyWithHandler NeverTakesItself LateSamplesBounded SessionTimed
PROPERTIES HandlerReturns CallsReturn
