SPECIFICATION SamplingSpec
CONSTANTS
  t1 = t1
  t2 = t2
  k1 = k1
  k2 = k2
  Threads <- MCThreads
  Frequencies <- MCFrequencies
  Blocklists <- MCBlocklists
  Original = "app"
  Faults <- MCFaults
  MaxCalls = 3
  MaxSignals = 4
  Keys <- MCKeys
  NoKey = NoKey
  Buckets <- MCBuckets
  Hash <- MCHash
  BUCKETS_ASSOCIATIVITY = 1
  BUFFER_LENGTH = 1
  WritesMayFail = TRUE
  MaxSamples = 4
SYMMETRY Symmetry
INVARIANTS ReportsWhole
PROPERTIES KeepsSessions
