SPECIFICATION CriterionSpec
CONSTANTS
  harness = harness
  other = other
  b1 = b1
  b2 = b2
  Threads <- MCThreads
  Benchmarks <- MCBenchmarks
  Harness = harness
  Outputs <- MCOutputs
  Frequencies <- MCFrequencies
  MaxSessions = 3
  MaxSamples = 1
INVARIANTS ProfiledBetween OwnProfile
