SPECIFICATION Spec
CONSTANTS
  k1 = k1
  k2 = k2
  k3 = k3
  k4 = k4
  Keys <- MCKeys
  NoKey = NoKey
  Buckets <- MCBuckets
  Hash <- MCHash
  BUCKETS_ASSOCIATIVITY = 2
  BUFFER_LENGTH = 2
  WritesMayFail = TRUE
  MaxSamples = 8
  Captured <- MCCaptured
  Symbolize <- MCSymbolize
  HandlerNames <- MCHandler
  Processor <- Rename
INVARIANTS TypeOK OneEntryPerKey ExactlyOnce ReportsAddUp FramesShown
PROPERTIES NeverReadableAgain CountsSamples
