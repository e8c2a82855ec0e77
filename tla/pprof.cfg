SPECIFICATION Spec
CONSTANTS
  Reports <- MCReports
  Frequency = 3
  NanosPerSecond = 1000
INVARIANTS Tables Faithful StringsFound
