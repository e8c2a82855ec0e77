SPECIFICATION FairSpec
CONSTANTS
  r1 = r1
  r2 = r2
  caller = caller
  Output <- MCOutput
  Addresses <- MCAddresses
  Unfinished = "unfinished"
  Refreshers <- MCRefreshers
  Caller = caller
  LastSecond = 3
INVARIANTS TypeOK NamesOfTheFile
PROPERTIES NeverForgets Settles
