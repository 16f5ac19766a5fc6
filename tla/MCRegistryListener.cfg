CONSTANTS
  NumChannels = 3
  LinkLen = 2
  MaxLosses = 1
  MaxSpurious = 1
  MaxRestarts = 1
  MaxReboots = 1
SPECIFICATION FairSpec
INVARIANTS
  TypeOK
  ExactOrRepeated
  AckedIsKnown
  MisreadOnlyAfterRepeat
PROPERTY NegotiationCompletes
