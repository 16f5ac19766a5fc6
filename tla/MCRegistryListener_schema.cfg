CONSTANTS
  NumChannels = 2
  LinkLen = 2
  MaxLosses = 1
  MaxSpurious = 0
  MaxRestarts = 0
  MaxReboots = 0
SPECIFICATION Spec
INVARIANT DataReadWithItsSchema
