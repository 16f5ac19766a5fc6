CONSTANTS
  NumChannels = 2
  MaxTable = 3
  MaxResponses = 1
  WebValues = {web1, web2}
  BrainValue = brain
SPECIFICATION Spec
INVARIANT AcknowledgedIsActive
