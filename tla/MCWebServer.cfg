CONSTANTS
  Sockets = {1, 2}
  WorkLen = 2
  MaxVisits = 3
  MaxBroadcasts = 2
SPECIFICATION FairSpec
INVARIANTS
  WebTypeOK
  OnlyClosedIsReplaced
  Described
PROPERTY DescriptionArrives
