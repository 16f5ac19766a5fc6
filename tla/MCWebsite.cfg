CONSTANTS
  MaxRetry = 2
  MaxRestarts = 2
  Period = 3
  Timeout = 1
  MaxAsked = 2
SPECIFICATION WebsiteFairSpec
INVARIANTS
  WebsiteTypeOK
  FallbackOnlyIfNeverOnline
  IdleMeansGaveUp
  BootcountNeverFalls
  BlinksOnce
  BadgeIsTrue
PROPERTIES
  GivesUpAfterRetries
  
