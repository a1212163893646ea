CHECK_DEADLOCK FALSE
CONSTANTS
  MaxTx = 1
  MaxBirths = 2
  MaxMsg = 3
  MaxResends = 1
  MaxLinks = 1
  MaxMishaps = 2
SPECIFICATION Spec
INVARIANTS
  TypeOK
  AskIsOwed
  AskIsInChannel
  ReplyFindsItsCharge
  AnnouncedOnce
  AskIsWithdrawn
