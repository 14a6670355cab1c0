SPECIFICATION Spec
CONSTANTS
  MemberIds = {m1}
  Addresses = {a1}
  Rate = 1
  Burst = 2
  IdleBucketTTL = 2
  AccessTTL = 1
  CallTime = 1
  MaxTokens = 2
VIEW View
CONSTRAINT OneBucketWhileReplacing
PROPERTIES
  StaleForATokenAtMost
  ValidTokenAccepted
  KeepsBudget
