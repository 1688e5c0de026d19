\* Two releases, deployed and redeployed in any order.
SPECIFICATION FairSpec
CONSTANTS
  v1 = v1
  v2 = v2
  Tags <- MCTags
  HeadOf <- MCHeadOf
  NoTag = NoTag
  SetupAttempts = 2
  MaxKills = 1
INVARIANTS ReleaseTypeOK
PROPERTIES MigrationIsPrepared SuccessMeansServing TracingStaysOn ServesAgain
