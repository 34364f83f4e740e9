CONSTANTS
  MaxUploads = 5
  MaxBoots = 6
  MaxFaults = 2
SPECIFICATION FairSpec
INVARIANTS VerifyingIsTrue PendingRebootIsTrue FallbackExists
PROPERTIES ConfirmedWhenServing NewImageConfirmed
CHECK_DEADLOCK FALSE
