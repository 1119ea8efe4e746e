\* Goroutines that create, update, scale and delete controllers under five workloads.
SPECIFICATION FairSpec
CONSTANTS
  Works <- SmallWorks
  MaxPods = 2
  MaxFailures = 1
INVARIANTS
  TypeOK
  OwnPodsOnly
  NoScaleLost
  OwnersMade
PROPERTIES
  ListsAsMeant
  StableInTheEnd
CHECK_DEADLOCK FALSE
