\* Every manager, one API call of the run may fail.
SPECIFICATION Spec
CONSTANTS
  Goroutines <- AllNames
  Routine <- AllManagers
  Found = {"default", "shared", "other", "old"}
  Leftover = {"old"}
  MaxFailures = 1
INVARIANTS
  TypeOK
  NamespacesExisted
  OwnDeleteWorks
  CleanupLeaves
  OthersSpared
CHECK_DEADLOCK FALSE
