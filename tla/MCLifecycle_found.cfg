\* The same instance: do the namespaces found survive?
SPECIFICATION Spec
CONSTANTS
  Goroutines <- AllNames
  Routine <- AllManagers
  Found = {"default", "shared", "other", "old"}
  Leftover = {"old"}
  MaxFailures = 0
INVARIANTS
  FoundSpared
CHECK_DEADLOCK FALSE
