\* One pass over five operations that use every kind of resource.
SPECIFICATION FairSpec
CONSTANTS
  NormalizedOps <- AllKindsNormalized
  Clients <- AllKindsClients
  RoutinesPerClient = 4
  Blocking = TRUE
  RuntimeInMinutes = 0
  MaxCount = 2
  MaxOid = 5
  MaxElapsed = 0
INVARIANTS
  TypeOK
  AllRoutinesRan
  ActionsInOrder
PROPERTIES
  Finishes
CHECK_DEADLOCK FALSE
