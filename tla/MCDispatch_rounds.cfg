\* Rounds over two operations until one minute has passed.
SPECIFICATION Spec
CONSTANTS
  NormalizedOps <- RoundNormalized
  Clients <- RoundClients
  RoutinesPerClient = 2
  Blocking = FALSE
  RuntimeInMinutes = 1
  MaxCount = 3
  MaxOid = 4
  MaxElapsed = 3
INVARIANTS
  Barrier
  ClientsSuffice
  RunsLongEnough
PROPERTIES
  OperationsOneByOne
CHECK_DEADLOCK FALSE
