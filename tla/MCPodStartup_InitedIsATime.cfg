\* Does the code keep InitedIsATime?
SPECIFICATION Spec
CONSTANTS
  Pods = {p1}
  Leftovers = {}
  Versions <- StartingVersions
  LostReplies = TRUE
  MaxTime = 3
  MaxInflight = 2
  MaxDeletes = 1
INVARIANT InitedIsATime
CHECK_DEADLOCK FALSE
