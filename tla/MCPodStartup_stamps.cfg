\* One pod, every order of its handlers, which get the lock eventually.
SPECIFICATION FairSpec
CONSTANTS
  Pods = {p1}
  Leftovers = {}
  Versions <- StartingVersions
  LostReplies = TRUE
  MaxTime = 2
  MaxInflight = 1
  MaxDeletes = 1
INVARIANTS
  TypeOK
  FirstSeenEarliest
  MilestonesComplete
PROPERTIES
  MilestonesSpec
  RunningIsRecorded
CHECK_DEADLOCK FALSE
