\* Two pods of this run only: IsStable is sound once the creates returned.
SPECIFICATION Spec
CONSTANTS
  Pods = {p1, p2}
  Leftovers = {}
  Versions <- CountedVersions
  LostReplies = FALSE
  MaxTime = 1
  MaxInflight = 1
  MaxDeletes = 2
SYMMETRY Symmetry
INVARIANTS
  StatsAgree
  StableMeansReady
CHECK_DEADLOCK FALSE
