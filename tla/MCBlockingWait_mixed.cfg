\* Deletions and creations, the cluster as fast or slow as it likes, lists that fail.
SPECIFICATION FairSpec
CONSTANTS
  p1 = p1
  p2 = p2
  d1 = d1
  d2 = d2
  s1 = s1
  Pods <- FivePods
  KindOf <- MixedKinds
  OpnumOf <- MixedOpnums
  NsOf <- Namespaces
  Doomed = {p1, s1}
  Late = {d2}
  Counted = {p1, p2}
  OpIdx = 1
  LastActions <- MixedLasts
  Managers = {"Pod", "Deployment"}
  ConfigTimeout = 3000
  ConfigInterval = 2000
  ListErrors = TRUE
INVARIANTS
  WaitBounded
  TypeOK
  PreviousOperationDone
PROPERTIES
  MovesOn
CHECK_DEADLOCK FALSE
