\* Four runs in the order of their weight, and a signal at any time.
SPECIFICATION FairSpec
CONSTANTS
  Configs <- MixedNames
  Setting <- Mixed
INVARIANTS
  TypeOK
  RunsLightToHeavy
  UninterruptedNeverCrashes
  InterruptCleans
  RefusedByEarlierRuns
PROPERTIES
  InterruptEnds
CHECK_DEADLOCK FALSE
