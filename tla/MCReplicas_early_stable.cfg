\* One deployment with two replicas, no failures.
SPECIFICATION Spec
CONSTANTS
  Works <- TwoPodsOnly
  MaxPods = 2
  MaxFailures = 0
INVARIANT
  StableMeansAllReady
CHECK_DEADLOCK FALSE
