\* Four objects that come and go under eighteen predicates, up to three polls.
SPECIFICATION FairSpec
CONSTANTS
  Wishes <- SmallWishes
  Objects <- SmallObjects
  Desc <- SmallDesc
  NamespacesLike = {"namespaces", "my-namespaces"}
  interval = 3
  timeout = 7
INVARIANTS
  PassedAsDocumented
  WaitsAsDocumented
PROPERTIES
  Ends
CHECK_DEADLOCK FALSE
