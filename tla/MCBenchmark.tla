---------------------------- MODULE MCBenchmark ----------------------------
(* Small instances of Benchmark for TLC. *)
EXTENDS Benchmark

Op(kinds, pods) == [kinds |-> kinds, pods |-> pods]

\* An empty configuration; one that leaves its objects; one that meets their
\* names and cleans up; a heavier one with managers of every sort.
Mixed == [
  empty |-> [ops |-> << >>, cleanup |-> TRUE],
  light |-> [ops |-> <<Op({"Pod"}, 1)>>, cleanup |-> FALSE],
  clean |-> [ops |-> <<Op({"Pod"}, 2), Op({"Pod", "Deployment"}, 2)>>, cleanup |-> TRUE],
  heavy |-> [ops |-> <<Op({"Pod", "Namespace"}, 3)>>, cleanup |-> TRUE]]

MixedNames == DOMAIN Mixed

=============================================================================
