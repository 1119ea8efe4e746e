---------------------------- MODULE MCPodStartup ----------------------------
(* Small instances of PodStartup for TLC. *)
EXTENDS PodStartup, Metrics

\* The versions of a pod with init containers, on its way to Running and through
\* a restart of its containers.
StartingVersions ==
  {"scheduled", "initing", "accepted", "running", "restarting"}

\* The versions that matter to counting ready pods.
CountedVersions == {"scheduled", "running"}

\* Pods are interchangeable, apart from the ones an earlier run left.
Symmetry == Permutations(Pods \ Leftovers)

\* The statistics of up to four samples are what their names say.
ASSUME StatisticsAssumption ==
  \A n \in 1 .. 4 : \A f \in [1 .. n -> 0 .. 3] :
    LET m == LatencyMetric(f)
        Below(v) == Cardinality({i \in 1 .. n : f[i] < v})
        UpTo(v) == Cardinality({i \in 1 .. n : f[i] <= v})
    IN /\ m.Valid
       /\ \A i \in 1 .. n : m.Min <= f[i] /\ f[i] <= m.Max
       /\ 2 * Below(m.Mid) <= n /\ n <= 2 * UpTo(m.Mid)
       /\ m.P99 = m.Max

=============================================================================
