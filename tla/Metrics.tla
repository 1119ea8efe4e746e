------------------------------ MODULE Metrics ------------------------------
(***************************************************************************)
(* The statistics CalculateStats reports of a list of latencies: where in  *)
(* the sorted list minimum, median, 99th percentile and maximum are read,  *)
(* and what an operation adds to the throughput.  Latencies are integers   *)
(* (the code's rounding and its floats are left out).                      *)
(***************************************************************************)
EXTENDS Integers, Sequences, SequencesExt

\* The samples in ascending order.
Ascending(samples) ==
  LET pods == SetToSortSeq(DOMAIN samples, LAMBDA p, q : samples[p] < samples[q])
  IN [i \in 1 .. Len(pods) |-> samples[pods[i]]]

\* The statistics of a non-empty list.
MinOf(s) == s[1]
MidOf(s) == s[Len(s) \div 2 + 1]
MaxOf(s) == s[Len(s)]
P99Of(s) == s[Len(s) - Len(s) \div 100]

\* OperationLatencyMetric: not Valid if there is no sample.
LatencyMetric(samples) ==
  LET s == Ascending(samples) IN
  IF s = << >> THEN [Valid |-> FALSE]
  ELSE [Valid |-> TRUE, Mid |-> MidOf(s), Min |-> MinOf(s), Max |-> MaxOf(s), P99 |-> P99Of(s)]

\* The throughput of an operation is the number of its pods that the median is
\* taken to stand for by the median, which may be zero.
AccPods(s) == (Len(s) + 1) \div 2
AccStartTime(s) == MidOf(s)

=============================================================================
