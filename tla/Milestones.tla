----------------------------- MODULE Milestones -----------------------------
(***************************************************************************)
(* What the client-side pod timestamps promise, whatever the order in      *)
(* which the notifications of the informer are processed: a stamp is taken *)
(* once, from the clock, and never moves; the "first seen" stamp is taken  *)
(* no later than any other stamp of its pod.                               *)
(***************************************************************************)
EXTENDS Integers

CONSTANTS Pods, NoTime

VARIABLES clock, first, sched, ready

vars == <<clock, first, sched, ready>>

Init ==
  /\ clock = 1
  /\ first = [p \in Pods |-> NoTime]
  /\ sched = [p \in Pods |-> NoTime]
  /\ ready = [p \in Pods |-> NoTime]

Advance ==
  /\ clock' > clock
  /\ UNCHANGED <<first, sched, ready>>

\* The stamps old become new by stamping p, which has none, with the clock.
Stamped(old, new, p) == old[p] = NoTime /\ new = [old EXCEPT ![p] = clock]

\* The client looks at a notification about p.
Observe(p) ==
  /\ Stamped(first, first', p) \/ (first[p] # NoTime /\ first' = first)
  /\ Stamped(sched, sched', p) \/ sched' = sched
  /\ Stamped(ready, ready', p) \/ ready' = ready
  /\ clock' = clock

Next == Advance \/ \E p \in Pods : Observe(p)

Spec == Init /\ [][Next]_vars

=============================================================================
