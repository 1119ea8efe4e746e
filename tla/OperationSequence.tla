-------------------------- MODULE OperationSequence --------------------------
(***************************************************************************)
(* What the driver promises of its workload: "The operations run one by    *)
(* one", the goroutines of one operation run in parallel.  A goroutine is  *)
(* <<oid, kind, tid>>; the names of the objects it creates are made of     *)
(* these three, so no goroutine may ever be started twice.                 *)
(***************************************************************************)
EXTENDS Integers

CONSTANT Routines   \* the goroutines that can exist

VARIABLES
  current,   \* the OID of the operation that runs
  active,    \* the goroutines that run
  ended      \* the goroutines that have run

vars == <<current, active, ended>>

Init ==
  /\ current = 0
  /\ active = {}
  /\ ended = {}

\* The next operation begins once nothing of the current one is left.
Advance ==
  /\ active = {}
  /\ current' > current
  /\ UNCHANGED <<active, ended>>

Start(g) ==
  /\ g[1] = current
  /\ g \notin active \cup ended
  /\ active' = active \cup {g}
  /\ UNCHANGED <<current, ended>>

Finish(g) ==
  /\ g \in active
  /\ active' = active \ {g}
  /\ ended' = ended \cup {g}
  /\ UNCHANGED current

Next == Advance \/ \E g \in Routines : Start(g) \/ Finish(g)

Spec == Init /\ [][Next]_vars

=============================================================================
