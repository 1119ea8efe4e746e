---------------------------- MODULE MCLifecycle ----------------------------
(* Small instances of Lifecycle for TLC. *)
EXTENDS Lifecycle

R(op, mgr, ns, creates, selects) ==
  [op |-> op, mgr |-> mgr, ns |-> ns, del |-> ns, global |-> FALSE, creates |-> creates,
   selects |-> selects]

-----------------------------------------------------------------------------
(* Every manager, in namespaces of its own, found ones and the default one. The
   goroutine of an operation meets the objects of another one, of an earlier
   operation (p3) and of its own (c2, r2). d2 deletes in another namespace than
   the one it creates in. *)

Configured == [
  p1 |-> R(1, "Pod", "own", TRUE, {"p1", "p2"}),
  p2 |-> R(1, "Pod", "own", TRUE, {}),
  p3 |-> R(5, "Pod", "own", FALSE, {"p1", "p2"}),
  d1 |-> R(2, "Deployment", Default, TRUE, {"d1"}),
  d2 |-> [R(5, "Deployment", Default, TRUE, {"d2"}) EXCEPT !.del = "other"],
  s1 |-> R(2, "Service", "shared", TRUE, {"s1"}),
  t1 |-> R(3, "StatefulSet", Default, TRUE, {"t1"}),
  c1 |-> R(3, "ReplicationController", Default, TRUE, {"c1", "c2"}),
  c2 |-> R(3, "ReplicationController", Default, TRUE, {"c2"}),
  c3 |-> R(1, "ReplicationController", Default, TRUE, {"c3"}),
  n1 |-> R(4, "Namespace", "labelled", TRUE, {"n1"}),
  r1 |-> R(4, "Resource", "labelled", TRUE, {"r1"}),
  r2 |-> R(4, "Resource", Default, FALSE, {"r1"}),
  r3 |-> R(5, "Resource", Default, TRUE, {"r3"}),
  r4 |-> [R(5, "Resource", Default, TRUE, {}) EXCEPT !.global = TRUE]]

\* The values of the constants, named twice: TLC keeps the value of Configured, and
\* would build that of a definition in the cfg again at each use.
AllManagers == Configured
AllNames == DOMAIN AllManagers

=============================================================================
