----------------------------- MODULE MCReplicas -----------------------------
(* Small instances of Replicas for TLC. *)
EXTENDS Replicas

Act(verb) == [act |-> verb, MatchOperation |-> "none", MatchGoroutine |-> FALSE,
              LabelKey |-> "", LabelValue |-> ""]
OnOperation(verb) == [Act(verb) EXCEPT !.MatchOperation = "current"]
OnAll(verb) == [Act(verb) EXCEPT !.MatchOperation = "all"]

Go(kind, op, tid, n, actions) ==
  [kind |-> kind, op |-> op, tid |-> tid, ns |-> kind, key |-> "", value |-> "",
   replicas |-> n, actions |-> actions]

Dep(op, tid, n, actions) == Go("Deployment", op, tid, n, actions)
Rc(op, tid, n, actions) == Go("ReplicationController", op, tid, n, actions)

\* Two goroutines scale one deployment.
ScaleTogether == [
  d0 |-> Dep(1, 0, 1, <<Act("create"), OnOperation("scale")>>),
  d1 |-> Dep(1, 1, 0, <<OnOperation("scale")>>)]

\* One updates while the other scales and lists what is labelled.
UpdateAndScale == [
  d0 |-> [Dep(1, 0, 0, <<Act("create"), OnOperation("update")>>)
            EXCEPT !.key = "color", !.value = "red"],
  d1 |-> Dep(1, 1, 0, <<Act("create"), Act("list"),
       [Act("scale") EXCEPT !.LabelKey = "color", !.LabelValue = "red"]>>)]

\* A later operation scales and deletes what earlier ones made: its own goroutine's,
\* all of them, and its own only.
LaterOperation == [
  r0 |-> Rc(1, 0, 0, <<Act("create")>>),
  r1 |-> Rc(1, 1, 0, <<Act("create")>>),
  r2 |-> Rc(2, 0, 0, <<[Act("scale") EXCEPT !.MatchGoroutine = TRUE], OnAll("delete")>>),
  r3 |-> Rc(2, 1, 0, <<Act("get"), Act("scale")>>)]

\* A plain pod, a replication controller and a deployment of the same goroutine number
\* in one namespace, and a controller of another goroutine.
SameNamespace == [
  p |-> [Go("Pod", 1, 0, 0, <<Act("create")>>) EXCEPT !.ns = "here"],
  r |-> [Rc(1, 0, 1, <<Act("create")>>) EXCEPT !.ns = "here"],
  q |-> [Rc(1, 1, 1, <<Act("create")>>) EXCEPT !.ns = "here"],
  d |-> [Dep(1, 0, 1, <<Act("create")>>) EXCEPT !.ns = "here"]]

\* A stateful set that is scaled, and deleted by another goroutine.
DeleteWhileScaled == [
  s0 |-> Go("StatefulSet", 1, 0, 1, <<Act("create"), Act("scale")>>),
  s1 |-> Go("StatefulSet", 1, 1, 0, <<OnOperation("delete")>>)]

\* A deployment of two pods.
TwoPods == [d |-> Dep(1, 0, 2, <<Act("create")>>)]
TwoPodsOnly == {TwoPods}

SmallWorks == {ScaleTogether, UpdateAndScale, LaterOperation, SameNamespace, DeleteWhileScaled}

=============================================================================
