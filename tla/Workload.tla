------------------------------ MODULE Workload ------------------------------
(***************************************************************************)
(* The part of a test configuration that decides what is run               *)
(* (util/wcpconfig.go), and what Run computes from it before the first     *)
(* operation: the normalized operations and the clients of each manager.   *)
(***************************************************************************)
EXTENDS Integers, Sequences

\* The kinds of resources an operation configures, in the order Run handles
\* them. The kinds without a manager of their own are alike; two stand for all.
GenericKinds == {"ConfigMap", "Secret"}
KindOrder == <<"Pod", "Deployment", "StatefulSet", "Namespace", "Service",
               "ReplicationController", "ConfigMap", "Secret">>
Kinds == {"Pod", "Deployment", "StatefulSet", "Namespace", "Service",
          "ReplicationController"} \cup GenericKinds

\* The manager that serves a kind.
ManagerOf(kind) == IF kind \in GenericKinds THEN "Resource" ELSE kind
ManagerNames == {ManagerOf(kind) : kind \in Kinds}

\* An action's verb and what its YamlSpec decodes to: nothing (no file, or not
\* decodable), an object of the action's own kind or one of another kind.
Action == [act : STRING, yaml : {"none", "own", "other"}]

\* Count and Actions of one resource of an operation.
ResourceConfig == [count : Int, actions : Seq(Action)]

\* An operation: does it have a predicate, and its resources.
WcpOp == [predicate : BOOLEAN, resources : [Kinds -> ResourceConfig]]

\* The operation and RepeatTimes copies of it: repeat[i] belongs to ops[i].
NormalizeOps(ops, repeat) ==
  LET Upto[i \in 0 .. Len(ops)] ==
        IF i = 0 THEN << >>
        ELSE Upto[i - 1] \o [j \in 1 .. repeat[i] + 1 |-> ops[i]]
  IN Upto[Len(ops)]

\* Mutant: the division is not rounded up.
ClientsForDown(count, routinesPerClient) == count \div routinesPerClient

\* One client for every routinesPerClient goroutines, rounded up.
ClientsFor(count, routinesPerClient) == (count - 1) \div routinesPerClient + 1

\* The clients a manager is given: enough for its largest Count; the map has no
\* entry (so the code reads 0) for a manager that no Count asks for.
MaxClients(ops, routinesPerClient, mgr) ==
  LET counts == {ops[i].resources[k].count : i \in DOMAIN ops,
                                             k \in {k \in Kinds : ManagerOf(k) = mgr}}
      needed == {ClientsFor(c, routinesPerClient) : c \in {c \in counts : c > 0}}
  IN IF needed = {} THEN 0 ELSE CHOOSE m \in needed : \A n \in needed : n <= m

=============================================================================
