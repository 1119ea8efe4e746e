----------------------------- MODULE MCDispatch -----------------------------
(* Small instances of Dispatch for TLC. *)
EXTENDS Dispatch

Act(verb) == [act |-> verb, yaml |-> "own"]
NoYaml(verb) == [act |-> verb, yaml |-> "none"]
WrongYaml(verb) == [act |-> verb, yaml |-> "other"]
Idle == [count |-> 0, actions |-> << >>]

\* An operation with the given resources and nothing of the other kinds.
Op(resources) ==
  [predicate |-> FALSE,
   resources |-> [k \in Kinds |-> IF k \in DOMAIN resources THEN resources[k] ELSE Idle]]

Res(count, actions) == [count |-> count, actions |-> actions]

-----------------------------------------------------------------------------
(* Every kind of resource; repeated, unknown and undecodable actions; the second
   operation is repeated once. The last one has a deployment whose yaml describes
   something else; so has its namespace, which does not read it. *)

AllKindsOps == <<
  Op([Pod |-> Res(2, <<Act("create"), Act("list"), Act("create")>>),
      Namespace |-> Res(1, <<Act("create"), Act("scale"), Act("delete")>>)]),
  Op([Deployment |-> Res(1, <<Act("create"), Act("scale")>>),
      StatefulSet |-> Res(1, <<Act("create"), Act("run")>>),
      Service |-> Res(1, <<Act("create"), Act("get")>>)]),
  Op([ReplicationController |-> Res(1, <<Act("delete")>>),
      ConfigMap |-> Res(2, <<NoYaml("create"), Act("create")>>),
      Secret |-> Res(1, << >>)]),
  Op([Deployment |-> Res(1, <<Act("list"), WrongYaml("create")>>),
      Namespace |-> Res(1, <<WrongYaml("create")>>)]) >>

AllKindsNormalized == NormalizeOps(AllKindsOps, <<0, 1, 0, 0>>)
AllKindsClients == [m \in ManagerNames |-> MaxClients(AllKindsOps, RoutinesPerClient, m)]

-----------------------------------------------------------------------------
(* Several rounds over two operations. *)

RoundOps == <<
  Op([Pod |-> Res(3, <<Act("create")>>)]),
  Op([Pod |-> Res(1, <<Act("delete")>>), Secret |-> Res(1, <<Act("create")>>)]) >>

RoundNormalized == NormalizeOps(RoundOps, <<0, 0>>)
RoundClients == [m \in ManagerNames |-> MaxClients(RoundOps, RoutinesPerClient, m)]

=============================================================================
