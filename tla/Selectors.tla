----------------------------- MODULE Selectors -----------------------------
(***************************************************************************)
(* The labels K-Bench gives to what it creates (util/spec_generator.go,    *)
(* updateLabels in util/driver_util.go) and the selectors it, and the      *)
(* controllers it creates, look for them with (GetListOptions in           *)
(* manager/manager.go, the pod informer, the generated specs).             *)
(***************************************************************************)
EXTENDS Workload, TLC

AppName == "kbench"

\* A name, a label or another option that is not given.
Unset == ""

TypeOf == [Pod |-> "kbench-pod", Deployment |-> "kbench-deployment-pod",
           StatefulSet |-> "kbench-statefulset-pod",
           ReplicationController |-> "kbench-rc-pod", Service |-> "kbench-service",
           Namespace |-> "kbench-namespace", Resource |-> "kbench-resource"]

\* strconv.Itoa
Itoa(n) == ToString(n)

\* One label, and the labels of both, with those of the first before those of the
\* second that have the same key.
Label(key, value) == [k \in {key} |-> value]
Over(new, given) ==
  IF DOMAIN given = {} THEN new
  ELSE [k \in DOMAIN new \cup DOMAIN given |-> IF k \in DOMAIN new THEN new[k] ELSE given[k]]
NoLabels == [k \in {} |-> k]

\* updateLabels: given keeps what K-Bench does not set.
updateLabels(given, type, opNum, tid) ==
  Over([app |-> AppName, type |-> type, opnum |-> Itoa(opNum), tid |-> Itoa(tid)], given)

IsLabel(key, value) == key # Unset /\ value # Unset

\* The label of the action, else that of the resource's configuration.
updateLabelNs(spec, config) == IF IsLabel(spec[1], spec[2]) THEN spec ELSE config

\* The labels of a generated object and, for a controller, of its pods. The
\* user's label is put in last; namespaces get none.
GenLabels(kind, opNum, tid, key, value) ==
  LET own == updateLabels(NoLabels, TypeOf[kind], opNum, tid) IN
  IF IsLabel(key, value) /\ kind # "Namespace" THEN Over(Label(key, value), own) ELSE own

\* Mutant: the goroutine's number is forgotten.
MatchLabelsOfOp(opNum, tid) == [app |-> AppName, opnum |-> Itoa(opNum)]

\* What a generated controller selects its pods by. The type is not asked for.
MatchLabels(opNum, tid) ==
  [app |-> AppName, opnum |-> Itoa(opNum), tid |-> Itoa(tid)]

\* A selector that asks for these labels selects an object with those.
Matches(asked, given) ==
  \A key \in DOMAIN asked : key \in DOMAIN given /\ given[key] = asked[key]

\* Mutant: the informer takes every pod of K-Bench.
InformerAnyType(kind) == [app |-> AppName]

\* The pods a manager's informer is told about, in all namespaces.
InformerSelector(kind) == [app |-> AppName, type |-> TypeOf[kind]]

\* Mutant: an operation's number is always asked for.
GetListOptionsAllOps(as) ==
  Over([opnum |-> Itoa(as.Oid)], IF as.MatchGoroutine THEN [tid |-> Itoa(as.Tid)] ELSE NoLabels)

\* The labels an action asks for; none means that it asks for its own name.
\* CURRENT and ALL are MatchOperation's values in lower case.
GetListOptions(as) ==
  LET operation == CASE as.MatchOperation = "current" -> [opnum |-> Itoa(as.Oid)]
                     [] as.MatchOperation = "all" -> [app |-> AppName]
                     [] OTHER -> NoLabels
      goroutine == IF as.MatchGoroutine THEN [tid |-> Itoa(as.Tid)] ELSE NoLabels
      label == IF IsLabel(as.LabelKey, as.LabelValue) THEN Label(as.LabelKey, as.LabelValue)
               ELSE NoLabels
  IN Over(operation, Over(goroutine, label))

\* Does a list request with the options of as return the object?
Selects(as, object) ==
  LET asked == GetListOptions(as) IN
  IF DOMAIN asked = {} THEN object.name = as.Name ELSE Matches(asked, object.labels)

=============================================================================
