----------------------------- MODULE Lifecycle -----------------------------
(***************************************************************************)
(* What the managers create in the cluster, what they remember of it, and  *)
(* what their Delete and DeleteAll take away again: Init, Create, Delete   *)
(* and DeleteAll of the seven managers, and the cleanup of Finalize.       *)
(*                                                                         *)
(* A goroutine of an operation creates at most one object, which has the   *)
(* goroutine's name, and then deletes the objects its action spec selects, *)
(* one by one: each call, and each access to a manager's record under its  *)
(* mutex, is a step.  Every API call may fail; a CREATE may fail after it  *)
(* took effect.                                                            *)
(***************************************************************************)
EXTENDS Workload, FiniteSets

CONSTANTS
  Goroutines,   \* the goroutines of all operations
  Routine,      \* what each is configured to do
  Found,        \* the namespaces that are in the cluster before the run
  Leftover,     \* those of them with kbench's label, from an earlier run
  MaxFailures   \* bound on the API calls that fail

Default == "default"

\* The namespaces the driver gives the managers; the namespace manager has none.
HomeOf == [Pod |-> "kbench-pod-namespace", Deployment |-> "kbench-deployment-namespace",
           StatefulSet |-> "kbench-statefulset-namespace",
           Service |-> "kbench-service-namespace",
           ReplicationController |-> "kbench-rc-namespace",
           Resource |-> "kbench-resource-namespace"]

\* The operation and manager of a goroutine, the namespace of its CREATE (for the
\* namespace manager: the object itself) and that of its DELETE, is the kind
\* without namespaces, is there a CREATE, and which objects does the DELETE select
\* ({}: no DELETE).
ASSUME RoutineAssumption ==
  /\ IsFiniteSet(Goroutines)
  /\ Routine \in [Goroutines -> [op : Nat, mgr : ManagerNames, ns : STRING,
                                 del : STRING, global : BOOLEAN, creates : BOOLEAN,
                                 selects : SUBSET Goroutines]]
  /\ \A g \in Goroutines :
       /\ Routine[g].global => Routine[g].mgr = "Resource"
       /\ \A h \in Routine[g].selects : Routine[h].mgr = Routine[g].mgr
ASSUME ClusterAssumption ==
  /\ IsFiniteSet(Found) /\ Found \subseteq STRING
  /\ Leftover \subseteq Found /\ Default \in Found \ Leftover
  /\ MaxFailures \in Nat

Mgr(g) == Routine[g].mgr
Ns(g) == Routine[g].ns
DelNs(g) == Routine[g].del
Within(n) == {g \in Goroutines : Ns(g) = n /\ ~Routine[g].global /\ Mgr(g) # "Namespace"}

Homes == {HomeOf[m] : m \in DOMAIN HomeOf}
Namespaces == Found \cup Homes \cup {Ns(g) : g \in Goroutines}

VARIABLES
  phase,                           \* the operations, the cleanup or the end
  at, listed,                      \* per goroutine: where it is, what is to be deleted
  dealt,                           \* and for what its call is over but not forgotten
  active, terminating, labelled,   \* namespaces, and those with kbench's label
  objects,                         \* the objects in the cluster
  existed,                         \* history: namespaces that were ever there
  inited, nsSet, table,            \* the managers: initialised, nsSet, podNs etc.
  todo,                            \* managers whose DeleteAll is to come
  failures                         \* API calls that failed

clusterVars == <<active, terminating, labelled, objects, existed>>
managerVars == <<inited, nsSet, table, todo>>
routineVars == <<at, listed, dealt>>
vars == <<phase, routineVars, clusterVars, managerVars, failures>>

-----------------------------------------------------------------------------
(* The cluster *)

Present == active \cup terminating

\* k API calls fail.
Fail(k) == failures + k <= MaxFailures /\ failures' = failures + k

\* The answer to a call that creates namespace n.
CreateNamespace(n, answer) ==
  \/ /\ answer = "created" /\ n \notin Present
     /\ active' = active \cup {n} /\ existed' = existed \cup {n}
     /\ UNCHANGED failures
  \/ /\ answer = "already exists" /\ n \in Present
     /\ UNCHANGED <<active, existed, failures>>
  \/ /\ answer = "error" /\ Fail(1)
     /\ UNCHANGED <<active, existed>>

\* Deleted namespaces are terminating until their content is gone; the default
\* namespace cannot be deleted.
Terminate(ns) ==
  LET deleted == (ns \cap active) \ {Default} IN
  active' = active \ deleted /\ terminating' = terminating \cup deleted

\* A terminating namespace is gone, with everything in it. During the cleanup it
\* makes no difference when: nothing is created any more.
Collapse(n) ==
  /\ phase = "run" /\ n \in terminating
  /\ terminating' = terminating \ {n} /\ labelled' = labelled \ {n}
  /\ objects' = objects \ Within(n)
  /\ UNCHANGED <<phase, routineVars, active, existed, managerVars, failures>>

-----------------------------------------------------------------------------
(* Init *)

\* The operations before the one of g are over.
Turn(g) ==
  phase = "run" /\ \A h \in Goroutines : Routine[h].op < Routine[g].op => at[h] = "done"

\* The manager is wanted for the first time.
FirstUse(m) ==
  m \notin inited /\ \E g \in Goroutines : Mgr(g) = m /\ at[g] = "start" /\ Turn(g)

\* The home namespace is created; those who keep record of it do so if it was
\* their call that created it.
InitManager(m, records) ==
  /\ FirstUse(m)
  /\ inited' = inited \cup {m}
  /\ \E answer \in {"created", "already exists", "error"} :
       /\ CreateNamespace(HomeOf[m], answer)
       /\ nsSet' = IF records /\ answer = "created"
                   THEN [nsSet EXCEPT ![m] = @ \cup {HomeOf[m]}] ELSE nsSet
  /\ UNCHANGED <<phase, routineVars, terminating, labelled, objects, table, todo>>

PodInit == InitManager("Pod", TRUE)
DeploymentInit == InitManager("Deployment", TRUE)
StatefulSetInit == InitManager("StatefulSet", TRUE)
RcInit == InitManager("ReplicationController", TRUE)
ServiceInit == InitManager("Service", FALSE)
ResourceInit == InitManager("Resource", FALSE)

NamespaceInit ==
  /\ FirstUse("Namespace")
  /\ inited' = inited \cup {"Namespace"}
  /\ UNCHANGED <<phase, routineVars, clusterVars, nsSet, table, todo, failures>>

Inits ==
  \/ PodInit \/ DeploymentInit \/ StatefulSetInit \/ RcInit
  \/ ServiceInit \/ ResourceInit \/ NamespaceInit

-----------------------------------------------------------------------------
(* Create *)

Go(g, from, to) == at[g] = from /\ at' = [at EXCEPT ![g] = to]

\* The first step of a Create: under the mutex, the namespace is created unless
\* nsSet has it. A manager keeps it in nsSet for the answers in keeps.
EnsureNamespace(g, keeps) ==
  LET m == Mgr(g) IN
  /\ Routine[g].creates /\ m \in inited
  /\ Go(g, "start", "call") /\ Turn(g)
  /\ IF Ns(g) \in nsSet[m] \/ Ns(g) = Default
     THEN UNCHANGED <<active, existed, nsSet, failures>>
     ELSE \E answer \in {"created", "already exists", "error"} :
            /\ CreateNamespace(Ns(g), answer)
            /\ nsSet' = IF answer \in keeps
                        THEN [nsSet EXCEPT ![m] = @ \cup {Ns(g)}] ELSE nsSet
  /\ UNCHANGED <<phase, listed, dealt, terminating, labelled, objects, inited, table, todo>>

\* The second step: the call. It is refused where there is no namespace to hold
\* the object, and its error, or the loss of its answer, ends the Create.
CallCreate(g) ==
  LET possible == Routine[g].global \/ Ns(g) \in active IN
  /\ \/ /\ possible
        /\ Go(g, "call", "made")
        /\ objects' = objects \cup {g}
        /\ UNCHANGED failures
     \/ /\ ~possible
        /\ Go(g, "call", "created")
        /\ UNCHANGED <<objects, failures>>
     \/ /\ Go(g, "call", "created")
        /\ objects' = objects \/ (possible /\ objects' = objects \cup {g})
        /\ Fail(1)
  /\ UNCHANGED <<phase, listed, dealt, active, terminating, labelled, existed, managerVars>>

\* The third step: the object is recorded with its namespace.
Record(g) ==
  /\ Go(g, "made", "created")
  /\ table' = [table EXCEPT ![Mgr(g)] = @ \cup {g}]
  /\ UNCHANGED <<phase, listed, dealt, clusterVars, inited, nsSet, todo, failures>>

CreateSteps(g, keeps) == EnsureNamespace(g, keeps) \/ CallCreate(g) \/ Record(g)

\* The answers for which the managers keep a namespace in nsSet.
KeepAlways == {"created", "already exists", "error"}

\* Mutant: the pod manager, too, keeps one that it failed to create.
PodKeepsAll == KeepAlways

\* The pod manager is the one that does not keep what it failed to create.
PodKeeps == {"created", "already exists"}

PodCreate(g) == Mgr(g) = "Pod" /\ CreateSteps(g, PodKeeps)
DeploymentCreate(g) == Mgr(g) = "Deployment" /\ CreateSteps(g, KeepAlways)
StatefulSetCreate(g) == Mgr(g) = "StatefulSet" /\ CreateSteps(g, KeepAlways)
RcCreate(g) == Mgr(g) = "ReplicationController" /\ CreateSteps(g, KeepAlways)
ServiceCreate(g) == Mgr(g) = "Service" /\ CreateSteps(g, KeepAlways)
ResourceCreate(g) == Mgr(g) = "Resource" /\ CreateSteps(g, KeepAlways)

\* A namespace is created with kbench's label and recorded nowhere.
NamespaceCreate(g) ==
  /\ Mgr(g) = "Namespace" /\ Routine[g].creates /\ "Namespace" \in inited
  /\ Go(g, "start", "created") /\ Turn(g)
  /\ \E answer \in {"created", "already exists", "error"} :
       /\ CreateNamespace(Ns(g), answer)
       /\ labelled' = IF answer = "created" THEN labelled \cup {Ns(g)} ELSE labelled
  /\ UNCHANGED <<phase, listed, dealt, terminating, objects, managerVars>>

Creates(g) ==
  \/ PodCreate(g) \/ DeploymentCreate(g) \/ StatefulSetCreate(g) \/ RcCreate(g)
  \/ ServiceCreate(g) \/ ResourceCreate(g) \/ NamespaceCreate(g)

-----------------------------------------------------------------------------
(* Delete *)

\* The goroutine has no CREATE, or has it behind it.
MayList(g) ==
  \/ at[g] = "created"
  \/ at[g] = "start" /\ ~Routine[g].creates /\ Mgr(g) \in inited /\ Turn(g)

\* Nothing is left to do.
Finish(g) ==
  /\ MayList(g) /\ Routine[g].selects = {}
  /\ at' = [at EXCEPT ![g] = "done"]
  /\ UNCHANGED <<phase, listed, dealt, clusterVars, managerVars, failures>>

\* The first step of a Delete: the selected objects are listed. An error, or an
\* empty list, ends it.
ListSelected(g, found) ==
  /\ MayList(g) /\ Routine[g].selects # {}
  /\ \/ /\ at' = [at EXCEPT ![g] = IF found = {} THEN "done" ELSE "deleting"]
        /\ listed' = [listed EXCEPT ![g] = found]
        /\ UNCHANGED failures
     \/ /\ at' = [at EXCEPT ![g] = "done"]
        /\ Fail(1)
        /\ UNCHANGED listed
  /\ UNCHANGED <<phase, dealt, clusterVars, managerVars>>

\* A step of the loop over the list: the call that deletes r. It has an effect if
\* r is where it is looked for and the call does not fail; its error is ignored.
DeleteObject(g, r, reachable) ==
  /\ at[g] = "deleting" /\ r \in listed[g]
  /\ listed' = [listed EXCEPT ![g] = @ \ {r}]
  /\ dealt' = [dealt EXCEPT ![g] = @ \cup {r}]
  /\ \/ objects' = objects \ {o \in {r} : reachable} /\ UNCHANGED failures
     \/ UNCHANGED objects /\ Fail(1)
  /\ UNCHANGED <<phase, at, active, terminating, labelled, existed, managerVars>>

\* Under the manager's mutex, what has been dealt with is forgotten. With the list
\* done, so is the Delete.
Forget(g) ==
  /\ at[g] = "deleting" /\ dealt[g] # {}
  /\ table' = [table EXCEPT ![Mgr(g)] = @ \ dealt[g]]
  /\ dealt' = [dealt EXCEPT ![g] = {}]
  /\ at' = [at EXCEPT ![g] = IF listed[g] = {} THEN "done" ELSE @]
  /\ UNCHANGED <<phase, listed, clusterVars, inited, nsSet, todo, failures>>

\* The loop of the managers that forget each object after its call.
DeleteEach(g, candidates) ==
  \/ dealt[g] = {} /\ \E r \in listed[g] \cap candidates : DeleteObject(g, r, TRUE)
  \/ Forget(g)

SelectedIn(g, n) == Routine[g].selects \cap objects \cap Within(n)

\* A Delete that looks in one namespace, n.
DeleteIn(g, n) == ListSelected(g, SelectedIn(g, n)) \/ DeleteEach(g, Goroutines)

PodDelete(g) == Mgr(g) = "Pod" /\ DeleteIn(g, DelNs(g))
DeploymentDelete(g) == Mgr(g) = "Deployment" /\ DeleteIn(g, DelNs(g))
StatefulSetDelete(g) == Mgr(g) = "StatefulSet" /\ DeleteIn(g, DelNs(g))

\* The scale of the next replication controller cannot be had, because that one is
\* gone or the call fails: it and those after it stay.
NoScale(g) ==
  /\ dealt[g] = {} /\ listed[g] # {}
  /\ Go(g, "deleting", "done")
  /\ listed' = [listed EXCEPT ![g] = {}]
  /\ (listed[g] \ objects # {} /\ UNCHANGED failures) \/ Fail(1)
  /\ UNCHANGED <<phase, dealt, clusterVars, managerVars>>

\* A replication controller is scaled to zero first.
RcDelete(g) ==
  /\ Mgr(g) = "ReplicationController"
  /\ \/ ListSelected(g, SelectedIn(g, DelNs(g)))
     \/ DeleteEach(g, objects)
     \/ NoScale(g)

\* Mutant: the namespace that was recorded is not looked up.
SvcAtHome(g) == HomeOf["Service"]

\* The namespace of the service with the goroutine's own name, if recorded; the
\* namespace of the action spec is not used.
SvcNs(g) == IF g \in table["Service"] THEN Ns(g) ELSE HomeOf["Service"]

ServiceDelete(g) == Mgr(g) = "Service" /\ DeleteIn(g, SvcNs(g))

\* Resources are listed in all namespaces. Before each call the record is read,
\* without the mutex; an object that is not on record is looked for in the
\* namespace "". They are forgotten after the last call.
ResourceDelete(g) ==
  /\ Mgr(g) = "Resource"
  /\ \/ ListSelected(g, Routine[g].selects \cap objects)
     \/ \E r \in listed[g] :
          DeleteObject(g, r, Routine[r].global \/ r \in table["Resource"])
     \/ listed[g] = {} /\ Forget(g)

\* The call that deletes namespace n of the list; there is nothing to forget.
DeleteNamespace(g, n) ==
  /\ at[g] = "deleting" /\ n \in listed[g]
  /\ listed' = [listed EXCEPT ![g] = @ \ {n}]
  /\ at' = [at EXCEPT ![g] = IF listed[g] = {n} THEN "done" ELSE @]
  /\ \/ Terminate({Ns(n)}) /\ UNCHANGED failures
     \/ UNCHANGED <<active, terminating>> /\ Fail(1)
  /\ UNCHANGED <<phase, dealt, labelled, objects, existed, managerVars>>

\* A namespace is selected by its name, or by the labels it was created with.
NamespaceDelete(g) ==
  /\ Mgr(g) = "Namespace"
  /\ \/ /\ Routine[g].selects = {g}
        /\ ListSelected(g, {n \in {g} : Ns(n) \in Present})
     \/ ListSelected(g, {n \in Routine[g].selects : Ns(n) \in labelled})
     \/ \E n \in listed[g] : DeleteNamespace(g, n)

Deletes(g) ==
  \/ PodDelete(g) \/ DeploymentDelete(g) \/ StatefulSetDelete(g) \/ RcDelete(g)
  \/ ServiceDelete(g) \/ ResourceDelete(g) \/ NamespaceDelete(g)

-----------------------------------------------------------------------------
(* DeleteAll *)

\* Mutant: the last operation is not waited for.
FinalizeEarly ==
  /\ phase = "run" /\ inited # {}
  /\ phase' = "cleanup" /\ todo' = inited
  /\ UNCHANGED <<routineVars, clusterVars, inited, nsSet, table, failures>>

\* Finalize, with Cleanup configured, when the last operation is over.
Finalize ==
  /\ phase = "run" /\ \A g \in Goroutines : at[g] = "done"
  /\ phase' = "cleanup" /\ todo' = inited
  /\ UNCHANGED <<routineVars, clusterVars, inited, nsSet, table, failures>>

\* The DeleteAll of manager m: the objects in hit are deleted, left is what stays
\* on record, and the home namespace and those of nsSet are deleted; calls may
\* fail.
CleanUp(m, hit, left) ==
  LET spaces == ({HomeOf[m]} \cup nsSet[m]) \ {Default} IN
  /\ phase = "cleanup" /\ m \in todo
  /\ todo' = todo \ {m}
  /\ \E lost \in SUBSET hit, kept \in SUBSET spaces :
       /\ Fail(Cardinality(lost) + Cardinality(kept))
       /\ objects' = objects \ (hit \ lost)
       /\ Terminate(spaces \ kept)
  /\ table' = [table EXCEPT ![m] = left] /\ nsSet' = [nsSet EXCEPT ![m] = {}]
  /\ UNCHANGED <<phase, routineVars, labelled, existed, inited>>

\* Mutant: the recorded namespace is not passed on, as in the pod manager.
RecordedAtHome(m) == table[m] \cap objects \cap Within(HomeOf[m])

\* The recorded objects, each looked for where it was created.
Recorded(m) == table[m] \cap objects

\* The pods are looked for without their namespace, thus at home.
PodDeleteAll == CleanUp("Pod", table["Pod"] \cap objects \cap Within(HomeOf["Pod"]), {})
DeploymentDeleteAll == CleanUp("Deployment", Recorded("Deployment"), {})
StatefulSetDeleteAll == CleanUp("StatefulSet", Recorded("StatefulSet"), {})
RcDeleteAll == CleanUp("ReplicationController", Recorded("ReplicationController"), {})

\* Resources go with their namespaces only; their record is not touched.
ResourceDeleteAll == CleanUp("Resource", {}, table["Resource"])

\* Without the list there is no cleanup.
CleanUpNothing(m) ==
  /\ phase = "cleanup" /\ m \in todo
  /\ todo' = todo \ {m} /\ Fail(1)
  /\ UNCHANGED <<phase, routineVars, clusterVars, inited, nsSet, table>>

\* All services with kbench's label; one that is not recorded is looked for at
\* home. Those found are forgotten.
ServiceDeleteAll ==
  \/ CleanUp("Service",
       {s \in objects : Mgr(s) = "Service" /\ Ns(s) = SvcNs(s)},
       table["Service"] \ objects)
  \/ CleanUpNothing("Service")

\* Mutant: the list of namespaces has no selector.
ListedAll == Present

\* The namespaces with kbench's label.
Labelled == labelled

NamespaceDeleteAll ==
  \/ /\ phase = "cleanup" /\ "Namespace" \in todo
     /\ todo' = todo \ {"Namespace"}
     /\ \E lost \in SUBSET Labelled :
          Fail(Cardinality(lost)) /\ Terminate(Labelled \ lost)
     /\ UNCHANGED <<phase, routineVars, labelled, objects, existed, inited, nsSet, table>>
  \/ CleanUpNothing("Namespace")

DeleteAlls ==
  \/ PodDeleteAll \/ DeploymentDeleteAll \/ StatefulSetDeleteAll \/ RcDeleteAll
  \/ ServiceDeleteAll \/ ResourceDeleteAll \/ NamespaceDeleteAll

\* The cleanup is over and the process ends.
Exit ==
  /\ phase = "cleanup" /\ todo = {}
  /\ phase' = "over"
  /\ UNCHANGED <<routineVars, clusterVars, managerVars, failures>>

-----------------------------------------------------------------------------
Init ==
  /\ phase = "run"
  /\ at = [g \in Goroutines |-> "start"] /\ listed = [g \in Goroutines |-> {}]
  /\ dealt = [g \in Goroutines |-> {}]
  /\ active = Found /\ terminating = {} /\ labelled = Leftover /\ objects = {}
  /\ existed = Found
  /\ inited = {} /\ todo = {}
  /\ nsSet = [m \in ManagerNames |-> {}] /\ table = [m \in ManagerNames |-> {}]
  /\ failures = 0

Next ==
  \/ Inits
  \/ \E g \in Goroutines : Creates(g) \/ Deletes(g) \/ Finish(g)
  \/ Finalize \/ DeleteAlls \/ Exit
  \/ \E n \in terminating : Collapse(n)

Spec == Init /\ [][Next]_vars

-----------------------------------------------------------------------------
(* Properties *)

TypeOK ==
  /\ phase \in {"run", "cleanup", "over"}
  /\ phase # "run" => \A g \in Goroutines : at[g] = "done"
  /\ at \in [Goroutines -> {"start", "call", "made", "created", "deleting", "done"}]
  /\ listed \in [Goroutines -> SUBSET Goroutines]
  /\ dealt \in [Goroutines -> SUBSET Goroutines]
  /\ active \subseteq existed /\ terminating \subseteq existed /\ existed \subseteq Namespaces
  /\ active \cap terminating = {} /\ labelled \subseteq Present
  /\ objects \subseteq Goroutines
  /\ inited \subseteq ManagerNames /\ todo \subseteq inited
  /\ nsSet \in [ManagerNames -> SUBSET Namespaces]
  /\ table \in [ManagerNames -> SUBSET Goroutines]
  /\ failures \in 0 .. MaxFailures

\* The pod manager keeps only namespaces that were in the cluster at some time,
\* so a creation that failed is tried again by the next pod. (The other managers
\* keep it, and fail to create objects in it until the end.)
NamespacesExisted == nsSet["Pod"] \subseteq existed

\* No other goroutine of the operation deletes what g selects.
Alone(g) ==
  \A h \in Goroutines \ {g} :
    Routine[h].op = Routine[g].op => Routine[h].selects \cap Routine[g].selects = {}

\* The DELETE of g is for its own object, and none of the known exceptions: the
\* managers of pods and workloads look in the namespace the DELETE was given; the
\* Delete of replication controllers gives up at the first that is gone; that of
\* resources may find one before it is recorded, miss it, and forget it after.
FindsOwn(g) ==
  /\ g \in Routine[g].selects
  /\ Mgr(g) \notin {"Service", "Resource"} => DelNs(g) = Ns(g)
  /\ Mgr(g) \in {"ReplicationController", "Resource"} => Alone(g) \/ Routine[g].global

\* A goroutine that deletes its own object leaves none behind, whoever creates and
\* deletes in between, unless a call failed or it is one of the exceptions.
OwnDeleteWorks ==
  failures = 0 => \A g \in Goroutines : at[g] = "done" /\ FindsOwn(g) => g \notin objects

\* What may be left of a goroutine's object: it goes with its namespace, or it is
\* one of those that the pod and the resource manager cannot find.
Remainder(g) ==
  \/ Ns(g) \in terminating \/ Routine[g].global
  \/ Ns(g) = Default /\ Mgr(g) \in {"Pod", "Resource"}

\* When every call has succeeded, the cleanup leaves no home namespace of a manager
\* that was used, no labelled one if the namespace manager was, and of the objects
\* only those of the pod and the resource manager in the default namespace and
\* those without a namespace.
CleanupLeaves ==
  phase = "over" /\ failures = 0 =>
    /\ \A m \in inited \ {"Namespace"} : HomeOf[m] \notin active
    /\ "Namespace" \in inited => active \cap labelled = {}
    /\ \A g \in objects : Remainder(g)

\* Namespaces that no goroutine names, that are no home and that bear no label of
\* kbench's survive the run and its cleanup.
OthersSpared ==
  Found \ (Homes \cup Leftover \cup {Ns(g) : g \in Goroutines}) \subseteq active

\* DeleteAll is to "Delete all the resources created by this manager": of the
\* namespaces found, the cleanup terminates none that no DELETE names.
FoundSpared ==
  \A n \in Found \ (Homes \cup Leftover) :
    (\A g \in Goroutines : Mgr(g) = "Namespace" => Ns(g) # n) => n \in active

=============================================================================
