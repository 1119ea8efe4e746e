--------------------------- MODULE LifecycleProofs ---------------------------
(***************************************************************************)
(* What the managers keep and what they take away, for every set of        *)
(* goroutines, every configuration of them, every set of namespaces found  *)
(* and any number of failing calls.                                        *)
(***************************************************************************)
EXTENDS Lifecycle, FiniteSetTheorems, TLAPS

LEMMA SevenManagers ==
  ManagerNames = {"Pod", "Deployment", "StatefulSet", "Namespace", "Service",
                  "ReplicationController", "Resource"}
BY DEF ManagerNames, Kinds, GenericKinds, ManagerOf

LEMMA RoutineTypes ==
  ASSUME NEW g \in Goroutines
  PROVE  /\ Mgr(g) \in ManagerNames /\ Ns(g) \in Namespaces
         /\ Routine[g].global \in BOOLEAN /\ Routine[g].selects \subseteq Goroutines
         /\ Routine[g].global => Mgr(g) = "Resource"
BY RoutineAssumption DEF Mgr, Ns, Namespaces

LEMMA HomesAreNamespaces ==
  ASSUME NEW m \in ManagerNames, m # "Namespace"
  PROVE  HomeOf[m] \in Homes /\ HomeOf[m] \in Namespaces
BY SevenManagers DEF HomeOf, Homes, Namespaces

-----------------------------------------------------------------------------
(* Type correctness *)

LEMMA FailType ==
  ASSUME TypeOK, NEW k \in Nat, Fail(k)
  PROVE  failures' \in 0 .. MaxFailures
BY ClusterAssumption DEF TypeOK, Fail

\* A call that creates a namespace keeps the sets of namespaces consistent.
LEMMA CreateNamespaceTypes ==
  ASSUME TypeOK, NEW n \in Namespaces, NEW answer, CreateNamespace(n, answer),
         terminating' = terminating
  PROVE  /\ active' \subseteq existed' /\ existed' \subseteq Namespaces
         /\ terminating' \subseteq existed'
         /\ active' \cap terminating' = {} /\ Present \subseteq Present'
         /\ failures' \in 0 .. MaxFailures
         /\ answer = "created" => n \in existed' /\ n \in Present'
<1>1. failures' \in 0 .. MaxFailures
  BY FailType DEF TypeOK, CreateNamespace
<1>2. active' = active \/ (active' = active \cup {n} /\ n \notin Present)
  BY DEF CreateNamespace
<1>3. existed' = existed \/ existed' = existed \cup {n}
  BY DEF CreateNamespace
<1>4. active' # active => existed' = existed \cup {n}
  BY DEF CreateNamespace
<1>5. answer = "created" => n \in existed' /\ n \in active'
  BY DEF CreateNamespace
<1> QED
  BY <1>1, <1>2, <1>3, <1>4, <1>5 DEF TypeOK, Present

LEMMA TerminateTypes ==
  ASSUME TypeOK, NEW S, Terminate(S), existed' = existed
  PROVE  /\ active' \subseteq existed' /\ terminating' \subseteq existed'
         /\ active' \cap terminating' = {} /\ Present' = Present
BY DEF TypeOK, Terminate, Present

LEMMA InitManagerType ==
  ASSUME TypeOK, NEW m \in ManagerNames, m # "Namespace", NEW records, InitManager(m, records)
  PROVE  TypeOK'
<1> PICK answer \in {"created", "already exists", "error"} :
         /\ CreateNamespace(HomeOf[m], answer)
         /\ nsSet' = IF records /\ answer = "created"
                     THEN [nsSet EXCEPT ![m] = @ \cup {HomeOf[m]}] ELSE nsSet
  BY DEF InitManager
<1>1. /\ UNCHANGED <<phase, at, listed, dealt, terminating, labelled, objects, table, todo>>
      /\ inited' = inited \cup {m}
  BY DEF InitManager, routineVars
<1>2. HomeOf[m] \in Namespaces
  BY HomesAreNamespaces
<1> QED
  BY <1>1, <1>2, CreateNamespaceTypes DEF TypeOK

LEMMA EnsureNamespaceType ==
  ASSUME TypeOK, NEW g \in Goroutines, NEW keeps, EnsureNamespace(g, keeps)
  PROVE  TypeOK'
<1>1. Mgr(g) \in ManagerNames /\ Ns(g) \in Namespaces
  BY RoutineTypes
<1>2. /\ UNCHANGED <<phase, listed, dealt, terminating, labelled, objects, inited, table, todo>>
      /\ at[g] = "start" /\ at' = [at EXCEPT ![g] = "call"] /\ phase = "run"
  BY DEF EnsureNamespace, Go, Turn
<1>3. CASE UNCHANGED <<active, existed, nsSet, failures>>
  BY <1>2, <1>3 DEF TypeOK, Present
<1>4. CASE \E answer \in {"created", "already exists", "error"} :
             /\ CreateNamespace(Ns(g), answer)
             /\ nsSet' = IF answer \in keeps
                         THEN [nsSet EXCEPT ![Mgr(g)] = @ \cup {Ns(g)}] ELSE nsSet
  <2> PICK answer \in {"created", "already exists", "error"} :
           /\ CreateNamespace(Ns(g), answer)
           /\ nsSet' = IF answer \in keeps
                       THEN [nsSet EXCEPT ![Mgr(g)] = @ \cup {Ns(g)}] ELSE nsSet
    BY <1>4
  <2>1. nsSet' \in [ManagerNames -> SUBSET Namespaces]
    BY <1>1 DEF TypeOK
  <2> QED
    BY <1>1, <1>2, <2>1, CreateNamespaceTypes DEF TypeOK
<1> QED
  BY <1>3, <1>4 DEF EnsureNamespace

LEMMA CallCreateType ==
  ASSUME TypeOK, NEW g \in Goroutines, CallCreate(g)
  PROVE  TypeOK'
BY ClusterAssumption DEF TypeOK, CallCreate, Go, Fail, Present, managerVars

LEMMA RecordType ==
  ASSUME TypeOK, NEW g \in Goroutines, Record(g)
  PROVE  TypeOK'
BY RoutineTypes DEF TypeOK, Record, Go, Present, clusterVars

\* The steps of Create that six of the managers share.
LEMMA CreateStepsType ==
  ASSUME TypeOK, NEW g \in Goroutines, NEW keeps, CreateSteps(g, keeps)
  PROVE  TypeOK'
BY EnsureNamespaceType, CallCreateType, RecordType DEF CreateSteps

LEMMA NamespaceCreateType ==
  ASSUME TypeOK, NEW g \in Goroutines, NamespaceCreate(g)
  PROVE  TypeOK'
<1> PICK answer \in {"created", "already exists", "error"} :
         /\ CreateNamespace(Ns(g), answer)
         /\ labelled' = IF answer = "created" THEN labelled \cup {Ns(g)} ELSE labelled
  BY DEF NamespaceCreate
<1>1. /\ UNCHANGED <<phase, listed, dealt, terminating, objects, inited, nsSet, table, todo>>
      /\ at' = [at EXCEPT ![g] = "created"] /\ phase = "run"
  BY DEF NamespaceCreate, Go, Turn, managerVars
<1> QED
  BY <1>1, RoutineTypes, CreateNamespaceTypes DEF TypeOK

LEMMA CreatesType ==
  ASSUME TypeOK, NEW g \in Goroutines, Creates(g)
  PROVE  TypeOK'
BY CreateStepsType, NamespaceCreateType
DEF Creates, PodCreate, DeploymentCreate, StatefulSetCreate, RcCreate, ServiceCreate,
    ResourceCreate

-----------------------------------------------------------------------------

\* The number of calls that fail is a number: the sets they come from are finite.
LEMMA CountGoroutines ==
  ASSUME NEW T \in SUBSET Goroutines
  PROVE  Cardinality(T) \in Nat
BY FS_Subset, FS_CardinalityType, RoutineAssumption

LEMMA ListSelectedType ==
  ASSUME TypeOK, NEW g \in Goroutines, NEW found \in SUBSET Goroutines,
         ListSelected(g, found)
  PROVE  TypeOK'
<1>1. /\ UNCHANGED <<phase, dealt, active, terminating, labelled, objects, existed>>
      /\ UNCHANGED <<inited, nsSet, table, todo>>
      /\ MayList(g)
  BY DEF ListSelected, clusterVars, managerVars
<1>2. phase = "run"
  BY <1>1 DEF TypeOK, MayList
<1>3. at' \in [Goroutines -> {"start", "call", "made", "created", "deleting", "done"}]
  BY DEF ListSelected, TypeOK
<1>4. listed' \in [Goroutines -> SUBSET Goroutines]
  BY DEF ListSelected, TypeOK
<1>5. failures' \in 0 .. MaxFailures
  BY FailType DEF ListSelected, TypeOK
<1> QED
  BY <1>1, <1>2, <1>3, <1>4, <1>5 DEF TypeOK, Present

LEMMA DeleteObjectType ==
  ASSUME TypeOK, NEW g \in Goroutines, NEW r, NEW reachable, DeleteObject(g, r, reachable)
  PROVE  TypeOK'
<1>1. /\ UNCHANGED <<phase, at, active, terminating, labelled, existed>>
      /\ UNCHANGED <<inited, nsSet, table, todo>>
      /\ r \in Goroutines
  BY DEF DeleteObject, managerVars, TypeOK
<1>2. /\ listed' \in [Goroutines -> SUBSET Goroutines]
      /\ dealt' \in [Goroutines -> SUBSET Goroutines]
  BY <1>1 DEF DeleteObject, TypeOK
<1>3. objects' \subseteq Goroutines /\ failures' \in 0 .. MaxFailures
  BY FailType DEF DeleteObject, TypeOK
<1> QED
  BY <1>1, <1>2, <1>3 DEF TypeOK, Present

LEMMA ForgetType ==
  ASSUME TypeOK, NEW g \in Goroutines, Forget(g)
  PROVE  TypeOK'
<1>1. UNCHANGED <<phase, listed, active, terminating, labelled, objects, existed, inited,
                  nsSet, todo, failures>>
  BY DEF Forget, clusterVars
<1>2. at' \in [Goroutines -> {"start", "call", "made", "created", "deleting", "done"}]
  BY DEF Forget, TypeOK
<1>3. phase = "run"
  BY DEF Forget, TypeOK
<1>4. table' \in [ManagerNames -> SUBSET Goroutines] /\ dealt' \in [Goroutines -> SUBSET Goroutines]
  BY RoutineTypes DEF Forget, TypeOK
<1> QED
  BY <1>1, <1>2, <1>3, <1>4 DEF TypeOK, Present

\* A Delete that looks in one namespace.
LEMMA DeleteInType ==
  ASSUME TypeOK, NEW g \in Goroutines, NEW n, DeleteIn(g, n)
  PROVE  TypeOK'
<1>1. SelectedIn(g, n) \in SUBSET Goroutines
  BY DEF SelectedIn, Within
<1> QED
  BY <1>1, ListSelectedType, DeleteObjectType, ForgetType DEF DeleteIn, DeleteEach

LEMMA NoScaleType ==
  ASSUME TypeOK, NEW g \in Goroutines, NoScale(g)
  PROVE  TypeOK'
<1>1. /\ UNCHANGED <<phase, dealt, active, terminating, labelled, objects, existed>>
      /\ UNCHANGED <<inited, nsSet, table, todo>>
      /\ at[g] = "deleting" /\ at' = [at EXCEPT ![g] = "done"]
      /\ listed' = [listed EXCEPT ![g] = {}]
  BY DEF NoScale, Go, clusterVars, managerVars
<1>2. failures' \in 0 .. MaxFailures
  BY FailType DEF NoScale, TypeOK
<1> QED
  BY <1>1, <1>2 DEF TypeOK, Present

LEMMA RcDeleteType ==
  ASSUME TypeOK, NEW g \in Goroutines, RcDelete(g)
  PROVE  TypeOK'
<1>1. SelectedIn(g, DelNs(g)) \in SUBSET Goroutines
  BY DEF SelectedIn, Within
<1> QED
  BY <1>1, ListSelectedType, DeleteObjectType, ForgetType, NoScaleType DEF RcDelete, DeleteEach

LEMMA ResourceDeleteType ==
  ASSUME TypeOK, NEW g \in Goroutines, ResourceDelete(g)
  PROVE  TypeOK'
<1>1. Routine[g].selects \cap objects \in SUBSET Goroutines
  BY RoutineTypes
<1> QED
  BY <1>1, ListSelectedType, DeleteObjectType, ForgetType DEF ResourceDelete

LEMMA DeleteNamespaceType ==
  ASSUME TypeOK, NEW g \in Goroutines, NEW n, DeleteNamespace(g, n)
  PROVE  TypeOK'
<1>1. /\ UNCHANGED <<phase, dealt, labelled, objects, existed, inited, nsSet, table, todo>>
      /\ phase = "run"
  BY DEF DeleteNamespace, managerVars, TypeOK
<1>2. at' \in [Goroutines -> {"start", "call", "made", "created", "deleting", "done"}]
  BY DEF DeleteNamespace, TypeOK
<1>3. listed' \in [Goroutines -> SUBSET Goroutines]
  BY DEF DeleteNamespace, TypeOK
<1>4. failures' \in 0 .. MaxFailures
  BY FailType DEF DeleteNamespace, TypeOK
<1>5. CASE Terminate({Ns(n)})
  BY <1>1, <1>2, <1>3, <1>4, <1>5, TerminateTypes DEF TypeOK
<1>6. CASE UNCHANGED <<active, terminating>>
  BY <1>1, <1>2, <1>3, <1>4, <1>6 DEF TypeOK, Present
<1> QED
  BY <1>5, <1>6 DEF DeleteNamespace

LEMMA NamespaceDeleteType ==
  ASSUME TypeOK, NEW g \in Goroutines, NamespaceDelete(g)
  PROVE  TypeOK'
<1>1. {n \in {g} : Ns(n) \in Present} \in SUBSET Goroutines
  OBVIOUS
<1>2. {n \in Routine[g].selects : Ns(n) \in labelled} \in SUBSET Goroutines
  BY RoutineTypes
<1> QED
  BY <1>1, <1>2, ListSelectedType, DeleteNamespaceType DEF NamespaceDelete

LEMMA DeletesType ==
  ASSUME TypeOK, NEW g \in Goroutines, Deletes(g)
  PROVE  TypeOK'
BY DeleteInType, RcDeleteType, ResourceDeleteType, NamespaceDeleteType
DEF Deletes, PodDelete, DeploymentDelete, StatefulSetDelete, ServiceDelete

LEMMA CountNamespaces ==
  /\ IsFiniteSet(Namespaces)
  /\ \A T \in SUBSET Namespaces : Cardinality(T) \in Nat
<1> DEFINE targets == {Ns(g) : g \in Goroutines}
<1>1. IsFiniteSet(targets)
  <2> DEFINE nsOf == [g \in Goroutines |-> Ns(g)]
  <2>1. nsOf \in Surjection(Goroutines, targets)
    BY DEF Surjection
  <2> QED
    BY <2>1, FS_Surjection, RoutineAssumption
<1>2. Homes = {HomeOf["Pod"], HomeOf["Deployment"], HomeOf["StatefulSet"]}
              \cup {HomeOf["Service"], HomeOf["ReplicationController"], HomeOf["Resource"]}
  BY DEF Homes, HomeOf
<1>3. IsFiniteSet(Homes)
  <2>1. \A x : IsFiniteSet({x})
    BY FS_Singleton
  <2>2. \A x, y, z : {x, y, z} = ({x} \cup {y}) \cup {z}
    OBVIOUS
  <2>3. ASSUME NEW x, NEW y, NEW z PROVE IsFiniteSet({x, y, z})
    <3>1. IsFiniteSet({x} \cup {y})
      BY <2>1, FS_Union
    <3>2. IsFiniteSet(({x} \cup {y}) \cup {z})
      BY <2>1, <3>1, FS_Union
    <3> QED
      BY <2>2, <3>2
  <2> QED
    BY <1>2, <2>3, FS_Union
<1>4. IsFiniteSet(Namespaces)
  BY <1>1, <1>3, FS_Union, ClusterAssumption DEF Namespaces
<1> QED
  BY <1>4, FS_Subset, FS_CardinalityType

LEMMA CleanUpType ==
  ASSUME TypeOK, NEW m \in ManagerNames, m # "Namespace", NEW hit \in SUBSET Goroutines,
         NEW left \in SUBSET Goroutines, CleanUp(m, hit, left)
  PROVE  TypeOK'
<1> DEFINE spaces == ({HomeOf[m]} \cup nsSet[m]) \ {Default}
<1>1. PICK lost \in SUBSET hit, kept \in SUBSET spaces :
        /\ Fail(Cardinality(lost) + Cardinality(kept))
        /\ objects' = objects \ (hit \ lost)
        /\ Terminate(spaces \ kept)
  BY DEF CleanUp
<1>2. spaces \subseteq Namespaces
  BY HomesAreNamespaces DEF TypeOK
<1>3. Cardinality(lost) + Cardinality(kept) \in Nat
  <2>1. Cardinality(lost) \in Nat
    BY CountGoroutines
  <2>2. Cardinality(kept) \in Nat
    BY <1>2, CountNamespaces
  <2> QED
    BY <2>1, <2>2
<1>4. failures' \in 0 .. MaxFailures
  BY <1>1, <1>3, FailType
<1>5. /\ todo' = todo \ {m} /\ phase = "cleanup"
      /\ table' = [table EXCEPT ![m] = left] /\ nsSet' = [nsSet EXCEPT ![m] = {}]
      /\ UNCHANGED <<phase, at, listed, dealt, labelled, existed, inited>>
  BY DEF CleanUp, routineVars
<1> QED
  BY <1>1, <1>4, <1>5, TerminateTypes DEF TypeOK

LEMMA CleanUpNothingType ==
  ASSUME TypeOK, NEW m, CleanUpNothing(m)
  PROVE  TypeOK'
BY FailType DEF TypeOK, CleanUpNothing, routineVars, clusterVars, Present

LEMMA NamespaceDeleteAllType ==
  ASSUME TypeOK, NamespaceDeleteAll
  PROVE  TypeOK'
<1>1. CASE CleanUpNothing("Namespace")
  BY <1>1, CleanUpNothingType
<1>2. CASE /\ phase = "cleanup" /\ "Namespace" \in todo
           /\ todo' = todo \ {"Namespace"}
           /\ \E lost \in SUBSET Labelled :
                Fail(Cardinality(lost)) /\ Terminate(Labelled \ lost)
           /\ UNCHANGED <<phase, routineVars, labelled, objects, existed, inited, nsSet, table>>
  <2> PICK lost \in SUBSET Labelled :
        Fail(Cardinality(lost)) /\ Terminate(Labelled \ lost)
    BY <1>2
  <2>1. Labelled \subseteq Namespaces
    BY DEF Labelled, TypeOK, Present
  <2>2. failures' \in 0 .. MaxFailures
    BY <2>1, CountNamespaces, FailType
  <2> QED
    BY <1>2, <2>2, TerminateTypes DEF TypeOK, routineVars
<1> QED
  BY <1>1, <1>2 DEF NamespaceDeleteAll

LEMMA DeleteAllsType ==
  ASSUME TypeOK, DeleteAlls
  PROVE  TypeOK'
<1>1. \A m \in ManagerNames : table[m] \in SUBSET Goroutines
  BY DEF TypeOK
<1>2. {} \in SUBSET Goroutines /\ table["Service"] \ objects \in SUBSET Goroutines
  BY <1>1, SevenManagers
<1>3. table["Pod"] \cap objects \cap Within(HomeOf["Pod"]) \in SUBSET Goroutines
  BY <1>1, SevenManagers
<1>4. \A m \in ManagerNames : Recorded(m) \in SUBSET Goroutines
  BY <1>1 DEF Recorded
<1>5. {s \in objects : Mgr(s) = "Service" /\ Ns(s) = SvcNs(s)} \in SUBSET Goroutines
  BY DEF TypeOK
<1>6. CASE PodDeleteAll
  BY <1>2, <1>3, <1>6, CleanUpType, SevenManagers DEF PodDeleteAll
<1>7. CASE DeploymentDeleteAll \/ StatefulSetDeleteAll \/ RcDeleteAll
  BY <1>2, <1>4, <1>7, CleanUpType, SevenManagers
  DEF DeploymentDeleteAll, StatefulSetDeleteAll, RcDeleteAll
<1>8. CASE ServiceDeleteAll
  BY <1>2, <1>5, <1>8, CleanUpType, CleanUpNothingType, SevenManagers DEF ServiceDeleteAll
<1>9. CASE ResourceDeleteAll
  BY <1>1, <1>2, <1>9, CleanUpType, SevenManagers DEF ResourceDeleteAll
<1> QED
  BY <1>6, <1>7, <1>8, <1>9, NamespaceDeleteAllType DEF DeleteAlls

LEMMA InitsType ==
  ASSUME TypeOK, Inits
  PROVE  TypeOK'
<1>1. CASE NamespaceInit
  BY <1>1, SevenManagers DEF NamespaceInit, TypeOK, routineVars, clusterVars, Present
<1> QED
  BY <1>1, InitManagerType, SevenManagers
  DEF Inits, PodInit, DeploymentInit, StatefulSetInit, RcInit, ServiceInit, ResourceInit

\* The types hold at first and every step keeps them.
LEMMA TypeInductive ==
  /\ Init => TypeOK
  /\ TypeOK /\ [Next]_vars => TypeOK'
<1>1. Init => TypeOK
  BY ClusterAssumption DEF Init, TypeOK, Present, Namespaces
<1>2. ASSUME TypeOK, [Next]_vars PROVE TypeOK'
  <2>1. CASE Finalize \/ Exit
    BY <1>2, <2>1 DEF TypeOK, Finalize, Exit, routineVars, clusterVars, managerVars, Present
  <2>2. CASE \E g \in Goroutines : Finish(g)
    BY <1>2, <2>2 DEF TypeOK, Finish, MayList, clusterVars, managerVars, Present
  <2>3. CASE \E n \in terminating : Collapse(n)
    BY <1>2, <2>3 DEF TypeOK, Collapse, routineVars, managerVars, Present
  <2>4. CASE UNCHANGED vars
    BY <1>2, <2>4 DEF TypeOK, vars, routineVars, clusterVars, managerVars, Present
  <2> QED
    BY <1>2, <2>1, <2>2, <2>3, <2>4, InitsType, CreatesType, DeletesType, DeleteAllsType DEF Next
<1> QED
  BY <1>1, <1>2

\* Every state of the managers' life is well typed.
THEOREM LifecycleTypes == Spec => []TypeOK
BY TypeInductive, PTL DEF Spec

-----------------------------------------------------------------------------
(* Namespaces *)

\* The namespaces that the configuration, an earlier run or the driver name.
Own == Homes \cup Leftover \cup {Ns(g) : g \in Goroutines}

\* All that DeleteAll and Delete can take for kbench's are such namespaces.
KeptInv ==
  /\ NamespacesExisted
  /\ OthersSpared
  /\ \A m \in ManagerNames : nsSet[m] \subseteq Own
  /\ labelled \subseteq Own

LEMMA KeptFrame ==
  ASSUME KeptInv, UNCHANGED <<active, labelled, existed, nsSet>>
  PROVE  KeptInv'
BY DEF KeptInv, NamespacesExisted, OthersSpared

\* Creating a namespace takes none away.
LEMMA CreateKeeps ==
  ASSUME KeptInv, TypeOK, NEW m \in ManagerNames, NEW n \in Own, NEW answer,
         CreateNamespace(n, answer),
         \/ nsSet' = nsSet
         \/ nsSet' = [nsSet EXCEPT ![m] = @ \cup {n}] /\ (m = "Pod" => answer # "error"),
         labelled' = labelled \/ labelled' = labelled \cup {n}
  PROVE  KeptInv'
<1>1. active \subseteq active' /\ existed \subseteq existed'
  BY DEF CreateNamespace
<1>2. answer # "error" => n \in existed'
  BY DEF CreateNamespace, TypeOK, Present
<1>3. OthersSpared'
  BY <1>1 DEF KeptInv, OthersSpared
<1>4. NamespacesExisted'
  <2>1. nsSet'["Pod"] \subseteq nsSet["Pod"] \cup (IF answer # "error" THEN {n} ELSE {})
    BY SevenManagers DEF TypeOK
  <2> QED
    BY <1>1, <1>2, <2>1 DEF KeptInv, NamespacesExisted
<1>5. (\A k \in ManagerNames : nsSet[k] \subseteq Own)'
  BY DEF KeptInv, TypeOK, Own
<1> QED
  BY <1>3, <1>4, <1>5 DEF KeptInv, Own

\* Deleting namespaces of kbench takes no other away.
LEMMA TerminateKeeps ==
  ASSUME KeptInv, TypeOK, NEW S \in SUBSET Own, Terminate(S), NEW m \in ManagerNames,
         nsSet' = nsSet \/ nsSet' = [nsSet EXCEPT ![m] = {}],
         UNCHANGED <<labelled, existed>>
  PROVE  KeptInv'
<1>1. OthersSpared'
  BY DEF KeptInv, OthersSpared, Own, Terminate
<1> QED
  BY <1>1, SevenManagers DEF KeptInv, NamespacesExisted, TypeOK, Own

LEMMA InitsKeep ==
  ASSUME KeptInv, TypeOK, Inits
  PROVE  KeptInv'
<1>1. ASSUME NEW m \in ManagerNames, m # "Namespace", NEW records, InitManager(m, records)
      PROVE  KeptInv'
  <2> PICK answer \in {"created", "already exists", "error"} :
         /\ CreateNamespace(HomeOf[m], answer)
         /\ nsSet' = IF records /\ answer = "created"
                     THEN [nsSet EXCEPT ![m] = @ \cup {HomeOf[m]}] ELSE nsSet
    BY <1>1 DEF InitManager
  <2>1. HomeOf[m] \in Own /\ labelled' = labelled
    BY <1>1, HomesAreNamespaces DEF Own, InitManager
  <2> QED
    BY <2>1, CreateKeeps
<1>2. CASE NamespaceInit
  BY <1>2, KeptFrame DEF NamespaceInit, clusterVars
<1> QED
  BY <1>1, <1>2, SevenManagers
  DEF Inits, PodInit, DeploymentInit, StatefulSetInit, RcInit, ServiceInit, ResourceInit

LEMMA CreatesKeep ==
  ASSUME KeptInv, TypeOK, NEW g \in Goroutines, Creates(g)
  PROVE  KeptInv'
<1>1. Mgr(g) \in ManagerNames /\ Ns(g) \in Own
  BY RoutineTypes DEF Own
<1>2. ASSUME NEW keeps, CreateSteps(g, keeps), Mgr(g) = "Pod" => "error" \notin keeps
      PROVE  KeptInv'
  <2>1. CASE CallCreate(g) \/ Record(g)
    BY <2>1, KeptFrame DEF CallCreate, Record, managerVars, clusterVars
  <2>2. CASE EnsureNamespace(g, keeps)
    <3>1. labelled' = labelled
      BY <2>2 DEF EnsureNamespace
    <3>2. CASE UNCHANGED <<active, existed, nsSet, failures>>
      BY <3>1, <3>2, KeptFrame
    <3>3. CASE \E answer \in {"created", "already exists", "error"} :
                 /\ CreateNamespace(Ns(g), answer)
                 /\ nsSet' = IF answer \in keeps
                             THEN [nsSet EXCEPT ![Mgr(g)] = @ \cup {Ns(g)}] ELSE nsSet
      BY <1>1, <1>2, <3>1, <3>3, CreateKeeps
    <3> QED
      BY <2>2, <3>2, <3>3 DEF EnsureNamespace
  <2> QED
    BY <1>2, <2>1, <2>2 DEF CreateSteps
<1>3. CASE NamespaceCreate(g)
  BY <1>1, <1>3, CreateKeeps DEF NamespaceCreate, managerVars
<1> QED
  BY <1>2, <1>3
  DEF Creates, PodCreate, DeploymentCreate, StatefulSetCreate, RcCreate, ServiceCreate,
      ResourceCreate, PodKeeps

LEMMA DeletesKeep ==
  ASSUME KeptInv, TypeOK, NEW g \in Goroutines, Deletes(g)
  PROVE  KeptInv'
<1>1. ASSUME NEW found, ListSelected(g, found) PROVE KeptInv'
  BY <1>1, KeptFrame DEF ListSelected, clusterVars, managerVars
<1>2. ASSUME NEW r, NEW reachable, DeleteObject(g, r, reachable) PROVE KeptInv'
  BY <1>2, KeptFrame DEF DeleteObject, managerVars
<1>3. CASE Forget(g)
  BY <1>3, KeptFrame DEF Forget, clusterVars
<1>4. CASE NoScale(g)
  BY <1>4, KeptFrame DEF NoScale, clusterVars, managerVars
<1>5. ASSUME NEW n, DeleteNamespace(g, n) PROVE KeptInv'
  <2>1. n \in Goroutines /\ UNCHANGED <<labelled, existed, nsSet>>
    BY <1>5 DEF DeleteNamespace, managerVars, TypeOK
  <2>2. CASE UNCHANGED <<active, terminating>>
    BY <2>1, <2>2, KeptFrame
  <2>3. CASE Terminate({Ns(n)})
    <3>1. {Ns(n)} \in SUBSET Own
      BY <2>1 DEF Own
    <3> QED
      BY <2>1, <2>3, <3>1, TerminateKeeps, SevenManagers
  <2> QED
    BY <1>5, <2>2, <2>3 DEF DeleteNamespace
<1>6. ASSUME NEW n, DeleteIn(g, n) PROVE KeptInv'
  BY <1>1, <1>2, <1>3, <1>6 DEF DeleteIn, DeleteEach
<1>7. CASE RcDelete(g) \/ ResourceDelete(g)
  BY <1>1, <1>2, <1>3, <1>4, <1>7 DEF RcDelete, DeleteEach, ResourceDelete
<1>8. CASE NamespaceDelete(g)
  BY <1>1, <1>5, <1>8 DEF NamespaceDelete
<1> QED
  BY <1>6, <1>7, <1>8
  DEF Deletes, PodDelete, DeploymentDelete, StatefulSetDelete, ServiceDelete

LEMMA DeleteAllsKeep ==
  ASSUME KeptInv, TypeOK, DeleteAlls
  PROVE  KeptInv'
<1>1. ASSUME NEW m \in ManagerNames, m # "Namespace", NEW hit, NEW left, CleanUp(m, hit, left)
      PROVE  KeptInv'
  <2> DEFINE spaces == ({HomeOf[m]} \cup nsSet[m]) \ {Default}
  <2>1. PICK kept \in SUBSET spaces : Terminate(spaces \ kept)
    BY <1>1 DEF CleanUp
  <2>2. nsSet' = [nsSet EXCEPT ![m] = {}] /\ UNCHANGED <<labelled, existed>>
    BY <1>1 DEF CleanUp
  <2>3. spaces \ kept \in SUBSET Own
    BY <1>1, HomesAreNamespaces DEF KeptInv, Own
  <2> QED
    BY <2>1, <2>2, <2>3, TerminateKeeps
<1>2. ASSUME NEW m, CleanUpNothing(m) PROVE KeptInv'
  BY <1>2, KeptFrame DEF CleanUpNothing, clusterVars
<1>3. CASE NamespaceDeleteAll
  <2>1. CASE CleanUpNothing("Namespace")
    BY <1>2, <2>1
  <2>2. CASE /\ \E lost \in SUBSET Labelled :
                  Fail(Cardinality(lost)) /\ Terminate(Labelled \ lost)
             /\ UNCHANGED <<labelled, existed, nsSet>>
    <3>1. PICK lost \in SUBSET Labelled : Terminate(Labelled \ lost)
      BY <2>2
    <3>2. Labelled \ lost \in SUBSET Own
      BY DEF Labelled, KeptInv
    <3> QED
      BY <2>2, <3>1, <3>2, TerminateKeeps, SevenManagers
  <2> QED
    BY <1>3, <2>1, <2>2 DEF NamespaceDeleteAll
<1> QED
  BY <1>1, <1>2, <1>3, SevenManagers
  DEF DeleteAlls, PodDeleteAll, DeploymentDeleteAll, StatefulSetDeleteAll, RcDeleteAll,
      ServiceDeleteAll, ResourceDeleteAll

LEMMA KeptInductive ==
  /\ Init => KeptInv
  /\ KeptInv /\ TypeOK /\ [Next]_vars => KeptInv'
<1>1. Init => KeptInv
  BY SevenManagers DEF Init, KeptInv, NamespacesExisted, OthersSpared, Own
<1>2. ASSUME KeptInv, TypeOK, [Next]_vars PROVE KeptInv'
  <2>1. CASE Finalize \/ Exit \/ \E g \in Goroutines : Finish(g)
    BY <2>1, KeptFrame, <1>2 DEF Finalize, Exit, Finish, clusterVars, managerVars
  <2>2. CASE \E n \in terminating : Collapse(n)
    BY <1>2, <2>2 DEF KeptInv, NamespacesExisted, OthersSpared, Collapse, managerVars
  <2>3. CASE UNCHANGED vars
    BY <1>2, <2>3, KeptFrame DEF vars, clusterVars, managerVars
  <2> QED
    BY <1>2, <2>1, <2>2, <2>3, InitsKeep, CreatesKeep, DeletesKeep, DeleteAllsKeep DEF Next
<1> QED
  BY <1>1, <1>2

\* The pod manager keeps no namespace that was never there.
THEOREM KeptNamespacesExisted == Spec => []NamespacesExisted
<1>1. KeptInv => NamespacesExisted
  BY DEF KeptInv
<1> QED
  BY <1>1, TypeInductive, KeptInductive, PTL DEF Spec

\* Namespaces that have nothing to do with kbench survive run and cleanup.
THEOREM OtherNamespacesSpared == Spec => []OthersSpared
<1>1. KeptInv => OthersSpared
  BY DEF KeptInv
<1> QED
  BY <1>1, TypeInductive, KeptInductive, PTL DEF Spec

-----------------------------------------------------------------------------
(* The loop of a Delete *)

\* A goroutine starts when the operations before its own are over.
TurnInv ==
  \A g, h \in Goroutines : Routine[h].op < Routine[g].op /\ at[g] # "start" => at[h] = "done"

\* What is on its list and what it has dealt with are different objects of its
\* selection, which were created; all the objects there are were created.
ListInv ==
  /\ \A g \in objects : Mgr(g) # "Namespace" /\ at[g] \notin {"start", "call"}
  /\ \A g \in Goroutines :
       /\ listed[g] \cup dealt[g] \subseteq Routine[g].selects
       /\ listed[g] \cap dealt[g] = {}
       /\ at[g] # "deleting" \/ Mgr(g) = "Namespace" => dealt[g] = {}
       /\ Mgr(g) # "Namespace" => \A r \in listed[g] \cup dealt[g] : at[r] \notin {"start", "call"}

LoopInv == TurnInv /\ ListInv

\* One goroutine, which has not ended, moves; if it starts it is its turn.
Moves(g) ==
  /\ \A h \in Goroutines \ {g} : at'[h] = at[h]
  /\ at[g] # "done"
  /\ at[g] = "start" => Turn(g)

LEMMA TurnKept ==
  ASSUME TurnInv, NEW g \in Goroutines, Moves(g)
  PROVE  TurnInv'
<1> SUFFICES ASSUME NEW a \in Goroutines, NEW b \in Goroutines,
                    Routine[b].op < Routine[a].op, at'[a] # "start"
             PROVE  at'[b] = "done"
  BY DEF TurnInv
<1>1. a # b
  BY RoutineAssumption
<1>2. CASE a = g
  BY <1>1, <1>2 DEF TurnInv, Moves, Turn
<1>3. CASE b = g
  BY <1>1, <1>3 DEF TurnInv, Moves
<1>4. CASE a # g /\ b # g
  BY <1>4 DEF TurnInv, Moves
<1> QED
  BY <1>2, <1>3, <1>4

LEMMA RoutinesMove ==
  ASSUME TypeOK, NEW g \in Goroutines, Creates(g) \/ Deletes(g) \/ Finish(g)
  PROVE  Moves(g)
<1>1. ASSUME NEW keeps, CreateSteps(g, keeps) PROVE Moves(g)
  BY <1>1 DEF CreateSteps, EnsureNamespace, CallCreate, Record, Go, Moves, TypeOK
<1>2. CASE NamespaceCreate(g)
  BY <1>2 DEF NamespaceCreate, Go, Moves, TypeOK
<1>3. ASSUME NEW found, ListSelected(g, found) PROVE Moves(g)
  BY <1>3 DEF ListSelected, MayList, Moves, TypeOK
<1>4. ASSUME NEW r, NEW reachable, DeleteObject(g, r, reachable) PROVE Moves(g)
  BY <1>4 DEF DeleteObject, Moves
<1>5. CASE Forget(g) \/ NoScale(g)
  BY <1>5 DEF Forget, NoScale, Go, Moves, TypeOK
<1>6. ASSUME NEW n, DeleteNamespace(g, n) PROVE Moves(g)
  BY <1>6 DEF DeleteNamespace, Moves, TypeOK
<1>7. CASE Finish(g)
  BY <1>7 DEF Finish, MayList, Moves, TypeOK
<1>8. CASE Deletes(g)
  BY <1>3, <1>4, <1>5, <1>6, <1>8
  DEF Deletes, PodDelete, DeploymentDelete, StatefulSetDelete, ServiceDelete, RcDelete,
      ResourceDelete, NamespaceDelete, DeleteIn, DeleteEach
<1>9. CASE Creates(g)
  BY <1>1, <1>2, <1>9
  DEF Creates, PodCreate, DeploymentCreate, StatefulSetCreate, RcCreate, ServiceCreate,
      ResourceCreate
<1> QED
  BY <1>7, <1>8, <1>9

\* Steps that add nothing to the objects and the lists keep ListInv.
LEMMA ListFrame ==
  ASSUME ListInv, TypeOK, objects' \subseteq objects,
         \A h \in Goroutines :
           /\ at[h] \notin {"start", "call"} => at'[h] \notin {"start", "call"}
           /\ listed'[h] \subseteq listed[h] /\ dealt'[h] \subseteq dealt[h]
           /\ at'[h] # "deleting" => at[h] # "deleting" \/ dealt'[h] = {} \/ Mgr(h) = "Namespace"
  PROVE  ListInv'
<1>1. \A g \in objects' : Mgr(g) # "Namespace" /\ at'[g] \notin {"start", "call"}
  BY DEF ListInv, TypeOK
<1>2. ASSUME NEW g \in Goroutines
      PROVE  /\ listed'[g] \cup dealt'[g] \subseteq Routine[g].selects
             /\ listed'[g] \cap dealt'[g] = {}
             /\ at'[g] # "deleting" \/ Mgr(g) = "Namespace" => dealt'[g] = {}
             /\ Mgr(g) # "Namespace" =>
                  \A r \in listed'[g] \cup dealt'[g] : at'[r] \notin {"start", "call"}
  BY DEF ListInv, TypeOK
<1> QED
  BY <1>1, <1>2 DEF ListInv, Mgr

LEMMA CreatesKeepLists ==
  ASSUME ListInv, TypeOK, NEW g \in Goroutines, Creates(g)
  PROVE  ListInv'
<1>1. ASSUME NEW keeps, EnsureNamespace(g, keeps) PROVE ListInv'
  <2>1. UNCHANGED <<objects, listed, dealt>> /\ at[g] = "start"
    BY <1>1 DEF EnsureNamespace, Go
  <2>2. at' = [at EXCEPT ![g] = "call"]
    BY <1>1 DEF EnsureNamespace, Go
  <2> QED
    BY <2>1, <2>2, ListFrame DEF TypeOK
<1>2. CASE Record(g) \/ NamespaceCreate(g)
  <2>1. UNCHANGED <<objects, listed, dealt>> /\ at[g] # "deleting"
    BY <1>2 DEF Record, NamespaceCreate, Go, clusterVars
  <2>2. at' = [at EXCEPT ![g] = "created"]
    BY <1>2 DEF Record, NamespaceCreate, Go
  <2> QED
    BY <2>1, <2>2, ListFrame DEF TypeOK
<1>3. ASSUME CallCreate(g), Mgr(g) # "Namespace" PROVE ListInv'
  <2>1. UNCHANGED <<listed, dealt>> /\ at[g] = "call"
    BY <1>3 DEF CallCreate, Go
  <2>2. at' = [at EXCEPT ![g] = "made"] \/ at' = [at EXCEPT ![g] = "created"]
    BY <1>3 DEF CallCreate, Go
  <2>3. objects' \subseteq objects \cup {g}
    BY <1>3 DEF CallCreate
  <2>4. \A h \in Goroutines :
          /\ at[h] \notin {"start", "call"} => at'[h] \notin {"start", "call"}
          /\ at'[h] # "deleting" => at[h] # "deleting"
    BY <2>1, <2>2 DEF TypeOK
  <2>5. at'[g] \notin {"start", "call"}
    BY <2>2 DEF TypeOK
  <2>6. \A h \in objects' : Mgr(h) # "Namespace" /\ at'[h] \notin {"start", "call"}
    BY <1>3, <2>3, <2>4, <2>5 DEF ListInv, TypeOK
  <2>7. ASSUME NEW h \in Goroutines
        PROVE  /\ listed'[h] \cup dealt'[h] \subseteq Routine[h].selects
               /\ listed'[h] \cap dealt'[h] = {}
               /\ at'[h] # "deleting" \/ Mgr(h) = "Namespace" => dealt'[h] = {}
               /\ Mgr(h) # "Namespace" =>
                    \A r \in listed'[h] \cup dealt'[h] : at'[r] \notin {"start", "call"}
    BY <2>1, <2>4 DEF ListInv, TypeOK
  <2> QED
    BY <2>6, <2>7 DEF ListInv, Mgr
<1> QED
  BY <1>1, <1>2, <1>3
  DEF Creates, CreateSteps, PodCreate, DeploymentCreate, StatefulSetCreate, RcCreate,
      ServiceCreate, ResourceCreate

\* What was found was selected, and created unless it is a namespace.
LEMMA ListingKeepsLists ==
  ASSUME ListInv, TypeOK, NEW g \in Goroutines, NEW found, ListSelected(g, found),
         found \subseteq Routine[g].selects,
         Mgr(g) # "Namespace" => found \subseteq objects
  PROVE  ListInv'
<1>1. UNCHANGED <<objects, dealt>> /\ at[g] # "deleting"
  BY DEF ListSelected, clusterVars, MayList
<1>2. \A h \in Goroutines : at'[h] = at[h] \/ (h = g /\ at'[h] \in {"deleting", "done"})
  BY DEF ListSelected, TypeOK
<1>3. \A h \in Goroutines : listed'[h] = listed[h] \/ (h = g /\ listed'[h] = found)
  BY DEF ListSelected, TypeOK
<1>4. dealt[g] = {}
  BY <1>1 DEF ListInv
<1>5. \A h \in objects : Mgr(h) # "Namespace" /\ at'[h] \notin {"start", "call"}
  BY <1>2 DEF ListInv, TypeOK
<1>6. ASSUME NEW h \in Goroutines
      PROVE  /\ listed'[h] \cup dealt'[h] \subseteq Routine[h].selects
             /\ listed'[h] \cap dealt'[h] = {}
             /\ at'[h] # "deleting" \/ Mgr(h) = "Namespace" => dealt'[h] = {}
             /\ Mgr(h) # "Namespace" =>
                  \A r \in listed'[h] \cup dealt'[h] : at'[r] \notin {"start", "call"}
  <2>1. CASE listed'[h] = listed[h]
    BY <1>1, <1>2, <1>4, <2>1 DEF ListInv, TypeOK
  <2>2. CASE h = g /\ listed'[h] = found
    BY <1>1, <1>4, <1>5, <2>2
  <2> QED
    BY <1>3, <2>1, <2>2
<1> QED
  BY <1>1, <1>5, <1>6 DEF ListInv, Mgr

LEMMA DeletingKeepsLists ==
  ASSUME ListInv, TypeOK, NEW g \in Goroutines, Mgr(g) # "Namespace", NEW r, NEW reachable,
         DeleteObject(g, r, reachable)
  PROVE  ListInv'
<1>1. /\ UNCHANGED at /\ objects' \subseteq objects /\ r \in listed[g]
      /\ at[g] = "deleting"
  BY DEF DeleteObject
<1>2. /\ listed' = [listed EXCEPT ![g] = @ \ {r}]
      /\ dealt' = [dealt EXCEPT ![g] = @ \cup {r}]
  BY DEF DeleteObject
<1>3. ASSUME NEW h \in Goroutines
      PROVE  /\ listed'[h] \cup dealt'[h] = listed[h] \cup dealt[h]
             /\ listed'[h] \cap dealt'[h] = {}
             /\ at'[h] # "deleting" \/ Mgr(h) = "Namespace" => dealt'[h] = {}
  <2>1. listed[h] \cap dealt[h] = {}
    BY DEF ListInv
  <2>2. at[h] # "deleting" \/ Mgr(h) = "Namespace" => h # g /\ dealt[h] = {}
    BY <1>1 DEF ListInv
  <2> QED
    BY <1>1, <1>2, <2>1, <2>2 DEF TypeOK
<1> QED
  BY <1>1, <1>3 DEF ListInv, Mgr

LEMMA DeletesKeepLists ==
  ASSUME ListInv, TypeOK, NEW g \in Goroutines, Deletes(g)
  PROVE  ListInv'
<1>1. ASSUME Forget(g), Mgr(g) # "Namespace" PROVE ListInv'
  BY <1>1, ListFrame DEF Forget, clusterVars, TypeOK
<1>2. CASE NoScale(g)
  BY <1>2, ListFrame DEF NoScale, Go, clusterVars, TypeOK
<1>3. ASSUME NEW n, DeleteNamespace(g, n), Mgr(g) = "Namespace" PROVE ListInv'
  BY <1>3, ListFrame DEF DeleteNamespace, TypeOK
<1>4. ASSUME Mgr(g) # "Namespace", NEW n, DeleteIn(g, n) PROVE ListInv'
  <2>1. SelectedIn(g, n) \subseteq Routine[g].selects \cap objects
    BY DEF SelectedIn
  <2> QED
    BY <1>1, <1>4, <2>1, ListingKeepsLists, DeletingKeepsLists DEF DeleteIn, DeleteEach
<1>5. CASE RcDelete(g)
  <2>1. SelectedIn(g, DelNs(g)) \subseteq Routine[g].selects \cap objects
    BY DEF SelectedIn
  <2>2. Mgr(g) # "Namespace"
    BY <1>5 DEF RcDelete
  <2> QED
    BY <1>1, <1>2, <1>5, <2>1, <2>2, ListingKeepsLists, DeletingKeepsLists
    DEF RcDelete, DeleteEach
<1>6. CASE ResourceDelete(g)
  <2>1. Mgr(g) # "Namespace"
    BY <1>6 DEF ResourceDelete
  <2> QED
    BY <1>1, <1>6, <2>1, ListingKeepsLists, DeletingKeepsLists DEF ResourceDelete
<1>7. CASE NamespaceDelete(g)
  <2>1. CASE \E n \in listed[g] : DeleteNamespace(g, n)
    BY <1>3, <1>7, <2>1 DEF NamespaceDelete
  <2>2. CASE /\ Routine[g].selects = {g}
             /\ ListSelected(g, {n \in {g} : Ns(n) \in Present})
    BY <1>7, <2>2, ListingKeepsLists DEF NamespaceDelete
  <2>3. CASE ListSelected(g, {n \in Routine[g].selects : Ns(n) \in labelled})
    BY <1>7, <2>3, ListingKeepsLists DEF NamespaceDelete
  <2> QED
    BY <1>7, <2>1, <2>2, <2>3 DEF NamespaceDelete
<1>8. CASE ServiceDelete(g) \/ PodDelete(g) \/ DeploymentDelete(g) \/ StatefulSetDelete(g)
  BY <1>4, <1>8 DEF ServiceDelete, PodDelete, DeploymentDelete, StatefulSetDelete
<1> QED
  BY <1>5, <1>6, <1>7, <1>8 DEF Deletes

LEMMA LoopInductive ==
  /\ Init => LoopInv
  /\ LoopInv /\ TypeOK /\ [Next]_vars => LoopInv'
<1>1. Init => LoopInv
  BY RoutineAssumption DEF Init, LoopInv, TurnInv, ListInv
<1>2. ASSUME LoopInv, TypeOK, [Next]_vars PROVE LoopInv'
  <2>1. ASSUME UNCHANGED <<at, listed, dealt>>, objects' \subseteq objects PROVE LoopInv'
    <3>1. ListInv'
      BY <1>2, <2>1, ListFrame DEF LoopInv
    <3> QED
      BY <1>2, <2>1, <3>1 DEF LoopInv, TurnInv
  <2>2. CASE Finalize \/ Exit \/ UNCHANGED vars \/ \E n \in terminating : Collapse(n)
    BY <2>1, <2>2 DEF Finalize, Exit, vars, Collapse, routineVars, clusterVars
  <2>3. CASE Inits
    BY <2>1, <2>3
    DEF Inits, InitManager, PodInit, DeploymentInit, StatefulSetInit, RcInit, ServiceInit,
        ResourceInit, NamespaceInit, routineVars, clusterVars
  <2>4. CASE DeleteAlls
    <3>1. ASSUME NEW m, NEW hit, NEW left, CleanUp(m, hit, left) PROVE LoopInv'
      BY <2>1, <3>1 DEF CleanUp, routineVars
    <3>2. ASSUME NEW m, CleanUpNothing(m) PROVE LoopInv'
      BY <2>1, <3>2 DEF CleanUpNothing, routineVars, clusterVars
    <3>3. CASE NamespaceDeleteAll
      BY <2>1, <3>2, <3>3 DEF NamespaceDeleteAll, routineVars
    <3> QED
      BY <2>4, <3>1, <3>2, <3>3
      DEF DeleteAlls, PodDeleteAll, DeploymentDeleteAll, StatefulSetDeleteAll, RcDeleteAll,
          ServiceDeleteAll, ResourceDeleteAll
  <2>5. ASSUME NEW g \in Goroutines, Finish(g) PROVE ListInv'
    BY <1>2, <2>5, ListFrame DEF LoopInv, Finish, MayList, clusterVars, TypeOK
  <2>6. ASSUME NEW g \in Goroutines, Creates(g) \/ Deletes(g) \/ Finish(g) PROVE LoopInv'
    BY <1>2, <2>5, <2>6, RoutinesMove, TurnKept, CreatesKeepLists, DeletesKeepLists DEF LoopInv
  <2> QED
    BY <1>2, <2>2, <2>3, <2>4, <2>6 DEF Next
<1> QED
  BY <1>1, <1>2

-----------------------------------------------------------------------------
(* Own objects *)

\* While no call has failed, what has been dealt with is gone, unless it is a
\* resource.
DealtInv ==
  failures = 0 => \A g \in Goroutines : Mgr(g) # "Resource" => dealt[g] \cap objects = {}

\* Then an object that its goroutine is to delete is on record from the answer on,
\* is on the goroutine's list while that one deletes, and gone thereafter.
OwnObject(g) ==
  /\ at[g] \in {"created", "deleting"} => g \in table[Mgr(g)] \/ Routine[g].global
  /\ at[g] = "deleting" =>
       /\ g \in listed[g]
       /\ Mgr(g) = "ReplicationController" => listed[g] \subseteq objects \cap Within(Ns(g))
  /\ at[g] # "done"

OwnInv == failures = 0 => \A g \in objects : FindsOwn(g) => OwnObject(g)

\* Where a call failed there is nothing to show.
LEMMA FailedCall ==
  ASSUME TypeOK, NEW k \in Nat, Fail(k), failures' = 0
  PROVE  k = 0 /\ failures = 0
BY ClusterAssumption DEF TypeOK, Fail

LEMMA NamespaceCall ==
  ASSUME TypeOK, NEW n, NEW answer, CreateNamespace(n, answer), failures' = 0
  PROVE  failures = 0
BY FailedCall DEF CreateNamespace

LEMMA CleanUpCall ==
  ASSUME TypeOK, NEW m \in ManagerNames, m # "Namespace", NEW hit \in SUBSET Goroutines,
         NEW left, CleanUp(m, hit, left), failures' = 0
  PROVE  failures = 0
<1> DEFINE spaces == ({HomeOf[m]} \cup nsSet[m]) \ {Default}
<1>1. PICK lost \in SUBSET hit, kept \in SUBSET spaces :
        Fail(Cardinality(lost) + Cardinality(kept))
  BY DEF CleanUp
<1>2. Cardinality(lost) \in Nat /\ Cardinality(kept) \in Nat
  BY CountGoroutines, CountNamespaces, HomesAreNamespaces DEF TypeOK
<1> QED
  BY <1>1, <1>2, FailedCall

\* The cleanup comes when all goroutines are done, only takes away, and hides no
\* failure.
LEMMA DeleteAllsTake ==
  ASSUME TypeOK, DeleteAlls
  PROVE  /\ \A g \in Goroutines : at[g] = "done"
         /\ UNCHANGED <<at, dealt>> /\ objects' \subseteq objects
         /\ failures' = 0 => failures = 0
<1> DEFINE Goal == /\ \A g \in Goroutines : at[g] = "done"
                   /\ UNCHANGED <<at, dealt>> /\ objects' \subseteq objects
                   /\ failures' = 0 => failures = 0
<1> SUFFICES Goal
  OBVIOUS
<1>1. ASSUME NEW m \in ManagerNames, m # "Namespace", NEW hit \in SUBSET Goroutines, NEW left,
             CleanUp(m, hit, left)
      PROVE  Goal
  BY <1>1, CleanUpCall DEF CleanUp, TypeOK, routineVars
<1>2. ASSUME NEW m, CleanUpNothing(m) PROVE Goal
  BY <1>2, FailedCall DEF CleanUpNothing, TypeOK, routineVars, clusterVars
<1>3. CASE NamespaceDeleteAll
  <2>1. CASE CleanUpNothing("Namespace")
    BY <1>2, <2>1
  <2>2. CASE /\ phase = "cleanup" /\ UNCHANGED <<routineVars, objects>>
             /\ \E lost \in SUBSET Labelled :
                  Fail(Cardinality(lost)) /\ Terminate(Labelled \ lost)
    <3> PICK lost \in SUBSET Labelled : Fail(Cardinality(lost))
      BY <2>2
    <3>1. Cardinality(lost) \in Nat
      BY CountNamespaces DEF Labelled, TypeOK, Present
    <3>2. failures' = 0 => failures = 0
      BY <3>1, FailedCall
    <3> QED
      BY <2>2, <3>2 DEF TypeOK, routineVars
  <2> QED
    BY <1>3, <2>1, <2>2 DEF NamespaceDeleteAll
<1>4. table["Pod"] \cap objects \cap Within(HomeOf["Pod"]) \in SUBSET Goroutines
  BY SevenManagers DEF TypeOK
<1>5. \A m \in ManagerNames : Recorded(m) \in SUBSET Goroutines
  BY DEF Recorded, TypeOK
<1>6. {s \in objects : Mgr(s) = "Service" /\ Ns(s) = SvcNs(s)} \in SUBSET Goroutines
  BY DEF TypeOK
<1> HIDE DEF Goal
<1>7. CASE PodDeleteAll
  BY <1>1, <1>4, <1>7, SevenManagers DEF PodDeleteAll
<1>8. CASE DeploymentDeleteAll \/ StatefulSetDeleteAll \/ RcDeleteAll
  BY <1>1, <1>5, <1>8, SevenManagers DEF DeploymentDeleteAll, StatefulSetDeleteAll, RcDeleteAll
<1>9. CASE ServiceDeleteAll
  BY <1>1, <1>2, <1>6, <1>9, SevenManagers DEF ServiceDeleteAll
<1>10. CASE ResourceDeleteAll
  BY <1>1, <1>10, SevenManagers DEF ResourceDeleteAll
<1> QED
  BY <1>3, <1>7, <1>8, <1>9, <1>10 DEF DeleteAlls

LEMMA InitsTouchNone ==
  ASSUME TypeOK, Inits
  PROVE  /\ UNCHANGED <<at, listed, dealt, objects, table>>
         /\ failures' = 0 => failures = 0
<1>1. failures' = 0 => failures = 0
  BY NamespaceCall
  DEF Inits, InitManager, PodInit, DeploymentInit, StatefulSetInit, RcInit, ServiceInit,
      ResourceInit, NamespaceInit
<1> QED
  BY <1>1
  DEF Inits, InitManager, PodInit, DeploymentInit, StatefulSetInit, RcInit, ServiceInit,
      ResourceInit, NamespaceInit, routineVars, clusterVars

-----------------------------------------------------------------------------

\* A step that deals with nothing and creates nothing keeps DealtInv.
LEMMA DealtFrame ==
  ASSUME DealtInv, TypeOK, failures' = 0 => failures = 0, objects' \subseteq objects,
         \A h \in Goroutines : dealt'[h] \subseteq dealt[h]
  PROVE  DealtInv'
BY DEF DealtInv, Mgr

LEMMA CreatesKeepDealt ==
  ASSUME DealtInv, ListInv, TypeOK, NEW g \in Goroutines, Creates(g)
  PROVE  DealtInv'
<1>1. ASSUME NEW keeps, EnsureNamespace(g, keeps) PROVE DealtInv'
  <2>1. failures' = 0 => failures = 0
    BY <1>1, NamespaceCall DEF EnsureNamespace
  <2> QED
    BY <1>1, <2>1, DealtFrame DEF EnsureNamespace
<1>2. CASE Record(g)
  BY <1>2, DealtFrame DEF Record, clusterVars
<1>3. CASE NamespaceCreate(g)
  <2>1. failures' = 0 => failures = 0
    BY <1>3, NamespaceCall DEF NamespaceCreate
  <2> QED
    BY <1>3, <2>1, DealtFrame DEF NamespaceCreate
<1>4. CASE CallCreate(g)
  <2>1. objects' \subseteq objects \cup {g} /\ UNCHANGED dealt /\ at[g] = "call"
    BY <1>4 DEF CallCreate, Go
  <2>2. failures' = 0 => failures = 0
    BY <1>4, FailedCall DEF CallCreate
  <2>3. \A h \in Goroutines : g \notin dealt[h]
    BY <2>1 DEF ListInv
  <2> QED
    BY <2>1, <2>2, <2>3 DEF DealtInv, Mgr
<1> QED
  BY <1>1, <1>2, <1>3, <1>4
  DEF Creates, CreateSteps, PodCreate, DeploymentCreate, StatefulSetCreate, RcCreate,
      ServiceCreate, ResourceCreate

LEMMA ObjectsDealtWith ==
  ASSUME DealtInv, TypeOK, NEW g \in Goroutines, NEW r, NEW reachable,
         DeleteObject(g, r, reachable), reachable \/ Mgr(g) = "Resource"
  PROVE  DealtInv'
<1> SUFFICES ASSUME failures' = 0 PROVE DealtInv'
  BY DEF DealtInv
<1>1. failures = 0 /\ objects' = objects \ {o \in {r} : reachable}
  BY FailedCall DEF DeleteObject
<1>2. dealt' = [dealt EXCEPT ![g] = @ \cup {r}]
  BY DEF DeleteObject
<1>3. ASSUME NEW h \in Goroutines, Mgr(h) # "Resource" PROVE dealt'[h] \cap objects' = {}
  <2>1. dealt[h] \cap objects = {}
    BY <1>1, <1>3 DEF DealtInv
  <2>2. CASE h = g
    BY <1>1, <1>2, <1>3, <2>1, <2>2 DEF TypeOK
  <2>3. CASE h # g
    BY <1>1, <1>2, <2>1, <2>3 DEF TypeOK
  <2> QED
    BY <2>2, <2>3
<1> QED
  BY <1>3 DEF DealtInv, Mgr

LEMMA DeletesKeepDealt ==
  ASSUME DealtInv, TypeOK, NEW g \in Goroutines, Deletes(g)
  PROVE  DealtInv'
<1>1. ASSUME NEW found, ListSelected(g, found) PROVE DealtInv'
  <2>1. failures' = 0 => failures = 0
    BY <1>1, FailedCall DEF ListSelected
  <2> QED
    BY <1>1, <2>1, DealtFrame DEF ListSelected, clusterVars
<1>2. CASE Forget(g)
  BY <1>2, DealtFrame DEF Forget, clusterVars, TypeOK
<1>3. CASE NoScale(g)
  <2>1. failures' = 0 => failures = 0
    BY <1>3, FailedCall DEF NoScale
  <2> QED
    BY <1>3, <2>1, DealtFrame DEF NoScale, clusterVars
<1>4. ASSUME NEW n, DeleteNamespace(g, n) PROVE DealtInv'
  <2>1. failures' = 0 => failures = 0
    BY <1>4, FailedCall DEF DeleteNamespace
  <2> QED
    BY <1>4, <2>1, DealtFrame DEF DeleteNamespace
<1>5. ASSUME NEW n, DeleteIn(g, n) PROVE DealtInv'
  BY <1>1, <1>2, <1>5, ObjectsDealtWith DEF DeleteIn, DeleteEach
<1>6. CASE RcDelete(g)
  BY <1>1, <1>2, <1>3, <1>6, ObjectsDealtWith DEF RcDelete, DeleteEach
<1>7. CASE ResourceDelete(g)
  <2>1. Mgr(g) = "Resource"
    BY <1>7 DEF ResourceDelete
  <2>2. ASSUME NEW r, NEW reachable, DeleteObject(g, r, reachable) PROVE DealtInv'
    BY <2>1, <2>2, ObjectsDealtWith
  <2> QED
    BY <1>1, <1>2, <1>7, <2>2 DEF ResourceDelete
<1>8. CASE NamespaceDelete(g)
  BY <1>1, <1>4, <1>8 DEF NamespaceDelete
<1> QED
  BY <1>5, <1>6, <1>7, <1>8
  DEF Deletes, PodDelete, DeploymentDelete, StatefulSetDelete, ServiceDelete

LEMMA DealtInductive ==
  /\ Init => DealtInv
  /\ DealtInv /\ LoopInv /\ TypeOK /\ [Next]_vars => DealtInv'
<1>1. Init => DealtInv
  BY DEF Init, DealtInv
<1>2. ASSUME DealtInv, LoopInv, TypeOK, [Next]_vars PROVE DealtInv'
  <2>1. CASE Finalize \/ Exit \/ UNCHANGED vars \/ \E n \in terminating : Collapse(n)
    BY <1>2, <2>1, DealtFrame
    DEF Finalize, Exit, vars, Collapse, routineVars, clusterVars
  <2>2. CASE Inits
    BY <1>2, <2>2, DealtFrame, InitsTouchNone
  <2>3. CASE DeleteAlls
    BY <1>2, <2>3, DealtFrame, DeleteAllsTake
  <2>4. ASSUME NEW g \in Goroutines, Finish(g) PROVE DealtInv'
    BY <1>2, <2>4, DealtFrame DEF Finish, clusterVars
  <2> QED
    BY <1>2, <2>1, <2>2, <2>3, <2>4, CreatesKeepDealt, DeletesKeepDealt DEF Next, LoopInv
<1> QED
  BY <1>1, <1>2

-----------------------------------------------------------------------------

\* Two goroutines at work are of the same operation, so that one of which no other
\* deletes what it selects selects nothing that the other does.
LEMMA AloneApart ==
  ASSUME TurnInv, NEW g \in Goroutines, NEW h \in Goroutines \ {g}, Alone(g),
         at[g] \notin {"start", "done"}, at[h] \notin {"start", "done"}
  PROVE  Routine[h].selects \cap Routine[g].selects = {}
<1>1. Routine[g].op \in Nat /\ Routine[h].op \in Nat
  BY RoutineAssumption
<1>2. ~(Routine[h].op < Routine[g].op) /\ ~(Routine[g].op < Routine[h].op)
  BY DEF TurnInv
<1>3. Routine[h].op = Routine[g].op
  BY <1>1, <1>2
<1> QED
  BY <1>3 DEF Alone

\* Once all goroutines are done nothing can go wrong.
LEMMA OwnWhenDone ==
  ASSUME OwnInv, TypeOK, failures' = 0 => failures = 0, objects' \subseteq objects,
         \A g \in Goroutines : at[g] = "done"
  PROVE  OwnInv'
<1>1. failures = 0 => \A g \in objects : ~FindsOwn(g)
  BY DEF OwnInv, OwnObject, TypeOK
<1>2. \A g : FindsOwn(g)' <=> FindsOwn(g)
  BY DEF FindsOwn, Mgr, Ns, DelNs, Alone
<1> QED
  BY <1>1, <1>2 DEF OwnInv

\* What must hold of an object of another goroutine than the one that moves.
LEMMA OthersObject ==
  ASSUME TypeOK, NEW h \in Goroutines, OwnObject(h), at'[h] = at[h], listed'[h] = listed[h],
         \/ at[h] \notin {"created", "deleting"}
         \/ h \in table[Mgr(h)] => h \in table'[Mgr(h)] \/ Routine[h].global,
         \/ at[h] # "deleting" \/ Mgr(h) # "ReplicationController"
         \/ listed[h] \cap objects \cap Within(Ns(h)) \subseteq objects'
  PROVE  OwnObject(h)'
<1>1. Within(Ns(h))' = Within(Ns(h)) /\ Mgr(h)' = Mgr(h)
  BY DEF Within, Ns, Mgr
<1> QED
  BY <1>1 DEF OwnObject, Mgr

\* A goroutine takes a step; its own object is looked at where this is used.
LEMMA OwnStep ==
  ASSUME OwnInv, TypeOK, NEW g \in Goroutines, failures' = 0 => failures = 0,
         objects' \subseteq objects \cup {g},
         \A h \in Goroutines \ {g} : FindsOwn(h) /\ h \in objects' /\ OwnObject(h) =>
           /\ at'[h] = at[h] /\ listed'[h] = listed[h]
           /\ \/ at[h] \notin {"created", "deleting"}
              \/ h \in table[Mgr(h)] => h \in table'[Mgr(h)] \/ Routine[h].global
           /\ \/ at[h] # "deleting" \/ Mgr(h) # "ReplicationController"
              \/ listed[h] \cap objects \cap Within(Ns(h)) \subseteq objects',
         failures' = 0 /\ g \in objects' /\ FindsOwn(g) => OwnObject(g)'
  PROVE  OwnInv'
<1> SUFFICES ASSUME failures' = 0, NEW h \in objects', FindsOwn(h) PROVE OwnObject(h)'
  <2>1. \A h : FindsOwn(h)' <=> FindsOwn(h)
    BY DEF FindsOwn, Mgr, Ns, DelNs, Alone
  <2> QED
    BY <2>1 DEF OwnInv
<1>1. CASE h = g
  BY <1>1
<1>2. CASE h # g
  <2>1. h \in Goroutines \ {g} /\ h \in objects
    BY <1>2 DEF TypeOK
  <2>2. OwnObject(h)
    BY <2>1 DEF OwnInv
  <2> QED
    BY <2>1, <2>2, OthersObject
<1> QED
  BY <1>1, <1>2

LEMMA CreatesKeepOwn ==
  ASSUME OwnInv, ListInv, TypeOK, NEW g \in Goroutines, Creates(g)
  PROVE  OwnInv'
<1>1. ASSUME NEW keeps, EnsureNamespace(g, keeps) PROVE OwnInv'
  <2>1. failures' = 0 => failures = 0
    BY <1>1, NamespaceCall DEF EnsureNamespace
  <2>2. g \notin objects
    BY <1>1 DEF EnsureNamespace, Go, ListInv
  <2>3. /\ UNCHANGED <<listed, objects, table>>
        /\ \A h \in Goroutines \ {g} : at'[h] = at[h]
    BY <1>1 DEF EnsureNamespace, Go, TypeOK
  <2> QED
    BY <2>1, <2>2, <2>3, OwnStep
<1>2. CASE NamespaceCreate(g)
  <2>1. failures' = 0 => failures = 0
    BY <1>2, NamespaceCall DEF NamespaceCreate
  <2>2. g \notin objects
    BY <1>2 DEF NamespaceCreate, ListInv
  <2>3. /\ UNCHANGED <<listed, objects, table>>
        /\ \A h \in Goroutines \ {g} : at'[h] = at[h]
    BY <1>2 DEF NamespaceCreate, Go, TypeOK, managerVars
  <2> QED
    BY <2>1, <2>2, <2>3, OwnStep
<1>3. CASE CallCreate(g)
  <2>1. failures' = 0 => failures = 0 /\ (at'[g] = "made" \/ objects' = objects)
    BY <1>3, FailedCall DEF CallCreate, Go, TypeOK
  <2>2. g \notin objects
    BY <1>3 DEF CallCreate, Go, ListInv
  <2>3. objects \subseteq objects' /\ objects' \subseteq objects \cup {g}
    BY <1>3 DEF CallCreate
  <2>4. /\ UNCHANGED <<listed, table>>
        /\ \A h \in Goroutines \ {g} : at'[h] = at[h]
    BY <1>3 DEF CallCreate, Go, TypeOK, managerVars
  <2>5. failures' = 0 /\ g \in objects' => OwnObject(g)'
    BY <2>1, <2>2 DEF OwnObject
  <2> QED
    BY <2>1, <2>3, <2>4, <2>5, OwnStep
<1>4. CASE Record(g)
  <2>1. Mgr(g) \in ManagerNames
    BY RoutineTypes
  <2>2. \A h \in Goroutines : table[Mgr(h)] \subseteq table'[Mgr(h)]
    BY <1>4, <2>1, RoutineTypes DEF Record, TypeOK
  <2>3. g \in table'[Mgr(g)] /\ at' = [at EXCEPT ![g] = "created"]
    BY <1>4, <2>1 DEF Record, Go, TypeOK
  <2>4. UNCHANGED <<objects, listed, failures>>
    BY <1>4 DEF Record, clusterVars
  <2>5. OwnObject(g)'
    BY <2>3 DEF OwnObject, TypeOK, Mgr
  <2>6. \A h \in Goroutines \ {g} : at'[h] = at[h]
    BY <2>3 DEF TypeOK
  <2> QED
    BY <2>2, <2>4, <2>5, <2>6, OwnStep
<1> QED
  BY <1>1, <1>2, <1>3, <1>4
  DEF Creates, CreateSteps, PodCreate, DeploymentCreate, StatefulSetCreate, RcCreate,
      ServiceCreate, ResourceCreate

\* Listing keeps the invariant if the goroutine's own object is found, and nothing
\* but objects of its namespace.
LEMMA ListKeepsOwn ==
  ASSUME OwnInv, ListInv, TypeOK, NEW g \in Goroutines, NEW found, ListSelected(g, found),
         FindsOwn(g) /\ g \in objects /\ (g \in table[Mgr(g)] \/ Routine[g].global) =>
           /\ g \in found
           /\ Mgr(g) = "ReplicationController" => found \subseteq objects \cap Within(Ns(g))
  PROVE  OwnInv'
<1>1. UNCHANGED <<objects, table>> /\ MayList(g)
  BY DEF ListSelected, clusterVars, managerVars
<1>2. failures' = 0 => /\ at' = [at EXCEPT ![g] = IF found = {} THEN "done" ELSE "deleting"]
                       /\ listed' = [listed EXCEPT ![g] = found]
                       /\ failures = 0
  BY FailedCall DEF ListSelected
<1>3. ASSUME failures' = 0, g \in objects, FindsOwn(g) PROVE OwnObject(g)'
  <2>1. at[g] = "created"
    BY <1>1, <1>3 DEF MayList, ListInv
  <2>2. g \in table[Mgr(g)] \/ Routine[g].global
    BY <1>2, <1>3, <2>1 DEF OwnInv, OwnObject
  <2>3. at'[g] = "deleting" /\ listed'[g] = found
    BY <1>2, <1>3, <2>2 DEF TypeOK
  <2>4. Within(Ns(g))' = Within(Ns(g))
    BY DEF Within, Ns, Mgr
  <2> QED
    BY <1>1, <1>3, <2>2, <2>3, <2>4 DEF OwnObject, Mgr
<1>4. \A h \in Goroutines \ {g} : at'[h] = at[h] /\ listed'[h] = listed[h]
  BY DEF ListSelected, TypeOK
<1>5. failures' = 0 => failures = 0
  BY <1>2
<1> QED
  BY <1>1, <1>3, <1>4, <1>5, OwnStep

\* The call for one object keeps it if what is on record, or global, is reached.
LEMMA DeleteKeepsOwn ==
  ASSUME OwnInv, LoopInv, TypeOK, NEW g \in Goroutines, NEW r, NEW reachable,
         DeleteObject(g, r, reachable),
         r \in table[Mgr(g)] \/ Routine[r].global => reachable
  PROVE  OwnInv'
<1>1. /\ UNCHANGED <<at, table>> /\ at[g] = "deleting" /\ r \in listed[g]
      /\ listed' = [listed EXCEPT ![g] = @ \ {r}]
      /\ objects' \subseteq objects /\ objects \subseteq objects' \cup {r}
  BY DEF DeleteObject, managerVars
<1>2. failures' = 0 => failures = 0 /\ (reachable => r \notin objects')
  BY FailedCall DEF DeleteObject
<1>3. ASSUME failures' = 0, g \in objects', FindsOwn(g) PROVE OwnObject(g)'
  <2>1. OwnObject(g) /\ g \in objects
    BY <1>1, <1>2, <1>3 DEF OwnInv
  <2>2. g # r
    BY <1>1, <1>2, <1>3, <2>1 DEF OwnObject
  <2>3. Within(Ns(g))' = Within(Ns(g))
    BY DEF Within, Ns, Mgr
  <2> QED
    BY <1>1, <2>1, <2>2, <2>3 DEF OwnObject, Mgr, TypeOK
<1>4. ASSUME NEW h \in Goroutines \ {g}, FindsOwn(h), at[h] = "deleting",
             Mgr(h) = "ReplicationController"
      PROVE  listed[h] \cap objects \subseteq objects'
  <2>1. Alone(h)
    BY <1>4, RoutineTypes DEF FindsOwn
  <2>2. Routine[g].selects \cap Routine[h].selects = {}
    BY <1>1, <1>4, <2>1, AloneApart DEF LoopInv
  <2>3. r \notin listed[h]
    BY <1>1, <2>2 DEF LoopInv, ListInv
  <2> QED
    BY <1>1, <2>3
<1>5. \A h \in Goroutines \ {g} : listed'[h] = listed[h]
  BY <1>1 DEF TypeOK
<1>6. failures' = 0 => failures = 0
  BY <1>2
<1> QED
  BY <1>1, <1>3, <1>4, <1>5, <1>6, OwnStep

\* What is forgotten is gone, or a resource that somebody else was to delete.
LEMMA ForgetKeepsOwn ==
  ASSUME OwnInv, DealtInv, LoopInv, TypeOK, NEW g \in Goroutines, Forget(g)
  PROVE  OwnInv'
<1>1. /\ UNCHANGED <<listed, objects, failures>> /\ at[g] = "deleting"
      /\ at' = [at EXCEPT ![g] = IF listed[g] = {} THEN "done" ELSE @]
      /\ table' = [table EXCEPT ![Mgr(g)] = @ \ dealt[g]]
  BY DEF Forget, clusterVars
<1>2. \A h \in Goroutines \ {g} : at'[h] = at[h]
  BY <1>1 DEF TypeOK
<1>3. \A m \in ManagerNames : table[m] \subseteq table'[m] \cup dealt[g]
  BY <1>1, RoutineTypes DEF TypeOK
<1>4. ASSUME NEW h \in Goroutines \ {g}, failures = 0, FindsOwn(h), h \in objects, h \in dealt[g],
             at[h] \in {"created", "deleting"}
      PROVE  Routine[h].global
  <2>1. Mgr(g) = "Resource" /\ h \in Routine[g].selects
    BY <1>4 DEF DealtInv, LoopInv, ListInv
  <2>2. Mgr(h) = "Resource"
    BY <2>1, RoutineAssumption DEF Mgr
  <2>3. Alone(h) \/ Routine[h].global
    BY <1>4, <2>2 DEF FindsOwn
  <2>4. h \in Routine[h].selects
    BY <1>4 DEF FindsOwn
  <2> QED
    BY <1>1, <1>4, <2>1, <2>3, <2>4, AloneApart DEF LoopInv
<1>5. ASSUME failures' = 0, g \in objects', FindsOwn(g) PROVE OwnObject(g)'
  <2>1. OwnObject(g)
    BY <1>1, <1>5 DEF OwnInv
  <2>2. g \in listed[g] /\ g \notin dealt[g]
    BY <1>1, <2>1 DEF OwnObject, LoopInv, ListInv
  <2>3. at'[g] = "deleting"
    BY <1>1, <2>2 DEF TypeOK
  <2>4. g \in table[Mgr(g)] => g \in table'[Mgr(g)]
    BY <1>3, <2>2, RoutineTypes
  <2>5. Within(Ns(g))' = Within(Ns(g))
    BY DEF Within, Ns, Mgr
  <2> QED
    BY <1>1, <2>1, <2>3, <2>4, <2>5 DEF OwnObject, Mgr
<1>6. CASE failures # 0
  BY <1>1, <1>6 DEF OwnInv
<1>7. CASE failures = 0
  <2>1. ASSUME NEW h \in Goroutines \ {g}, FindsOwn(h), h \in objects,
               at[h] \in {"created", "deleting"}, h \in table[Mgr(h)]
        PROVE  h \in table'[Mgr(h)] \/ Routine[h].global
    <3>1. Mgr(h) \in ManagerNames
      BY RoutineTypes
    <3> QED
      BY <1>3, <1>4, <1>7, <2>1, <3>1
  <2> QED
    BY <1>1, <1>2, <1>5, <2>1, OwnStep
<1> QED
  BY <1>6, <1>7

\* The Delete of replication controllers is not given up while all are there.
LEMMA NoScaleKeepsOwn ==
  ASSUME OwnInv, TypeOK, NEW g \in Goroutines, NoScale(g), Mgr(g) = "ReplicationController"
  PROVE  OwnInv'
<1>1. /\ UNCHANGED <<objects, table>> /\ at[g] = "deleting"
      /\ at' = [at EXCEPT ![g] = "done"] /\ listed' = [listed EXCEPT ![g] = {}]
  BY DEF NoScale, Go, clusterVars, managerVars
<1>2. failures' = 0 => failures = 0 /\ listed[g] \ objects # {}
  BY FailedCall DEF NoScale
<1>3. failures' = 0 /\ g \in objects' /\ FindsOwn(g) => OwnObject(g)'
  BY <1>1, <1>2 DEF OwnInv, OwnObject
<1>4. \A h \in Goroutines \ {g} : at'[h] = at[h] /\ listed'[h] = listed[h]
  BY <1>1 DEF TypeOK
<1>5. failures' = 0 => failures = 0
  BY <1>2
<1> QED
  BY <1>1, <1>3, <1>4, <1>5, OwnStep

LEMMA DeletesKeepOwn ==
  ASSUME OwnInv, DealtInv, LoopInv, TypeOK, NEW g \in Goroutines, Deletes(g)
  PROVE  OwnInv'
<1>1. ListInv
  BY DEF LoopInv
<1>2. ASSUME NEW n, DeleteIn(g, n), ~Routine[g].global, Mgr(g) # "ReplicationController",
             FindsOwn(g) /\ g \in table[Mgr(g)] => n = Ns(g)
      PROVE  OwnInv'
  <2>1. CASE ListSelected(g, SelectedIn(g, n))
    <3>1. FindsOwn(g) /\ g \in objects /\ g \in table[Mgr(g)] => g \in SelectedIn(g, n)
      BY <1>1, <1>2 DEF SelectedIn, Within, FindsOwn, ListInv
    <3> QED
      BY <1>1, <1>2, <2>1, <3>1, ListKeepsOwn
  <2> QED
    BY <1>2, <2>1, DeleteKeepsOwn, ForgetKeepsOwn DEF DeleteIn, DeleteEach
<1>3. CASE PodDelete(g) \/ DeploymentDelete(g) \/ StatefulSetDelete(g)
  <2>1. FindsOwn(g) => DelNs(g) = Ns(g)
    BY <1>3 DEF FindsOwn, PodDelete, DeploymentDelete, StatefulSetDelete
  <2> QED
    BY <1>2, <1>3, <2>1, RoutineTypes DEF PodDelete, DeploymentDelete, StatefulSetDelete
<1>4. CASE ServiceDelete(g)
  BY <1>2, <1>4, RoutineTypes DEF ServiceDelete, SvcNs
<1>5. CASE RcDelete(g)
  <2>1. Mgr(g) = "ReplicationController" /\ ~Routine[g].global
    BY <1>5, RoutineTypes DEF RcDelete
  <2>2. CASE ListSelected(g, SelectedIn(g, DelNs(g)))
    <3>1. FindsOwn(g) /\ g \in objects =>
            /\ g \in SelectedIn(g, DelNs(g))
            /\ SelectedIn(g, DelNs(g)) \subseteq objects \cap Within(Ns(g))
      BY <2>1 DEF SelectedIn, Within, FindsOwn
    <3> QED
      BY <1>1, <2>2, <3>1, ListKeepsOwn
  <2> QED
    BY <1>5, <2>1, <2>2, DeleteKeepsOwn, ForgetKeepsOwn, NoScaleKeepsOwn DEF RcDelete, DeleteEach
<1>6. CASE ResourceDelete(g)
  <2>1. Mgr(g) = "Resource"
    BY <1>6 DEF ResourceDelete
  <2>2. CASE ListSelected(g, Routine[g].selects \cap objects)
    <3> DEFINE found == Routine[g].selects \cap objects
    <3>1. FindsOwn(g) /\ g \in objects => g \in found
      BY DEF FindsOwn
    <3> HIDE DEF found
    <3> QED
      BY <1>1, <2>1, <2>2, <3>1, ListKeepsOwn DEF found
  <2>3. CASE \E r \in listed[g] :
               DeleteObject(g, r, Routine[r].global \/ r \in table["Resource"])
    <3> PICK r \in listed[g] : DeleteObject(g, r, Routine[r].global \/ r \in table["Resource"])
      BY <2>3
    <3> DEFINE reach == Routine[r].global \/ r \in table["Resource"]
    <3>1. DeleteObject(g, r, reach) /\ (r \in table[Mgr(g)] \/ Routine[r].global => reach)
      BY <2>1
    <3> HIDE DEF reach
    <3> QED
      BY <3>1, DeleteKeepsOwn
  <2> QED
    BY <1>6, <2>2, <2>3, ForgetKeepsOwn DEF ResourceDelete
<1>7. CASE NamespaceDelete(g)
  <2>1. Mgr(g) = "Namespace" /\ g \notin objects
    BY <1>1, <1>7 DEF NamespaceDelete, ListInv
  <2>2. ASSUME NEW found, ListSelected(g, found) PROVE OwnInv'
    BY <1>1, <2>1, <2>2, ListKeepsOwn
  <2>3. ASSUME NEW n, DeleteNamespace(g, n) PROVE OwnInv'
    <3>1. UNCHANGED <<objects, table>>
      BY <2>3 DEF DeleteNamespace, managerVars
    <3>2. \A h \in Goroutines \ {g} : at'[h] = at[h] /\ listed'[h] = listed[h]
      BY <2>3 DEF DeleteNamespace, TypeOK
    <3>3. failures' = 0 => failures = 0
      BY <2>3, FailedCall DEF DeleteNamespace
    <3> QED
      BY <2>1, <3>1, <3>2, <3>3, OwnStep
  <2> QED
    BY <1>7, <2>2, <2>3 DEF NamespaceDelete
<1> QED
  BY <1>3, <1>4, <1>5, <1>6, <1>7 DEF Deletes

LEMMA OwnInductive ==
  /\ Init => OwnInv
  /\ OwnInv /\ DealtInv /\ LoopInv /\ TypeOK /\ [Next]_vars => OwnInv'
<1>1. Init => OwnInv
  BY DEF Init, OwnInv
<1>2. ASSUME OwnInv, DealtInv, LoopInv, TypeOK, [Next]_vars PROVE OwnInv'
  <2>1. ASSUME UNCHANGED <<at, listed, objects, table>>, failures' = 0 => failures = 0
        PROVE  OwnInv'
    <3>1. \A g : OwnObject(g)' <=> OwnObject(g)
      BY <2>1 DEF OwnObject, Mgr, Ns, Within
    <3>2. \A g : FindsOwn(g)' <=> FindsOwn(g)
      BY DEF FindsOwn, Mgr, Ns, DelNs, Alone
    <3> QED
      BY <1>2, <2>1, <3>1, <3>2 DEF OwnInv
  <2>2. CASE Finalize \/ Exit \/ UNCHANGED vars
    BY <2>1, <2>2 DEF Finalize, Exit, vars, routineVars, clusterVars, managerVars
  <2>3. CASE Inits
    BY <1>2, <2>1, <2>3, InitsTouchNone
  <2>4. CASE DeleteAlls
    BY <1>2, <2>4, DeleteAllsTake, OwnWhenDone
  <2>5. ASSUME NEW g \in Goroutines, Finish(g) PROVE OwnInv'
    <3>1. /\ UNCHANGED <<listed, objects, table, failures>> /\ ~FindsOwn(g)
          /\ \A h \in Goroutines \ {g} : at'[h] = at[h]
      BY <1>2, <2>5 DEF Finish, FindsOwn, clusterVars, managerVars, TypeOK
    <3> QED
      BY <1>2, <3>1, OwnStep
  <2>6. ASSUME NEW n \in terminating, Collapse(n) PROVE OwnInv'
    <3>1. /\ UNCHANGED <<at, listed, table, failures>> /\ objects' = objects \ Within(n)
      BY <2>6 DEF Collapse, routineVars, managerVars
    <3> SUFFICES ASSUME failures' = 0, NEW h \in objects', FindsOwn(h) PROVE OwnObject(h)'
      <4>1. \A h : FindsOwn(h)' <=> FindsOwn(h)
        BY DEF FindsOwn, Mgr, Ns, DelNs, Alone
      <4> QED
        BY <4>1 DEF OwnInv
    <3>2. h \in Goroutines /\ OwnObject(h)
      BY <1>2, <3>1 DEF OwnInv, TypeOK
    <3>3. Mgr(h) = "ReplicationController" => Ns(h) # n
      BY <3>1, <3>2, RoutineTypes DEF Within
    <3>4. Ns(h) # n => Within(Ns(h)) \cap Within(n) = {}
      BY DEF Within
    <3> QED
      BY <1>2, <3>1, <3>2, <3>3, <3>4, OthersObject
  <2> QED
    BY <1>2, <2>2, <2>3, <2>4, <2>5, <2>6, CreatesKeepOwn, DeletesKeepOwn DEF Next, LoopInv
<1> QED
  BY <1>1, <1>2

\* As long as no call fails, a goroutine that deletes its own object succeeds, but
\* for the exceptions that FindsOwn spells out.
THEOREM OwnDeletesWork == Spec => []OwnDeleteWorks
<1>1. OwnInv /\ TypeOK => OwnDeleteWorks
  BY DEF OwnInv, OwnObject, OwnDeleteWorks, TypeOK
<1> QED
  BY <1>1, TypeInductive, LoopInductive, DealtInductive, OwnInductive, PTL DEF Spec

-----------------------------------------------------------------------------
(* The default namespace *)

\* It stays, and is not one of those that kbench labelled.
DefaultInv == Default \in active \ labelled

LEMMA TerminateKeepsDefault ==
  ASSUME DefaultInv, NEW S, Terminate(S), labelled' = labelled
  PROVE  DefaultInv'
BY DEF DefaultInv, Terminate

LEMMA DefaultInductive ==
  /\ Init => DefaultInv
  /\ DefaultInv /\ TypeOK /\ [Next]_vars => DefaultInv'
<1>1. Init => DefaultInv
  BY ClusterAssumption DEF Init, DefaultInv
<1>2. ASSUME DefaultInv, UNCHANGED active, labelled' \subseteq labelled PROVE DefaultInv'
  BY <1>2 DEF DefaultInv
<1>3. ASSUME DefaultInv, TypeOK, [Next]_vars PROVE DefaultInv'
  <2>1. CASE Finalize \/ Exit \/ UNCHANGED vars \/ \E n \in terminating : Collapse(n)
    BY <1>2, <1>3, <2>1 DEF Finalize, Exit, Collapse, vars, clusterVars
  <2>2. CASE Inits
    BY <1>3, <2>2
    DEF DefaultInv, CreateNamespace, Inits, InitManager, PodInit, DeploymentInit,
        StatefulSetInit, RcInit, ServiceInit, ResourceInit, NamespaceInit, clusterVars
  <2>3. ASSUME NEW g \in Goroutines, Creates(g) PROVE DefaultInv'
    <3>1. ASSUME NEW keeps, CreateSteps(g, keeps) PROVE DefaultInv'
      <4>1. CASE EnsureNamespace(g, keeps)
        BY <1>3, <4>1 DEF DefaultInv, EnsureNamespace, CreateNamespace
      <4>2. CASE CallCreate(g) \/ Record(g)
        BY <1>2, <1>3, <4>2 DEF CallCreate, Record, clusterVars
      <4> QED
        BY <3>1, <4>1, <4>2 DEF CreateSteps
    <3>2. CASE NamespaceCreate(g)
      BY <1>3, <3>2 DEF DefaultInv, NamespaceCreate, CreateNamespace, Present
    <3> QED
      BY <2>3, <3>1, <3>2
      DEF Creates, PodCreate, DeploymentCreate, StatefulSetCreate, RcCreate, ServiceCreate,
          ResourceCreate
  <2>4. ASSUME NEW g \in Goroutines, Deletes(g) \/ Finish(g) PROVE DefaultInv'
    <3>1. ASSUME NEW found, ListSelected(g, found) PROVE DefaultInv'
      BY <1>2, <1>3, <3>1 DEF ListSelected, clusterVars
    <3>2. ASSUME NEW r, NEW reachable, DeleteObject(g, r, reachable) PROVE DefaultInv'
      BY <1>2, <1>3, <3>2 DEF DeleteObject
    <3>3. CASE Forget(g) \/ NoScale(g) \/ Finish(g)
      BY <1>2, <1>3, <3>3 DEF Forget, NoScale, Finish, clusterVars
    <3>4. ASSUME NEW n, DeleteNamespace(g, n) PROVE DefaultInv'
      BY <1>2, <1>3, <3>4, TerminateKeepsDefault DEF DeleteNamespace
    <3>5. ASSUME NEW n, DeleteIn(g, n) PROVE DefaultInv'
      BY <3>1, <3>2, <3>3, <3>5 DEF DeleteIn, DeleteEach
    <3>6. CASE RcDelete(g) \/ ResourceDelete(g) \/ NamespaceDelete(g)
      BY <3>1, <3>2, <3>3, <3>4, <3>6 DEF RcDelete, DeleteEach, ResourceDelete, NamespaceDelete
    <3> QED
      BY <2>4, <3>3, <3>5, <3>6
      DEF Deletes, PodDelete, DeploymentDelete, StatefulSetDelete, ServiceDelete
  <2>5. CASE DeleteAlls
    <3>1. ASSUME NEW m, NEW hit, NEW left, CleanUp(m, hit, left) PROVE DefaultInv'
      BY <1>3, <3>1, TerminateKeepsDefault DEF CleanUp
    <3>2. ASSUME NEW m, CleanUpNothing(m) PROVE DefaultInv'
      BY <1>2, <1>3, <3>2 DEF CleanUpNothing, clusterVars
    <3>3. CASE NamespaceDeleteAll
      BY <1>3, <3>2, <3>3, TerminateKeepsDefault DEF NamespaceDeleteAll
    <3> QED
      BY <2>5, <3>1, <3>2, <3>3
      DEF DeleteAlls, PodDeleteAll, DeploymentDeleteAll, StatefulSetDeleteAll, RcDeleteAll,
          ServiceDeleteAll, ResourceDeleteAll
  <2> QED
    BY <1>3, <2>1, <2>2, <2>3, <2>4, <2>5 DEF Next
<1> QED
  BY <1>1, <1>3

-----------------------------------------------------------------------------
(* What the cleanup leaves *)

\* The cleanup of manager m is still to come, or has been.
Uncleaned(m) == phase = "run" \/ m \in todo

CleanedUp(m) ==
  /\ m # "Namespace" => HomeOf[m] \notin active
  /\ m = "Namespace" => active \cap labelled = {}
  /\ \A g \in objects : Mgr(g) = m => Remainder(g)

\* Until a manager cleans up it knows all it will need then: it keeps the namespace
\* of each object, also of one about to be created, and has the object on record
\* unless the answer to its CREATE is still to be looked at. (The resource manager
\* may have forgotten it, and does not need it.)
Known(g) ==
  /\ g \in objects \/ at[g] = "call" =>
       /\ Mgr(g) \in inited /\ Mgr(g) # "Namespace"
       /\ Uncleaned(Mgr(g)) => Ns(g) \in nsSet[Mgr(g)] \cup {Default}
  /\ g \in objects =>
       /\ Routine[g].global \/ Ns(g) \in Present
       /\ Mgr(g) # "Resource" /\ Uncleaned(Mgr(g)) => at[g] = "made" \/ g \in table[Mgr(g)]

LeftInv ==
  failures = 0 =>
    /\ \A g \in Goroutines : Known(g)
    /\ \A m \in inited : Uncleaned(m) \/ CleanedUp(m)
    /\ phase = "over" => todo = {}

\* What a step of the run has to respect.
LEMMA RunKeepsLeft ==
  ASSUME LeftInv, TypeOK, phase = "run", phase' = "run", failures' = 0 => failures = 0,
         inited \subseteq inited', \A m \in ManagerNames : nsSet[m] \subseteq nsSet'[m],
         failures' = 0 => \A g \in Goroutines :
           /\ at'[g] = "call" => \/ at[g] = "call"
                                 \/ /\ Mgr(g) \in inited' /\ Mgr(g) # "Namespace"
                                    /\ Ns(g) \in nsSet'[Mgr(g)] \cup {Default}
           /\ g \in objects' =>
                /\ g \in objects \/ at[g] = "call"
                /\ Routine[g].global \/ Ns(g) \in Present'
                /\ Mgr(g) # "Resource" => at'[g] = "made" \/ g \in table'[Mgr(g)]
  PROVE  LeftInv'
<1> SUFFICES ASSUME failures' = 0
             PROVE  /\ \A g \in Goroutines : Known(g)'
                    /\ \A m \in inited' : Uncleaned(m)'
  BY DEF LeftInv
<1>1. \A m \in inited' : Uncleaned(m)'
  BY DEF Uncleaned
<1>2. ASSUME NEW g \in Goroutines PROVE Known(g)'
  <2>1. Known(g) /\ Mgr(g) \in ManagerNames
    BY RoutineTypes DEF LeftInv
  <2>2. Uncleaned(Mgr(g))
    BY DEF Uncleaned
  <2> QED
    BY <2>1, <2>2 DEF Known, Mgr, Ns
<1> QED
  BY <1>1, <1>2

\* A step of the run that only takes away keeps it if it forgets no object that
\* stays.
LEMMA RunFrame ==
  ASSUME LeftInv, TypeOK, phase = "run", phase' = "run", failures' = 0 => failures = 0,
         inited \subseteq inited', \A m \in ManagerNames : nsSet[m] \subseteq nsSet'[m],
         failures' = 0 => \A g \in Goroutines :
           /\ at'[g] = "call" => at[g] = "call"
           /\ at[g] = "made" => at'[g] = "made"
           /\ g \in objects' =>
                /\ g \in objects
                /\ Routine[g].global \/ Ns(g) \in Present => Routine[g].global \/ Ns(g) \in Present'
                /\ Mgr(g) # "Resource" /\ g \in table[Mgr(g)] => g \in table'[Mgr(g)]
  PROVE  LeftInv'
<1>1. failures' = 0 => \A g \in Goroutines : Known(g) /\ Uncleaned(Mgr(g))
  BY DEF LeftInv, Uncleaned
<1> QED
  BY <1>1, RunKeepsLeft DEF Known

LEMMA InitsKeepLeft ==
  ASSUME LeftInv, TypeOK, Inits
  PROVE  LeftInv'
<1>1. ASSUME NEW m \in ManagerNames, m # "Namespace", NEW records, InitManager(m, records)
      PROVE  LeftInv'
  <2> PICK answer \in {"created", "already exists", "error"} :
         /\ CreateNamespace(HomeOf[m], answer)
         /\ nsSet' = IF records /\ answer = "created"
                     THEN [nsSet EXCEPT ![m] = @ \cup {HomeOf[m]}] ELSE nsSet
    BY <1>1 DEF InitManager
  <2>1. failures' = 0 => failures = 0
    BY NamespaceCall
  <2>2. \A k \in ManagerNames : nsSet[k] \subseteq nsSet'[k]
    BY DEF TypeOK
  <2>3. Present \subseteq Present'
    BY <1>1 DEF InitManager, CreateNamespace, Present
  <2> QED
    BY <1>1, <2>1, <2>2, <2>3, RunFrame DEF InitManager, FirstUse, Turn, routineVars
<1>2. CASE NamespaceInit
  BY <1>2, RunFrame DEF NamespaceInit, FirstUse, Turn, routineVars, clusterVars, Present
<1> QED
  BY <1>1, <1>2, SevenManagers
  DEF Inits, PodInit, DeploymentInit, StatefulSetInit, RcInit, ServiceInit, ResourceInit

LEMMA CreatesKeepLeft ==
  ASSUME LeftInv, TypeOK, NEW g \in Goroutines, Creates(g)
  PROVE  LeftInv'
<1>1. ASSUME NEW keeps, {"created", "already exists"} \subseteq keeps,
             Mgr(g) # "Namespace", EnsureNamespace(g, keeps)
      PROVE  LeftInv'
  <2>1. failures' = 0 => failures = 0
    BY <1>1, NamespaceCall DEF EnsureNamespace
  <2>2. /\ phase = "run" /\ phase' = "run" /\ at' = [at EXCEPT ![g] = "call"]
        /\ at[g] = "start" /\ Mgr(g) \in inited
        /\ UNCHANGED <<terminating, objects, inited, table>>
    BY <1>1 DEF EnsureNamespace, Go, Turn
  <2>3. \A m \in ManagerNames : nsSet[m] \subseteq nsSet'[m]
    BY <1>1 DEF EnsureNamespace, TypeOK
  <2>4. failures' = 0 => Ns(g) \in nsSet'[Mgr(g)] \cup {Default}
    <3>1. CASE Ns(g) \in nsSet[Mgr(g)] \/ Ns(g) = Default
      BY <2>3, <3>1, RoutineTypes
    <3>2. CASE ~(Ns(g) \in nsSet[Mgr(g)] \/ Ns(g) = Default)
      <4> PICK answer \in {"created", "already exists", "error"} :
               /\ CreateNamespace(Ns(g), answer)
               /\ nsSet' = IF answer \in keeps
                           THEN [nsSet EXCEPT ![Mgr(g)] = @ \cup {Ns(g)}] ELSE nsSet
        BY <1>1, <3>2 DEF EnsureNamespace
      <4>1. answer = "error" => failures' # 0
        BY FailedCall DEF CreateNamespace
      <4> QED
        BY <1>1, <4>1, RoutineTypes DEF TypeOK
    <3> QED
      BY <3>1, <3>2
  <2>5. Present \subseteq Present'
    BY <1>1 DEF EnsureNamespace, CreateNamespace, Present
  <2>6. failures' = 0 => \A h \in Goroutines : Known(h) /\ Uncleaned(Mgr(h))
    BY <2>1, <2>2 DEF LeftInv, Uncleaned
  <2>7. \A h \in Goroutines : at'[h] = IF h = g THEN "call" ELSE at[h]
    BY <2>2 DEF TypeOK
  <2> QED
    BY <1>1, <2>1, <2>2, <2>3, <2>4, <2>5, <2>6, <2>7, RunKeepsLeft DEF Known
<1>2. ASSUME CallCreate(g) PROVE LeftInv'
  <2>1. failures' = 0 => /\ failures = 0
                         /\ \/ /\ Routine[g].global \/ Ns(g) \in active
                               /\ at' = [at EXCEPT ![g] = "made"] /\ objects' = objects \cup {g}
                            \/ at' = [at EXCEPT ![g] = "created"] /\ objects' = objects
    BY <1>2, FailedCall DEF CallCreate, Go
  <2>2. /\ at[g] = "call" /\ UNCHANGED <<phase, active, terminating, inited, nsSet, table>>
    BY <1>2 DEF CallCreate, Go, managerVars
  <2>3. phase = "run"
    BY <2>2 DEF TypeOK
  <2>4. failures' = 0 => \A h \in Goroutines : Known(h) /\ Uncleaned(Mgr(h))
    BY <2>1, <2>3 DEF LeftInv, Uncleaned
  <2>5. failures' = 0 => g \notin objects \/ Mgr(g) = "Resource" \/ g \in table[Mgr(g)]
    BY <2>2, <2>4 DEF Known
  <2>6. failures' = 0 => \A h \in Goroutines \ {g} : at'[h] = at[h]
    BY <2>1 DEF TypeOK
  <2>7. failures' = 0 => at'[g] \in {"made", "created"}
    BY <2>1 DEF TypeOK
  <2>8. failures' = 0 => \A h \in Goroutines : h \in objects' =>
           /\ h \in objects \/ at[h] = "call"
           /\ Routine[h].global \/ Ns(h) \in Present'
           /\ Mgr(h) # "Resource" => at'[h] = "made" \/ h \in table'[Mgr(h)]
    BY <2>1, <2>2, <2>4, <2>5, <2>6 DEF Known, Present, TypeOK
  <2> QED
    BY <2>1, <2>2, <2>3, <2>6, <2>7, <2>8, RunKeepsLeft
<1>3. ASSUME Record(g) PROVE LeftInv'
  <2>1. Mgr(g) \in ManagerNames
    BY RoutineTypes
  <2>2. /\ UNCHANGED <<phase, active, terminating, objects, inited, nsSet, failures>>
        /\ at[g] = "made" /\ at' = [at EXCEPT ![g] = "created"]
        /\ table' = [table EXCEPT ![Mgr(g)] = @ \cup {g}]
    BY <1>3 DEF Record, Go, clusterVars
  <2>3. phase = "run"
    BY <2>2 DEF TypeOK
  <2>4. failures' = 0 => \A h \in Goroutines : Known(h) /\ Uncleaned(Mgr(h))
    BY <2>2, <2>3 DEF LeftInv, Uncleaned
  <2>5. \A h \in Goroutines :
          /\ h # g => at'[h] = at[h]
          /\ at'[g] = "created"
          /\ table[Mgr(h)] \subseteq table'[Mgr(h)] /\ g \in table'[Mgr(g)]
    BY <2>1, <2>2, RoutineTypes DEF TypeOK
  <2> QED
    BY <2>2, <2>3, <2>4, <2>5, RunKeepsLeft DEF Known, Present
<1>4. CASE NamespaceCreate(g)
  <2>1. failures' = 0 => failures = 0
    BY <1>4, NamespaceCall DEF NamespaceCreate
  <2>2. /\ phase = "run" /\ UNCHANGED <<phase, terminating, objects, inited, nsSet, table>>
        /\ at[g] = "start" /\ at' = [at EXCEPT ![g] = "created"]
    BY <1>4 DEF NamespaceCreate, Go, Turn, managerVars
  <2>3. Present \subseteq Present'
    BY <1>4 DEF NamespaceCreate, CreateNamespace, Present
  <2> QED
    BY <2>1, <2>2, <2>3, RunFrame DEF TypeOK
<1>5. {"created", "already exists"} \subseteq PodKeeps
      /\ {"created", "already exists"} \subseteq KeepAlways
  BY DEF PodKeeps, KeepAlways
<1> QED
  BY <1>1, <1>2, <1>3, <1>4, <1>5
  DEF Creates, CreateSteps, PodCreate, DeploymentCreate, StatefulSetCreate, RcCreate,
      ServiceCreate, ResourceCreate

\* A Delete forgets what it takes away and nothing else (but for resources), takes
\* nothing from the other goroutines' Creates and keeps the namespaces present,
\* while no call fails.
LEMMA DeletesForget ==
  ASSUME DealtInv, TypeOK, NEW g \in Goroutines, Deletes(g), failures' = 0
  PROVE  /\ failures = 0 /\ phase = "run" /\ UNCHANGED <<phase, inited, nsSet>>
         /\ Present' = Present /\ objects' \subseteq objects
         /\ \A h \in Goroutines : at[h] \in {"call", "made"} <=> at'[h] \in {"call", "made"}
         /\ \A h \in Goroutines : at[h] = "made" => at'[h] = "made"
         /\ \A h \in objects' : Mgr(h) # "Resource" /\ h \in table[Mgr(h)] => h \in table'[Mgr(h)]
<1> DEFINE Goal ==
         /\ failures = 0 /\ phase = "run" /\ UNCHANGED <<phase, inited, nsSet>>
         /\ Present' = Present /\ objects' \subseteq objects
         /\ \A h \in Goroutines : at[h] \in {"call", "made"} <=> at'[h] \in {"call", "made"}
         /\ \A h \in Goroutines : at[h] = "made" => at'[h] = "made"
         /\ \A h \in objects' : Mgr(h) # "Resource" /\ h \in table[Mgr(h)] => h \in table'[Mgr(h)]
<1> SUFFICES Goal
  OBVIOUS
<1>1. ASSUME NEW found, ListSelected(g, found) PROVE Goal
  <2>1. /\ UNCHANGED <<phase, active, terminating, objects, inited, nsSet, table>>
        /\ MayList(g)
    BY <1>1 DEF ListSelected, clusterVars, managerVars
  <2>2. failures = 0
    BY <1>1, FailedCall DEF ListSelected
  <2>3. phase = "run" /\ at[g] \notin {"call", "made"}
    BY <2>1 DEF MayList, TypeOK
  <2>4. \A h \in Goroutines : at'[h] = at[h] \/ (h = g /\ at'[h] \in {"deleting", "done"})
    BY <1>1 DEF ListSelected, TypeOK
  <2> QED
    BY <2>1, <2>2, <2>3, <2>4 DEF Present
<1>2. ASSUME NEW r, NEW reachable, DeleteObject(g, r, reachable) PROVE Goal
  <2>1. failures = 0 /\ phase = "run"
    BY <1>2, FailedCall DEF DeleteObject, TypeOK
  <2> QED
    BY <1>2, <2>1 DEF DeleteObject, managerVars, Present
<1>3. CASE Forget(g)
  <2>1. /\ at[g] = "deleting" /\ UNCHANGED <<phase, active, terminating, objects, inited, nsSet>>
        /\ table' = [table EXCEPT ![Mgr(g)] = @ \ dealt[g]] /\ failures = 0 /\ phase = "run"
    BY <1>3 DEF Forget, clusterVars, TypeOK
  <2>2. \A h \in Goroutines : at'[h] = at[h] \/ (h = g /\ at'[h] \in {"deleting", "done"})
    BY <1>3 DEF Forget, TypeOK
  <2>3. ASSUME NEW h \in objects', Mgr(h) # "Resource", h \in table[Mgr(h)]
        PROVE  h \in table'[Mgr(h)]
    <3>1. Mgr(h) \in ManagerNames /\ Mgr(g) \in ManagerNames
      BY <2>1, <2>3, RoutineTypes DEF TypeOK
    <3>2. Mgr(g) = Mgr(h) => h \notin dealt[g]
      BY <2>1, <2>3 DEF DealtInv
    <3> QED
      BY <2>1, <2>3, <3>1, <3>2 DEF TypeOK
  <2> QED
    BY <2>1, <2>2, <2>3 DEF Present
<1>4. CASE NoScale(g)
  <2>1. /\ at[g] = "deleting" /\ at' = [at EXCEPT ![g] = "done"]
        /\ UNCHANGED <<phase, active, terminating, objects, inited, nsSet, table>>
        /\ failures = 0 /\ phase = "run"
    BY <1>4, FailedCall DEF NoScale, Go, clusterVars, managerVars, TypeOK
  <2> QED
    BY <2>1 DEF Present, TypeOK
<1>5. ASSUME NEW n, DeleteNamespace(g, n) PROVE Goal
  <2>1. /\ UNCHANGED <<phase, objects, inited, nsSet, table>>
        /\ failures = 0 /\ phase = "run" /\ at[g] = "deleting"
    BY <1>5, FailedCall DEF DeleteNamespace, managerVars, TypeOK
  <2>2. \A h \in Goroutines : at'[h] = at[h] \/ (h = g /\ at'[h] \in {"deleting", "done"})
    BY <1>5 DEF DeleteNamespace, TypeOK
  <2>3. Present' = Present
    BY <1>5 DEF DeleteNamespace, Terminate, Present
  <2> QED
    BY <2>1, <2>2, <2>3
<1> HIDE DEF Goal
<1> QED
  BY <1>1, <1>2, <1>3, <1>4, <1>5
  DEF Deletes, PodDelete, DeploymentDelete, StatefulSetDelete, ServiceDelete, RcDelete,
      ResourceDelete, NamespaceDelete, DeleteIn, DeleteEach

LEMMA DeletesKeepLeft ==
  ASSUME LeftInv, DealtInv, TypeOK, NEW g \in Goroutines, Deletes(g)
  PROVE  LeftInv'
<1> SUFFICES ASSUME failures' = 0 PROVE LeftInv'
  BY DEF LeftInv
<1> QED
  BY DeletesForget, RunFrame DEF TypeOK

-----------------------------------------------------------------------------

\* The cleanup of one manager leaves those of the others as they were.
LEMMA CleaningKeepsLeft ==
  ASSUME LeftInv, TypeOK, NEW m \in todo, phase = "cleanup", todo' = todo \ {m},
         failures' = 0 => failures = 0 /\ CleanedUp(m)',
         active' \subseteq active, terminating \subseteq terminating', Present' = Present,
         objects' \subseteq objects, UNCHANGED <<phase, at, labelled, inited>>,
         \A k \in ManagerNames \ {m} : nsSet'[k] = nsSet[k] /\ table'[k] = table[k]
  PROVE  LeftInv'
<1> SUFFICES ASSUME failures' = 0
             PROVE  /\ \A g \in Goroutines : Known(g)'
                    /\ \A k \in inited' : Uncleaned(k)' \/ CleanedUp(k)'
  BY DEF LeftInv
<1>1. ASSUME NEW g \in Goroutines PROVE Known(g)'
  <2>1. Known(g) /\ Mgr(g) \in ManagerNames
    BY RoutineTypes DEF LeftInv
  <2>2. Uncleaned(Mgr(g))' => Uncleaned(Mgr(g)) /\ Mgr(g)' = Mgr(g) /\ Mgr(g) # m
    BY DEF Uncleaned, Mgr
  <2> QED
    BY <2>1, <2>2 DEF Known, Mgr, Ns
<1>2. ASSUME NEW k \in inited' PROVE Uncleaned(k)' \/ CleanedUp(k)'
  <2>1. k = m \/ Uncleaned(k) \/ CleanedUp(k)
    BY DEF LeftInv
  <2>2. CASE k = m
    BY <2>2
  <2>3. CASE k # m /\ Uncleaned(k)
    BY <2>3 DEF Uncleaned
  <2>4. CASE CleanedUp(k)
    BY <2>4 DEF CleanedUp, Remainder, Mgr, Ns
  <2> QED
    BY <2>1, <2>2, <2>3, <2>4
<1> QED
  BY <1>1, <1>2

\* DeleteAll, of a manager whose list has what is on record of it where the
\* manager looks for it, or of one of the two that may miss something.
LEMMA CleanUpKeepsLeft ==
  ASSUME LeftInv, TypeOK, NEW m \in ManagerNames, m # "Namespace",
         NEW hit \in SUBSET Goroutines, NEW left, CleanUp(m, hit, left),
         \/ m \in {"Pod", "Resource"}
         \/ \A g \in objects : Mgr(g) = m /\ g \in table[m] => g \in hit
  PROVE  LeftInv'
<1> DEFINE spaces == ({HomeOf[m]} \cup nsSet[m]) \ {Default}
<1>1. PICK lost \in SUBSET hit, kept \in SUBSET spaces :
        /\ Fail(Cardinality(lost) + Cardinality(kept))
        /\ objects' = objects \ (hit \ lost)
        /\ Terminate(spaces \ kept)
  BY DEF CleanUp
<1>2. /\ todo' = todo \ {m} /\ phase = "cleanup" /\ m \in todo
      /\ table' = [table EXCEPT ![m] = left] /\ nsSet' = [nsSet EXCEPT ![m] = {}]
      /\ UNCHANGED <<phase, at, listed, labelled, existed, inited>>
  BY DEF CleanUp, routineVars
<1>3. ASSUME failures' = 0 PROVE failures = 0 /\ lost = {} /\ kept = {}
  <2>1. spaces \subseteq Namespaces
    BY HomesAreNamespaces DEF TypeOK
  <2>2. IsFiniteSet(lost) /\ IsFiniteSet(kept)
    BY <2>1, FS_Subset, CountNamespaces, RoutineAssumption
  <2>3. Cardinality(lost) \in Nat /\ Cardinality(kept) \in Nat
    BY <2>2, FS_CardinalityType
  <2>4. failures = 0 /\ Cardinality(lost) + Cardinality(kept) = 0
    BY <1>1, <1>3, <2>3, FailedCall
  <2> QED
    BY <2>2, <2>3, <2>4, FS_EmptySet
<1>4. /\ active' \subseteq active /\ terminating \subseteq terminating' /\ Present' = Present
  BY <1>1 DEF Terminate, Present
<1>5. ASSUME failures' = 0 PROVE CleanedUp(m)'
  <2>1. active' = active \ spaces /\ terminating' = terminating \cup (active \cap spaces)
    BY <1>1, <1>3, <1>5 DEF Terminate
  <2>2. HomeOf[m] \notin active'
    BY <2>1, SevenManagers DEF HomeOf, Default
  <2>3. ASSUME NEW g \in objects', Mgr(g) = m PROVE Remainder(g)'
    <3>1. g \in objects /\ Known(g) /\ Uncleaned(m) /\ at[g] = "done"
      BY <1>1, <1>2, <1>3, <1>5, <2>3 DEF LeftInv, Uncleaned, TypeOK
    <3>2. /\ Ns(g) \in nsSet[m] \cup {Default} /\ (m # "Resource" => g \in table[m])
          /\ Routine[g].global \/ Ns(g) \in Present
      BY <2>3, <3>1 DEF Known
    <3>3. m \in {"Pod", "Resource"}
      BY <1>1, <1>3, <1>5, <2>3, <3>1, <3>2
    <3> QED
      BY <2>1, <2>3, <3>2, <3>3 DEF Remainder, Present, Mgr, Ns
  <2> QED
    BY <2>2, <2>3 DEF CleanedUp, Mgr
<1>6. objects' \subseteq objects
  BY <1>1
<1>7. \A k \in ManagerNames \ {m} : nsSet'[k] = nsSet[k] /\ table'[k] = table[k]
  BY <1>2 DEF TypeOK
<1> QED
  BY <1>2, <1>3, <1>4, <1>5, <1>6, <1>7, CleaningKeepsLeft

LEMMA DeleteAllsKeepLeft ==
  ASSUME LeftInv, TypeOK, DefaultInv, DeleteAlls
  PROVE  LeftInv'
<1>1. ASSUME NEW m, CleanUpNothing(m) PROVE LeftInv'
  BY <1>1, FailedCall DEF CleanUpNothing, LeftInv
<1>2. CASE PodDeleteAll
  <2>1. table["Pod"] \cap objects \cap Within(HomeOf["Pod"]) \in SUBSET Goroutines
    BY SevenManagers DEF TypeOK
  <2> QED
    BY <1>2, <2>1, CleanUpKeepsLeft, SevenManagers DEF PodDeleteAll
<1>3. CASE ResourceDeleteAll
  BY <1>3, CleanUpKeepsLeft, SevenManagers DEF ResourceDeleteAll
<1>4. CASE DeploymentDeleteAll \/ StatefulSetDeleteAll \/ RcDeleteAll
  <2>1. \A m \in ManagerNames : /\ Recorded(m) \in SUBSET Goroutines
                                /\ \A g \in objects : g \in table[m] => g \in Recorded(m)
    BY DEF Recorded, TypeOK
  <2> QED
    BY <1>4, <2>1, CleanUpKeepsLeft, SevenManagers
    DEF DeploymentDeleteAll, StatefulSetDeleteAll, RcDeleteAll
<1>5. CASE ServiceDeleteAll
  <2> DEFINE hit == {s \in objects : Mgr(s) = "Service" /\ Ns(s) = SvcNs(s)}
  <2>1. /\ hit \in SUBSET Goroutines
        /\ \A g \in objects : Mgr(g) = "Service" /\ g \in table["Service"] => g \in hit
    BY DEF SvcNs, TypeOK
  <2>2. CASE CleanUp("Service", hit, table["Service"] \ objects)
    <3> HIDE DEF hit
    <3> QED
      BY <2>1, <2>2, CleanUpKeepsLeft, SevenManagers
  <2> QED
    BY <1>1, <1>5, <2>2 DEF ServiceDeleteAll
<1>6. CASE NamespaceDeleteAll
  <2>1. CASE /\ phase = "cleanup" /\ "Namespace" \in todo
             /\ todo' = todo \ {"Namespace"}
             /\ \E lost \in SUBSET Labelled :
                  Fail(Cardinality(lost)) /\ Terminate(Labelled \ lost)
             /\ UNCHANGED <<phase, routineVars, labelled, objects, existed, inited, nsSet, table>>
    <3> PICK lost \in SUBSET Labelled : Fail(Cardinality(lost)) /\ Terminate(Labelled \ lost)
      BY <2>1
    <3>1. failures' = 0 => failures = 0 /\ lost = {}
      <4>1. IsFiniteSet(lost) /\ Cardinality(lost) \in Nat
        BY CountNamespaces, FS_Subset DEF Labelled, TypeOK, Present
      <4> QED
        BY <4>1, FailedCall, FS_EmptySet
    <3>2. failures' = 0 => active' \cap labelled' = {}
      BY <2>1, <3>1 DEF Terminate, Labelled, DefaultInv
    <3>3. failures' = 0 => \A g \in objects' : Mgr(g) # "Namespace"
      BY <2>1, <3>1 DEF LeftInv, Known, TypeOK
    <3>4. failures' = 0 => CleanedUp("Namespace")'
      BY <3>2, <3>3 DEF CleanedUp, Mgr
    <3>5. /\ active' \subseteq active /\ terminating \subseteq terminating' /\ Present' = Present
      BY DEF Terminate, Present
    <3> QED
      BY <2>1, <3>1, <3>4, <3>5, CleaningKeepsLeft DEF routineVars
  <2> QED
    BY <1>1, <1>6, <2>1 DEF NamespaceDeleteAll
<1> QED
  BY <1>2, <1>3, <1>4, <1>5, <1>6 DEF DeleteAlls

LEMMA LeftInductive ==
  /\ Init => LeftInv
  /\ LeftInv /\ DealtInv /\ TypeOK /\ DefaultInv /\ [Next]_vars => LeftInv'
<1>1. Init => LeftInv
  BY DEF Init, LeftInv, Known
<1>2. ASSUME LeftInv, DealtInv, TypeOK, DefaultInv, [Next]_vars PROVE LeftInv'
  <2>1. CASE Finalize
    <3>1. \A g \in Goroutines : Known(g) => Known(g)'
      BY <2>1 DEF Finalize, Known, Uncleaned, routineVars, clusterVars, Present, Mgr, Ns
    <3>2. \A m \in inited' : Uncleaned(m)'
      BY <2>1 DEF Finalize, Uncleaned
    <3>3. failures' = failures /\ phase' = "cleanup"
      BY <2>1 DEF Finalize
    <3> QED
      BY <1>2, <3>1, <3>2, <3>3 DEF LeftInv
  <2>2. CASE Exit
    <3>1. UNCHANGED <<at, active, terminating, labelled, objects, inited, nsSet, table, todo, failures>>
      BY <2>2 DEF Exit, routineVars, clusterVars, managerVars
    <3>2. todo = {} /\ phase = "cleanup" /\ phase' = "over"
      BY <2>2 DEF Exit
    <3> QED
      BY <1>2, <3>1, <3>2
      DEF LeftInv, Known, CleanedUp, Uncleaned, Remainder, Present, Mgr, Ns
  <2>3. CASE UNCHANGED vars
    <3>1. UNCHANGED <<phase, at, active, terminating, labelled, objects, inited, nsSet, table, todo, failures>>
      BY <2>3 DEF vars, routineVars, clusterVars, managerVars
    <3> QED
      BY <1>2, <3>1 DEF LeftInv, Known, CleanedUp, Uncleaned, Remainder, Present, Mgr, Ns
  <2>4. ASSUME NEW n \in terminating, Collapse(n) PROVE LeftInv'
    <3>1. /\ UNCHANGED <<phase, at, active, inited, nsSet, table, failures>> /\ phase = "run"
          /\ terminating' = terminating \ {n} /\ objects' = objects \ Within(n)
      BY <2>4 DEF Collapse, routineVars, managerVars
    <3>2. failures = 0 => \A g \in objects' : Routine[g].global \/ Ns(g) # n
      BY <1>2, <3>1 DEF LeftInv, Known, Within, TypeOK
    <3> QED
      BY <1>2, <3>1, <3>2, RunFrame DEF Present
  <2>5. ASSUME NEW g \in Goroutines, Finish(g) PROVE LeftInv'
    <3>1. /\ UNCHANGED <<phase, active, terminating, objects, inited, nsSet, table, failures>>
          /\ MayList(g) /\ at' = [at EXCEPT ![g] = "done"]
      BY <2>5 DEF Finish, clusterVars, managerVars
    <3>2. phase = "run"
      BY <1>2, <3>1 DEF MayList, TypeOK
    <3> QED
      BY <1>2, <3>1, <3>2, RunFrame DEF Present, MayList, TypeOK
  <2> QED
    BY <1>2, <2>1, <2>2, <2>3, <2>4, <2>5, InitsKeepLeft, CreatesKeepLeft, DeletesKeepLeft,
       DeleteAllsKeepLeft DEF Next
<1> QED
  BY <1>1, <1>2

\* If every call succeeded, no home namespace and no labelled one outlasts the
\* cleanup, and of the objects only the ones the managers are known to miss.
THEOREM CleanupIsComplete == Spec => []CleanupLeaves
<1>1. LeftInv /\ TypeOK => CleanupLeaves
  <2> SUFFICES ASSUME LeftInv, TypeOK, phase = "over", failures = 0
               PROVE  /\ \A m \in inited \ {"Namespace"} : HomeOf[m] \notin active
                      /\ "Namespace" \in inited => active \cap labelled = {}
                      /\ \A g \in objects : Remainder(g)
    BY DEF CleanupLeaves
  <2>1. \A m \in inited : CleanedUp(m)
    BY DEF LeftInv, Uncleaned
  <2>2. \A g \in objects : Mgr(g) \in inited
    BY DEF LeftInv, Known, TypeOK
  <2> QED
    BY <2>1, <2>2 DEF CleanedUp
<1> QED
  BY <1>1, TypeInductive, LoopInductive, DealtInductive, DefaultInductive, LeftInductive,
     PTL DEF Spec

=============================================================================
