--------------------------- MODULE DispatchProofs ---------------------------
(***************************************************************************)
(* The barrier between operations and the order of goroutine names, for    *)
(* every configuration, any number of goroutines and every interleaving of *)
(* theirs with the main goroutine's go and wg.Add.                         *)
(***************************************************************************)
EXTENDS Dispatch, FiniteInduction, TLAPS

\* wg is the number of running goroutines, but for the one that was started and
\* not yet counted.
Counted ==
  /\ IsFiniteSet(Live)
  /\ pc # "panic" => wg = Cardinality(Live) - (IF pc = "add" THEN 1 ELSE 0)

\* Where main can be in the loops.
Position ==
  /\ startIdx + N <= MaxOid
  /\ pc \in {"go", "add", "check", "block", "next"} => idx < N
  /\ pc = "add" => kindIdx <= Len(KindOrder) /\ tid < MaxCount

\* Goroutines that were started have names that main has come past.
Passed ==
  \A g \in Routines : status[g] # "unborn" =>
    /\ N > 0
    /\ g[1] <= Oid
    /\ pc = "op" => g[1] < Oid
    /\ pc = "loop" => g[1] < startIdx + N
    /\ pc \in {"go", "add"} /\ g[1] = Oid =>
         \E k \in 1 .. Len(KindOrder) :
           /\ g[2] = KindOrder[k]
           /\ k < kindIdx \/ (k = kindIdx /\ (g[3] < tid \/ (pc = "add" /\ g[3] = tid)))

IInv == TypeOK /\ Position /\ Passed /\ Counted /\ Barrier

-----------------------------------------------------------------------------
(* The actions of main, for the loops over the kinds together *)

\* What the seven checkAndRun* have in common: a goroutine is started, or the next
\* kind has its turn.
StartsRoutine ==
  /\ tid < Config(KindOrder[kindIdx]).count
  /\ status' = [status EXCEPT ![<<Oid, KindOrder[kindIdx], tid>>] = "live"]
  /\ pc' = "add"
  /\ UNCHANGED <<kindIdx, tid>>

EndsKind ==
  /\ HasActions(KindOrder[kindIdx]) => ~(tid < Config(KindOrder[kindIdx]).count)
  /\ kindIdx' = kindIdx + 1 /\ tid' = 0
  /\ UNCHANGED <<pc, status>>

Visit ==
  /\ pc = "go" /\ kindIdx <= Len(KindOrder)
  /\ clients' \in [ManagerNames -> Nat \cup {-1}]
  /\ StartsRoutine \/ EndsKind
  /\ UNCHANGED <<startIdx, idx, minutesElapsed, wg, elapsed, next, created, calls>>

CheckAndRunAny ==
  \/ checkAndRunPod \/ checkAndRunDeployment \/ checkAndRunStatefulSet
  \/ checkAndRunNamespace \/ checkAndRunService \/ checkAndRunRc \/ checkAndRunResource

LEMMA Constants ==
  /\ N \in Nat /\ MaxOid \in Nat /\ MaxCount \in Nat /\ MaxElapsed \in Nat /\ N <= MaxOid
  /\ RuntimeInMinutes \in Nat /\ NormalizedOps \in Seq(WcpOp)
BY OpsAssumption, ConfigAssumption DEF N

LEMMA EightKinds ==
  /\ Len(KindOrder) = 8
  /\ \A k \in 1 .. 8 : KindOrder[k] \in Kinds
  /\ \A j, k \in 1 .. 8 : KindOrder[j] = KindOrder[k] => j = k
  /\ \A kind \in Kinds : \E k \in 1 .. 8 : KindOrder[k] = kind
<1> DEFINE S == <<"Pod", "Deployment", "StatefulSet", "Namespace", "Service",
                  "ReplicationController", "ConfigMap", "Secret">>
<1>1. KindOrder = S /\ Len(S) = 8
  BY DEF KindOrder
<1>2. \A k \in 1 .. 8 : k = 1 \/ k = 2 \/ k = 3 \/ k = 4 \/ k = 5 \/ k = 6 \/ k = 7 \/ k = 8
  OBVIOUS
<1>3. /\ S[1] = "Pod" /\ S[2] = "Deployment" /\ S[3] = "StatefulSet" /\ S[4] = "Namespace"
      /\ S[5] = "Service" /\ S[6] = "ReplicationController" /\ S[7] = "ConfigMap"
      /\ S[8] = "Secret"
  OBVIOUS
<1>4. Kinds = {"Pod", "Deployment", "StatefulSet", "Namespace", "Service",
               "ReplicationController", "ConfigMap", "Secret"}
  BY DEF Kinds, GenericKinds
<1> HIDE DEF S
<1>5. \A k \in 1 .. 8 : S[k] \in Kinds
  BY <1>2, <1>3, <1>4
<1>6. \A j, k \in 1 .. 8 : S[j] = S[k] => j = k
  BY <1>2, <1>3
<1>7. \A kind \in Kinds : \E k \in 1 .. 8 : S[k] = kind
  BY <1>3, <1>4
<1> QED
  BY <1>1, <1>5, <1>6, <1>7

\* A goroutine is given its resource's configuration, whose actions have verbs.
LEMMA ConfigType ==
  ASSUME NEW i \in 1 .. N, NEW kind \in Kinds
  PROVE  /\ NormalizedOps[i].resources[kind].count \in Int
         /\ NormalizedOps[i].resources[kind].count <= MaxCount
         /\ NormalizedOps[i].resources[kind].actions \in Seq(Action)
<1>1. NormalizedOps[i] \in WcpOp
  BY Constants DEF N
<1> QED
  BY <1>1, OpsAssumption DEF WcpOp, ResourceConfig

LEMMA GoroutineConfig ==
  ASSUME NEW g \in Routines, N > 0
  PROVE  ConfigOf(g).actions \in Seq(Action)
<1>1. g[1] \in Nat /\ g[2] \in Kinds
  BY Constants DEF Routines
<1>2. (g[1] % N) + 1 \in 1 .. N
  BY <1>1, Constants
<1> QED
  BY <1>1, <1>2, ConfigType DEF ConfigOf

LEMMA VisitKind ==
  ASSUME TypeOK, Position, CheckAndRunAny
  PROVE  Visit
<1> USE DEF CheckAndRun, More, routineVars, Current, StartsRoutine, EndsKind
<1>c. ASSUME NEW m \in ManagerNames
      PROVE  [clients EXCEPT ![m] = Clients[m]] \in [ManagerNames -> Nat \cup {-1}]
  BY ConfigAssumption DEF TypeOK
<1>m. \A kind \in Kinds : ManagerOf(kind) \in ManagerNames
  BY DEF ManagerNames
<1>k. pc = "go" /\ kindIdx <= Len(KindOrder) => KindOrder[kindIdx] \in Kinds
  BY EightKinds DEF TypeOK
<1>t. pc = "go" /\ kindIdx <= Len(KindOrder)
  BY DEF CheckAndRunAny, checkAndRunPod, checkAndRunDeployment, checkAndRunStatefulSet,
         checkAndRunNamespace, checkAndRunService, checkAndRunRc, checkAndRunResource
<1>u. clients' \in [ManagerNames -> Nat \cup {-1}]
  <2>1. clients' = clients \/ clients' = [clients EXCEPT ![ManagerOf(KindOrder[kindIdx])] =
                                            Clients[ManagerOf(KindOrder[kindIdx])]]
    BY DEF CheckAndRunAny, checkAndRunPod, checkAndRunDeployment, checkAndRunStatefulSet,
           checkAndRunNamespace, checkAndRunService, checkAndRunRc, checkAndRunResource
  <2> QED
    BY <2>1, <1>c, <1>m, <1>k, <1>t DEF TypeOK
<1>n. Config(KindOrder[kindIdx]).count \in Int
  <2>1. idx + 1 \in 1 .. N
    BY <1>t, Constants DEF Position, TypeOK
  <2> QED
    BY <2>1, <1>t, <1>k, ConfigType DEF Config
<1>1. CASE checkAndRunPod
  BY <1>1, <1>u DEF Visit, checkAndRunPod
<1>2. CASE checkAndRunDeployment
  BY <1>2, <1>u DEF Visit, checkAndRunDeployment
<1>3. CASE checkAndRunStatefulSet
  BY <1>3, <1>u DEF Visit, checkAndRunStatefulSet
<1>4. CASE checkAndRunNamespace
  BY <1>4, <1>u DEF Visit, checkAndRunNamespace, TypeOK
<1>5. CASE checkAndRunService
  BY <1>5, <1>u DEF Visit, checkAndRunService, TypeOK
<1>6. CASE checkAndRunRc
  BY <1>6, <1>u DEF Visit, checkAndRunRc
<1>7. CASE checkAndRunResource
  BY <1>7, <1>u, <1>n, Constants DEF Visit, checkAndRunResource, TypeOK
<1> QED
  BY <1>1, <1>2, <1>3, <1>4, <1>5, <1>6, <1>7 DEF CheckAndRunAny


-----------------------------------------------------------------------------
(* The steps of the goroutines, for the kinds together *)

Works(g) ==
  LET acts == ConfigOf(g).actions IN
  /\ next[g] <= Len(acts)
  /\ next' = [next EXCEPT ![g] = @ + 1]
  /\ created' = [created EXCEPT ![g] = @ \/ acts[next[g]].act = "create"]
  /\ calls' = calls \/ calls' = [calls EXCEPT ![g] = Append(@, acts[next[g]].act)]
  /\ UNCHANGED <<pc, wg, status>>

Panics ==
  /\ pc' = "panic"
  /\ UNCHANGED <<wg, status, next, created, calls>>

GoroutineStep(g) ==
  /\ pc # "panic" /\ status[g] = "live"
  /\ Works(g) \/ Panics \/ Done(g)
  /\ UNCHANGED <<startIdx, idx, kindIdx, tid, clients, minutesElapsed, elapsed>>

LEMMA RunActionsKind ==
  ASSUME NEW g, RunActions(g)
  PROVE  GoroutineStep(g)
<1> USE DEF RoutineStep, GoroutineStep, mainVars
<1>1. ASSUME NEW funcs, PerformAction(g, funcs)
      PROVE  Works(g)
  BY <1>1 DEF PerformAction, Works
<1>2. ASSUME FailAssertion(g)
      PROVE  Panics
  BY <1>2 DEF FailAssertion, Panics, routineVars
<1>3. CASE runPodActions(g)
  BY <1>1, <1>2, <1>3 DEF runPodActions
<1>4. CASE runDeploymentActions(g)
  BY <1>1, <1>2, <1>4 DEF runDeploymentActions
<1>5. CASE runStatefulSetActions(g)
  BY <1>1, <1>2, <1>5 DEF runStatefulSetActions
<1>6. CASE runNamespaceActions(g)
  BY <1>1, <1>2, <1>6 DEF runNamespaceActions
<1>7. CASE runServiceActions(g)
  BY <1>1, <1>2, <1>7 DEF runServiceActions
<1>8. CASE runRcActions(g)
  BY <1>1, <1>2, <1>8 DEF runRcActions
<1>9. CASE runResourceActions(g)
  BY <1>1, <1>2, <1>9 DEF runResourceActions
<1> QED
  BY <1>3, <1>4, <1>5, <1>6, <1>7, <1>8, <1>9 DEF RunActions

\* The other steps of main, which leave the goroutines alone.
Quietly ==
  \/ BeginOperation \/ Wait \/ CheckRuntime \/ BlockOnPods \/ EndOperation \/ EndRound
  \/ LoopOrFinalize \/ Finalize

LEMMA NextCases ==
  ASSUME TypeOK, Position, Next
  PROVE  Visit \/ Add \/ Quietly \/ Tick \/ \E g \in Routines : GoroutineStep(g)
BY VisitKind, RunActionsKind DEF Next, Main, CheckAndRunAny, Quietly

-----------------------------------------------------------------------------
(* Type correctness *)

LEMMA InitInv == Init => IInv
<1> SUFFICES ASSUME Init PROVE IInv
  OBVIOUS
<1>1. TypeOK
  BY Constants, EightKinds DEF Init, TypeOK, Oid
<1>2. Live = {}
  BY DEF Init, Live
<1>3. Position /\ Passed /\ Barrier
  BY <1>2, Constants DEF Init, Position, Passed, Barrier
<1>4. Counted
  BY <1>2, FS_EmptySet DEF Init, Counted
<1> QED
  BY <1>1, <1>3, <1>4 DEF IInv

\* The goroutine that a go statement starts.
LEMMA StartedRoutine ==
  ASSUME TypeOK, Position, pc = "go", kindIdx <= Len(KindOrder),
         tid < Config(KindOrder[kindIdx]).count
  PROVE  /\ <<Oid, KindOrder[kindIdx], tid>> \in Routines
         /\ tid < MaxCount
<1>1. idx + 1 \in 1 .. N /\ Oid \in 0 .. MaxOid
  BY Constants DEF Position, TypeOK, Oid
<1>2. KindOrder[kindIdx] \in Kinds
  BY EightKinds DEF TypeOK
<1>3. tid < MaxCount
  BY <1>1, <1>2, ConfigType, Constants DEF Config, TypeOK
<1> QED
  BY <1>1, <1>2, <1>3, Constants DEF Routines, TypeOK

LEMMA TypeStep ==
  ASSUME TypeOK, Position, Passed, [Next]_vars
  PROVE  TypeOK'
<1>l. Len(KindOrder) = 8
  BY EightKinds
<1> USE Constants, <1>l
<1>1. CASE Visit
  <2>1. CASE StartsRoutine
    <3> DEFINE g == <<Oid, KindOrder[kindIdx], tid>>
    <3>1. g \in Routines
      BY <1>1, <2>1, StartedRoutine DEF Visit, StartsRoutine
    <3>2. status' = [status EXCEPT ![g] = "live"]
      BY <2>1 DEF StartsRoutine
    <3> HIDE DEF g
    <3>3. status' \in [Routines -> {"unborn", "live", "ended"}]
      BY <3>1, <3>2 DEF TypeOK
    <3> QED
      BY <1>1, <2>1, <3>3 DEF Visit, StartsRoutine, TypeOK, Oid
  <2>2. CASE EndsKind
    BY <1>1, <2>2 DEF Visit, EndsKind, TypeOK, Oid
  <2> QED
    BY <1>1, <2>1, <2>2 DEF Visit
<1>2. CASE Add
  BY <1>2 DEF Add, TypeOK, Position, Oid, routineVars
<1>3. CASE Quietly
  <2> USE DEF TypeOK, Position, Oid, routineVars, mainVars
  <2>1. CASE Wait \/ BlockOnPods \/ EndRound \/ Finalize
    BY <2>1 DEF Wait, BlockOnPods, EndRound, Finalize
  <2>5. CASE BeginOperation
    BY <2>5 DEF BeginOperation
  <2>2. CASE CheckRuntime
    BY <2>2 DEF CheckRuntime, Rounded
  <2>3. CASE EndOperation
    BY <2>3 DEF EndOperation
  <2>4. CASE LoopOrFinalize
    BY <2>4 DEF LoopOrFinalize, NextStart
  <2> QED
    BY <1>3, <2>1, <2>2, <2>3, <2>4, <2>5 DEF Quietly
<1>4. ASSUME NEW g \in Routines, GoroutineStep(g)
      PROVE  TypeOK'
  <2>1. CASE Works(g)
    <3>1. N > 0
      BY <1>4 DEF GoroutineStep, Passed
    <3>2. ConfigOf(g).actions \in Seq(Action)
      BY <3>1, GoroutineConfig
    <3>3. next[g] \in 1 .. Len(ConfigOf(g).actions)
      BY <2>1, <3>2 DEF Works, TypeOK
    <3>4. ConfigOf(g).actions[next[g]].act \in STRING
      <4>1. \A acts \in Seq(Action) : \A i \in 1 .. Len(acts) : acts[i] \in Action
        OBVIOUS
      <4>2. ConfigOf(g).actions[next[g]] \in Action
        BY <3>2, <3>3, <4>1
      <4> QED
        BY <4>2 DEF Action
    <3>5. Append(calls[g], ConfigOf(g).actions[next[g]].act) \in Seq(STRING)
      BY <3>4 DEF TypeOK
    <3>6. calls' \in [Routines -> Seq(STRING)]
      <4>1. CASE calls' = calls
        BY <4>1 DEF TypeOK
      <4>2. CASE calls' = [calls EXCEPT ![g] = Append(@, ConfigOf(g).actions[next[g]].act)]
        BY <4>2, <3>5 DEF TypeOK
      <4> QED
        BY <2>1, <4>1, <4>2 DEF Works
    <3>8. next' \in [Routines -> Nat \ {0}]
      <4>1. next[g] + 1 \in Nat \ {0}
        BY DEF TypeOK
      <4> QED
        BY <2>1, <4>1 DEF Works, TypeOK
    <3>7. created' \in [Routines -> BOOLEAN]
      BY <2>1 DEF Works, TypeOK
    <3> QED
      BY <1>4, <2>1, <3>6, <3>7, <3>8 DEF GoroutineStep, Works, TypeOK, Oid
  <2>2. CASE Panics
    BY <1>4, <2>2 DEF GoroutineStep, Panics, TypeOK, Oid
  <2>3. CASE Done(g)
    BY <1>4, <2>3 DEF GoroutineStep, Done, TypeOK, Oid, routineVars
  <2> QED
    BY <1>4, <2>1, <2>2, <2>3 DEF GoroutineStep
<1>5. CASE Tick
  BY <1>5 DEF Tick, mainVars, routineVars, TypeOK, Oid
<1>6. CASE UNCHANGED vars
  BY <1>6 DEF vars, mainVars, routineVars, TypeOK, Oid
<1> QED
  BY <1>1, <1>2, <1>3, <1>4, <1>5, <1>6, NextCases


-----------------------------------------------------------------------------
(* The inductive invariant *)

LEMMA PositionStep ==
  ASSUME TypeOK, Position, [Next]_vars
  PROVE  Position'
<1> USE Constants DEF Position, TypeOK
<1>1. CASE Visit
  BY <1>1, StartedRoutine DEF Visit, StartsRoutine, EndsKind
<1>2. CASE Add
  BY <1>2 DEF Add
<1>3. CASE Quietly
  <2> USE DEF mainVars
  <2>1. CASE BeginOperation \/ Wait \/ BlockOnPods \/ EndRound \/ Finalize
    BY <2>1 DEF BeginOperation, Wait, BlockOnPods, EndRound, Finalize
  <2>2. CASE CheckRuntime \/ EndOperation
    BY <2>2 DEF CheckRuntime, EndOperation
  <2>3. CASE LoopOrFinalize
    BY <2>3 DEF LoopOrFinalize, NextStart
  <2> QED
    BY <1>3, <2>1, <2>2, <2>3 DEF Quietly
<1>4. ASSUME NEW g \in Routines, GoroutineStep(g)
      PROVE  Position'
  BY <1>4 DEF GoroutineStep, Works, Panics, Done
<1>5. CASE Tick \/ UNCHANGED vars
  BY <1>5 DEF Tick, vars, mainVars
<1> QED
  BY <1>1, <1>2, <1>3, <1>4, <1>5, NextCases

\* One more kind or TID leaves what was started behind.
LEMMA PassedStep ==
  ASSUME TypeOK, Position, Passed, [Next]_vars
  PROVE  Passed'
<1>l. Len(KindOrder) = 8 /\ \A g \in Routines : g[1] \in Nat /\ g[3] \in Nat
  BY EightKinds, Constants DEF Routines
<1> USE Constants, <1>l
<1>1. CASE Visit
  <2>1. CASE StartsRoutine
    <3> DEFINE s == <<Oid, KindOrder[kindIdx], tid>>
    <3>1. s \in Routines /\ pc = "go" /\ pc' = "add"
      BY <1>1, <2>1, StartedRoutine DEF Visit, StartsRoutine
    <3>2. /\ status' = [status EXCEPT ![s] = "live"]
          /\ UNCHANGED <<startIdx, idx, kindIdx, tid>> /\ Oid' = Oid
      BY <1>1, <2>1 DEF Visit, StartsRoutine, Oid
    <3>3. /\ s[1] = Oid /\ s[2] = KindOrder[kindIdx] /\ s[3] = tid
          /\ kindIdx \in 1 .. 8 /\ N > 0 /\ Oid \in Nat
      BY <1>1 DEF Visit, TypeOK, Position, Oid
    <3> HIDE DEF s
    <3>4. \A g \in Routines : g # s => status'[g] = status[g]
      BY <3>2 DEF TypeOK
    <3> SUFFICES ASSUME NEW g \in Routines, status'[g] # "unborn"
                 PROVE  /\ N > 0 /\ g[1] <= Oid
                        /\ g[1] = Oid =>
                             \E k \in 1 .. 8 :
                               /\ g[2] = KindOrder[k]
                               /\ k < kindIdx \/ (k = kindIdx /\ (g[3] < tid \/ g[3] = tid))
      BY <3>1, <3>2 DEF Passed
    <3>5. CASE g = s
      BY <3>3, <3>5
    <3>6. CASE g # s
      BY <3>1, <3>4, <3>6 DEF Passed
    <3> QED
      BY <3>5, <3>6
  <2>2. CASE EndsKind
    <3>1. /\ pc = "go" /\ pc' = "go" /\ status' = status /\ kindIdx' = kindIdx + 1
          /\ Oid' = Oid /\ startIdx' = startIdx /\ kindIdx \in Nat
      BY <1>1, <2>2 DEF Visit, EndsKind, Oid, TypeOK
    <3> SUFFICES ASSUME NEW g \in Routines, status[g] # "unborn"
                 PROVE  /\ N > 0 /\ g[1] <= Oid
                        /\ g[1] = Oid => \E k \in 1 .. 8 : g[2] = KindOrder[k] /\ k < kindIdx + 1
      BY <3>1 DEF Passed
    <3>2. /\ N > 0 /\ g[1] <= Oid
          /\ g[1] = Oid =>
               \E k \in 1 .. 8 : g[2] = KindOrder[k] /\ (k < kindIdx \/ k = kindIdx)
      BY <3>1 DEF Passed
    <3> QED
      BY <3>1, <3>2
  <2> QED
    BY <1>1, <2>1, <2>2 DEF Visit
<1>2. CASE Add
  <2>1. /\ pc = "add" /\ pc' = "go" /\ status' = status /\ kindIdx' = kindIdx /\ tid' = tid + 1
        /\ Oid' = Oid /\ startIdx' = startIdx /\ tid \in Nat
    BY <1>2 DEF Add, Oid, TypeOK
  <2> SUFFICES ASSUME NEW g \in Routines, status[g] # "unborn"
               PROVE  /\ N > 0 /\ g[1] <= Oid
                      /\ g[1] = Oid =>
                           \E k \in 1 .. 8 :
                             g[2] = KindOrder[k] /\ (k < kindIdx \/ (k = kindIdx /\ g[3] < tid + 1))
    BY <2>1 DEF Passed
  <2> QED
    BY <2>1 DEF Passed
<1>3. CASE Quietly
  <2>0. status' = status
    BY <1>3 DEF Quietly, BeginOperation, Wait, BlockOnPods, EndRound, Finalize,
                CheckRuntime, EndOperation, LoopOrFinalize
  <2>1. /\ idx \in Nat /\ startIdx \in Nat /\ Oid = startIdx + idx
        /\ Oid' = startIdx' + idx'
    BY DEF TypeOK, Oid
  <2> SUFFICES ASSUME NEW g \in Routines, status[g] # "unborn"
               PROVE  /\ N > 0 /\ g[1] <= Oid' /\ (pc' = "op" => g[1] < Oid')
                      /\ pc' = "loop" => g[1] < startIdx' + N
                      /\ pc' \in {"go", "add"} => g[1] # Oid'
    BY <2>0 DEF Passed
  <2>2. /\ N > 0 /\ g[1] <= Oid /\ (pc = "op" => g[1] < Oid)
        /\ pc = "loop" => g[1] < startIdx + N
    BY DEF Passed
  <2> USE <2>1, <2>2 DEF mainVars
  <2>3. CASE BeginOperation
    BY <2>3 DEF BeginOperation
  <2>4. CASE Wait \/ BlockOnPods
    BY <2>4 DEF Wait, BlockOnPods
  <2>5. CASE EndRound \/ Finalize
    BY <2>5 DEF EndRound, Finalize
  <2>7. CASE CheckRuntime
    BY <2>7 DEF CheckRuntime, Position
  <2>8. CASE EndOperation
    BY <2>8 DEF EndOperation
  <2>9. CASE LoopOrFinalize
    BY <2>9 DEF LoopOrFinalize, NextStart
  <2> QED
    BY <1>3, <2>3, <2>4, <2>5, <2>7, <2>8, <2>9 DEF Quietly
<1>4. ASSUME NEW h \in Routines, GoroutineStep(h)
      PROVE  Passed'
  <2>1. /\ UNCHANGED <<startIdx, idx, kindIdx, tid>> /\ Oid' = Oid
        /\ pc' = pc \/ pc' = "panic"
    BY <1>4 DEF GoroutineStep, Works, Panics, Done, Oid
  <2>2. \A g \in Routines : status'[g] # "unborn" => status[g] # "unborn"
    BY <1>4 DEF GoroutineStep, Works, Panics, Done, TypeOK
  <2> QED
    BY <2>1, <2>2 DEF Passed
<1>5. CASE Tick \/ UNCHANGED vars
  <2>1. UNCHANGED <<pc, startIdx, idx, kindIdx, tid, status>> /\ Oid' = Oid
    BY <1>5 DEF Tick, vars, mainVars, Oid
  <2> QED
    BY <2>1 DEF Passed
<1> QED
  BY <1>1, <1>2, <1>3, <1>4, <1>5, NextCases


\* What main starts has not been started before.
LEMMA StartsFresh ==
  ASSUME TypeOK, Position, Passed, Visit, StartsRoutine
  PROVE  status[<<Oid, KindOrder[kindIdx], tid>>] = "unborn"
<1> DEFINE s == <<Oid, KindOrder[kindIdx], tid>>
<1>1. s \in Routines /\ pc = "go" /\ kindIdx \in 1 .. 8 /\ tid \in Nat
  BY StartedRoutine, EightKinds, Constants DEF Visit, StartsRoutine, TypeOK
<1>2. s[1] = Oid /\ s[2] = KindOrder[kindIdx] /\ s[3] = tid
  OBVIOUS
<1> HIDE DEF s
<1>3. SUFFICES ASSUME status[s] # "unborn" PROVE FALSE
  BY DEF s
<1>4. PICK k \in 1 .. 8 : s[2] = KindOrder[k] /\ (k < kindIdx \/ (k = kindIdx /\ s[3] < tid))
  BY <1>1, <1>2, <1>3, EightKinds DEF Passed
<1>5. k = kindIdx
  BY <1>1, <1>2, <1>4, EightKinds
<1> QED
  BY <1>1, <1>2, <1>4, <1>5

LEMMA SameLive ==
  ASSUME status' = status
  PROVE  Live' = Live
BY DEF Live

LEMMA CountedStep ==
  ASSUME TypeOK, Position, Passed, Counted, [Next]_vars
  PROVE  Counted'
<1>f. IsFiniteSet(Live) /\ Cardinality(Live) \in Nat /\ wg \in Int
  BY FS_CardinalityType DEF Counted, TypeOK
<1>1. CASE Visit
  <2>1. CASE StartsRoutine
    <3> DEFINE s == <<Oid, KindOrder[kindIdx], tid>>
    <3>1. s \in Routines /\ status[s] = "unborn" /\ status' = [status EXCEPT ![s] = "live"]
      BY <1>1, <2>1, StartsFresh, StartedRoutine DEF Visit, StartsRoutine
    <3>2. pc = "go" /\ pc' = "add" /\ wg' = wg
      BY <1>1, <2>1 DEF Visit, StartsRoutine
    <3> HIDE DEF s
    <3>3. Live' = Live \cup {s} /\ s \notin Live
      BY <3>1 DEF Live, TypeOK
    <3> QED
      BY <1>f, <3>2, <3>3, FS_AddElement DEF Counted
  <2>2. CASE EndsKind
    BY <1>1, <2>2, SameLive DEF Visit, EndsKind, Counted
  <2> QED
    BY <1>1, <2>1, <2>2 DEF Visit
<1>2. CASE Add
  BY <1>2, <1>f, SameLive DEF Add, Counted
<1>3. CASE Quietly
  <2>1. UNCHANGED <<status, wg>> /\ pc \notin {"add", "panic"} /\ pc' \notin {"add", "panic"}
    BY <1>3 DEF Quietly, BeginOperation, Wait, EndRound, Finalize, BlockOnPods, CheckRuntime,
                EndOperation, LoopOrFinalize
  <2> QED
    BY <2>1, SameLive DEF Counted
<1>4. ASSUME NEW g \in Routines, GoroutineStep(g)
      PROVE  Counted'
  <2>1. CASE Works(g) \/ Panics
    BY <1>4, <2>1, SameLive DEF Works, Panics, Counted
  <2>2. CASE Done(g)
    <3>1. Live' = Live \ {g} /\ g \in Live
      BY <1>4, <2>2 DEF GoroutineStep, Done, Live, TypeOK
    <3>2. wg' = wg - 1 /\ (pc' = pc \/ pc' = "panic") /\ pc # "panic"
      BY <1>4, <2>2 DEF GoroutineStep, Done
    <3>3. IsFiniteSet(Live') /\ Cardinality(Live') = Cardinality(Live) - 1
      BY <1>f, <3>1, FS_RemoveElement
    <3> QED
      BY <1>f, <3>2, <3>3 DEF Counted
  <2> QED
    BY <1>4, <2>1, <2>2 DEF GoroutineStep
<1>5. CASE Tick \/ UNCHANGED vars
  BY <1>5, SameLive DEF Tick, vars, Counted
<1> QED
  BY <1>1, <1>2, <1>3, <1>4, <1>5, NextCases

LEMMA BarrierStep ==
  ASSUME TypeOK, Position, Counted, Barrier, [Next]_vars
  PROVE  Barrier'
<1>1. CASE Visit \/ Add
  BY <1>1 DEF Visit, StartsRoutine, EndsKind, Add, Barrier
<1>2. CASE Quietly
  <2>1. CASE Wait
    <3>1. wg = 0 /\ pc = "go" /\ status' = status
      BY <2>1 DEF Wait
    <3>2. Live = {}
      <4>1. Cardinality(Live) \in Nat /\ Cardinality(Live) - 0 = 0
        BY <3>1, FS_CardinalityType DEF Counted
      <4> QED
        BY <4>1, FS_EmptySet DEF Counted
    <3> QED
      BY <3>1, <3>2, SameLive DEF Barrier
  <2>2. CASE ~Wait
    <3>1. status' = status /\ pc \in {"op", "check", "block", "next", "loop", "finalize"}
      BY <1>2, <2>2 DEF Quietly, BeginOperation, EndRound, Finalize, BlockOnPods, CheckRuntime,
                        EndOperation, LoopOrFinalize
    <3> QED
      BY <3>1, SameLive DEF Barrier
  <2> QED
    BY <2>1, <2>2
<1>3. ASSUME NEW g \in Routines, GoroutineStep(g)
      PROVE  Barrier'
  <2>1. g \in Live
    BY <1>3 DEF GoroutineStep, Live
  <2>2. pc' = pc \/ pc' = "panic"
    BY <1>3 DEF GoroutineStep, Works, Panics, Done
  <2> QED
    BY <2>1, <2>2 DEF Barrier
<1>4. CASE Tick \/ UNCHANGED vars
  BY <1>4, SameLive DEF Tick, vars, Barrier
<1> QED
  BY <1>1, <1>2, <1>3, <1>4, NextCases

LEMMA Invariance == Spec => []IInv
<1>1. IInv /\ [Next]_vars => IInv'
  BY TypeStep, PositionStep, PassedStep, CountedStep, BarrierStep DEF IInv
<1> QED
  BY InitInv, <1>1, PTL DEF Spec

\* Every variable of the driver and its goroutines keeps its type, for every
\* configuration.
THEOREM DispatchTypes == Spec => []TypeOK
<1>1. IInv => TypeOK
  BY DEF IInv
<1> QED
  BY Invariance, <1>1, PTL

\* When wg.Wait has returned no goroutine runs, for every configuration and
\* interleaving, although the counter lags behind the go statements.
THEOREM BarrierHolds == Spec => []Barrier
<1>1. IInv => Barrier
  BY DEF IInv
<1> QED
  BY Invariance, <1>1, PTL

-----------------------------------------------------------------------------
(* The time limit *)

\* The last reading of the clock is not ahead of it, and Run leaves its loop for
\* a reading past the limit.
Timed ==
  /\ minutesElapsed <= Rounded(elapsed)
  /\ pc \in {"finalize", "done"} => RuntimeInMinutes = 0 \/ LimitReached(minutesElapsed)

LEMMA TimedStep ==
  ASSUME TypeOK, Position, Timed, [Next]_vars
  PROVE  Timed'
<1>1. elapsed \in Nat /\ minutesElapsed \in Nat
  BY Constants DEF TypeOK
<1>2. CASE Visit \/ Add
  BY <1>2 DEF Visit, StartsRoutine, EndsKind, Add, Timed
<1>3. CASE Quietly
  <2> USE <1>1 DEF mainVars, Timed, LimitReached, Rounded
  <2>1. CASE BeginOperation \/ Wait \/ BlockOnPods \/ EndOperation \/ EndRound
    BY <2>1 DEF BeginOperation, Wait, BlockOnPods, EndOperation, EndRound
  <2>2. CASE CheckRuntime
    BY <2>2 DEF CheckRuntime
  <2>3. CASE LoopOrFinalize \/ Finalize
    BY <2>3 DEF LoopOrFinalize, Finalize
  <2> QED
    BY <1>3, <2>1, <2>2, <2>3 DEF Quietly
<1>4. ASSUME NEW g \in Routines, GoroutineStep(g)
      PROVE  Timed'
  BY <1>4 DEF GoroutineStep, Works, Panics, Done, Timed
<1>5. CASE Tick
  <2>1. Rounded(elapsed) <= Rounded(elapsed + 1)
    BY <1>1 DEF Rounded
  <2> QED
    BY <1>1, <1>5, <2>1 DEF Tick, mainVars, Timed, Rounded
<1>6. CASE UNCHANGED vars
  BY <1>6 DEF vars, mainVars, Timed
<1> QED
  BY <1>2, <1>3, <1>4, <1>5, <1>6, NextCases

\* A run with a time limit is not finalized before it, for every limit, although the
\* clock is only read between operations and rounded.
THEOREM RunLastsItsTime == Spec => []RunsLongEnough
<1>1. Init => Timed
  BY DEF Init, Timed, Rounded
<1>2. IInv /\ Timed /\ [Next]_vars => Timed'
  BY TimedStep DEF IInv
<1>3. IInv /\ Timed => RunsLongEnough
  BY Constants DEF IInv, TypeOK, Timed, LimitReached, Rounded, RunsLongEnough
<1> QED
  BY <1>1, <1>2, <1>3, Invariance, PTL DEF Spec

-----------------------------------------------------------------------------
(* No goroutine is left out *)

\* The resource of that kind in the operation has a goroutine t.
Wanted(oid, kind, t) ==
  LET c == NormalizedOps[(oid % N) + 1].resources[kind] IN
  c.actions # << >> /\ t \in 0 .. c.count - 1

\* The loops of main are past the place that starts the goroutine.
Behind(oid, kind, t) ==
  \/ oid < Oid
  \/ oid = Oid /\ pc \in {"check", "block", "next"}
  \/ /\ oid = Oid /\ pc \in {"go", "add"}
     /\ \E k \in 1 .. 8 :
          /\ KindOrder[k] = kind
          /\ k < kindIdx \/ (k = kindIdx /\ (t < tid \/ (pc = "add" /\ t = tid)))

\* A round begins at a multiple of N, and ends with all operations done unless the
\* time was over.
Rounds ==
  /\ \E q \in Nat : startIdx = q * N
  /\ pc = "loop" => idx = N \/ (RuntimeInMinutes # 0 /\ LimitReached(minutesElapsed))

AllStarted ==
  \A oid \in 0 .. MaxOid, kind \in Kinds, t \in 0 .. MaxCount :
    Behind(oid, kind, t) /\ Wanted(oid, kind, t) => status[<<oid, kind, t>>] # "unborn"

LEMMA Remainder ==
  ASSUME NEW n \in Nat, NEW q \in Nat, NEW i \in Nat, i < n
  PROVE  (q * n + i) % n = i
<1> DEFINE a == q * n + i
           d == a \div n
           r == a % n
<1>1. q * n \in Nat /\ a \in Nat
  OBVIOUS
<1> HIDE DEF a
<1>2. d \in Int /\ r \in Int /\ 0 <= r /\ r < n /\ a = n * d + r
  BY <1>1, Z3
<1> HIDE DEF d, r
<1>3. q * n + i = n * d + r
  BY <1>2 DEF a
<1>4. (q - d) * n = r - i
  BY <1>2, <1>3
<1> DEFINE e == q - d
<1>5. e \in Int /\ e * n = r - i
  BY <1>2, <1>4
<1> HIDE DEF e
<1>6. e >= 1 => e * n >= n
  BY <1>5
<1>7. e <= -1 => e * n <= -n
  BY <1>5
<1>8. e = 0
  BY <1>2, <1>5, <1>6, <1>7
<1>9. r = i
  BY <1>2, <1>5, <1>8
<1> QED
  BY <1>9 DEF r, a

LEMMA CurrentOp ==
  ASSUME TypeOK, Rounds, idx < N
  PROVE  Oid % N = idx
<1>1. PICK q \in Nat : startIdx = q * N
  BY DEF Rounds
<1>2. N \in Nat /\ idx \in Nat
  BY Constants DEF TypeOK
<1>3. (q * N + idx) % N = idx
  BY <1>2, Remainder
<1> QED
  BY <1>1, <1>3 DEF Oid

LEMMA RoundsStep ==
  ASSUME TypeOK, Position, Rounds, [Next]_vars
  PROVE  Rounds'
<1>1. CASE Visit \/ Add
  BY <1>1 DEF Visit, StartsRoutine, EndsKind, Add, Rounds
<1>2. CASE Quietly
  <2> USE DEF Rounds, mainVars
  <2>1. CASE BeginOperation \/ Wait \/ BlockOnPods \/ EndOperation \/ EndRound \/ Finalize
    BY <2>1 DEF BeginOperation, Wait, BlockOnPods, EndOperation, EndRound, Finalize
  <2>2. CASE CheckRuntime
    BY <2>2 DEF CheckRuntime
  <2>3. CASE LoopOrFinalize
    <3>1. PICK q \in Nat : startIdx = q * N
      OBVIOUS
    <3>2. q * N + N = (q + 1) * N
      BY Constants
    <3>3. \E p \in Nat : startIdx' = p * N
      BY <2>3, <3>1, <3>2 DEF LoopOrFinalize, NextStart
    <3> QED
      BY <2>3, <3>3 DEF LoopOrFinalize
  <2> QED
    BY <1>2, <2>1, <2>2, <2>3 DEF Quietly
<1>3. ASSUME NEW g \in Routines, GoroutineStep(g)
      PROVE  Rounds'
  BY <1>3 DEF GoroutineStep, Works, Panics, Done, Rounds
<1>4. CASE Tick \/ UNCHANGED vars
  BY <1>4 DEF Tick, vars, mainVars, Rounds
<1> QED
  BY <1>1, <1>2, <1>3, <1>4, NextCases

\* What is behind main after a step was so before it, or was just started, or was
\* not wanted.
LEMMA AllStartedStep ==
  ASSUME TypeOK, Position, Passed, Rounds, AllStarted, [Next]_vars
  PROVE  AllStarted'
<1>0. \A oid, t : \A kind \in Kinds : <<oid, kind, t>> \in Routines
         <=> oid \in 0 .. MaxOid /\ t \in 0 .. MaxCount
  BY DEF Routines
<1>k. /\ kindIdx \in 1 .. 9 /\ tid \in Nat /\ Oid \in Nat
  BY EightKinds, Constants DEF TypeOK, Oid
<1>s. ASSUME status' = status \/ \E g \in Routines : GoroutineStep(g)
      PROVE  \A g \in Routines : status[g] # "unborn" => status'[g] # "unborn"
  BY <1>s DEF GoroutineStep, Works, Panics, Done, TypeOK
<1>r. ASSUME \A oid \in 0 .. MaxOid, kind \in Kinds, t \in 0 .. MaxCount :
                Behind(oid, kind, t)' /\ Wanted(oid, kind, t) => Behind(oid, kind, t),
             status' = status \/ \E g \in Routines : GoroutineStep(g)
      PROVE  AllStarted'
  <2> SUFFICES ASSUME NEW oid \in 0 .. MaxOid, NEW kind \in Kinds, NEW t \in 0 .. MaxCount,
                      Behind(oid, kind, t)', Wanted(oid, kind, t)
               PROVE  status'[<<oid, kind, t>>] # "unborn"
    BY DEF AllStarted, Wanted
  <2>1. status[<<oid, kind, t>>] # "unborn"
    BY <1>r DEF AllStarted
  <2> QED
    BY <1>0, <1>s, <1>r, <2>1
<1>1. CASE Visit
  <2>0. /\ pc = "go" /\ kindIdx \in 1 .. 8 /\ Oid' = Oid /\ idx < N
        /\ Oid % N = idx /\ KindOrder[kindIdx] \in Kinds
    BY <1>1, <1>k, EightKinds, CurrentOp DEF Visit, Position, Oid
  <2>w. ASSUME NEW t, Wanted(Oid, KindOrder[kindIdx], t)
        PROVE  HasActions(KindOrder[kindIdx]) /\ t \in 0 .. Config(KindOrder[kindIdx]).count - 1
    BY <2>0, <2>w DEF Wanted, Config, HasActions
  <2>1. CASE StartsRoutine
    <3> DEFINE s == <<Oid, KindOrder[kindIdx], tid>>
    <3>1. s \in Routines /\ status' = [status EXCEPT ![s] = "live"]
      BY <1>1, <2>1, StartedRoutine DEF Visit, StartsRoutine
    <3>2. pc' = "add" /\ kindIdx' = kindIdx /\ tid' = tid
      BY <2>1 DEF StartsRoutine
    <3> HIDE DEF s
    <3>3. \A g \in Routines : (g = s \/ status[g] # "unborn") => status'[g] # "unborn"
      BY <3>1 DEF TypeOK
    <3> SUFFICES ASSUME NEW oid \in 0 .. MaxOid, NEW kind \in Kinds, NEW t \in 0 .. MaxCount,
                        Behind(oid, kind, t)', Wanted(oid, kind, t)
                 PROVE  <<oid, kind, t>> = s \/ status[<<oid, kind, t>>] # "unborn"
      BY <1>0, <3>3 DEF AllStarted, Wanted
    <3>4. Behind(oid, kind, t) \/ (oid = Oid /\ kind = KindOrder[kindIdx] /\ t = tid)
      BY <2>0, <3>2 DEF Behind
    <3> QED
      BY <3>4 DEF s, AllStarted
  <2>2. CASE EndsKind
    <3>1. pc' = pc /\ kindIdx' = kindIdx + 1 /\ tid' = 0 /\ status' = status
      BY <2>2 DEF EndsKind
    <3>2. ASSUME NEW oid \in 0 .. MaxOid, NEW kind \in Kinds, NEW t \in 0 .. MaxCount,
                 Behind(oid, kind, t)', Wanted(oid, kind, t)
          PROVE  Behind(oid, kind, t)
      <4>1. CASE oid < Oid
        BY <4>1 DEF Behind
      <4>2. CASE ~(oid < Oid)
        <5>1. oid = Oid
          BY <2>0, <3>1, <3>2, <4>2 DEF Behind
        <5>2. PICK k \in 1 .. 8 : KindOrder[k] = kind /\ (k < kindIdx \/ k = kindIdx)
          BY <1>k, <2>0, <3>1, <3>2, <4>2 DEF Behind
        <5>3. CASE k < kindIdx
          BY <2>0, <5>1, <5>2, <5>3 DEF Behind
        <5>4. CASE k = kindIdx
          <6>1. Config(KindOrder[kindIdx]).count \in Int
            <7>1. idx + 1 \in 1 .. N
              BY <2>0, Constants DEF TypeOK
            <7> QED
              BY <2>0, <7>1, ConfigType DEF Config
          <6>2. t < tid
            BY <1>k, <2>2, <2>w, <3>2, <5>1, <5>2, <5>4, <6>1 DEF EndsKind
          <6> QED
            BY <2>0, <5>1, <5>2, <5>4, <6>2 DEF Behind
        <5> QED
          BY <5>2, <5>3, <5>4
      <4> QED
        BY <4>1, <4>2
    <3> QED
      BY <1>r, <3>1, <3>2
  <2> QED
    BY <1>1, <2>1, <2>2 DEF Visit
<1>2. CASE Add
  <2>1. /\ pc = "add" /\ pc' = "go" /\ tid' = tid + 1 /\ kindIdx' = kindIdx
        /\ Oid' = Oid /\ status' = status
    BY <1>2 DEF Add, Oid
  <2>2. \A oid \in 0 .. MaxOid, kind \in Kinds, t \in 0 .. MaxCount :
          Behind(oid, kind, t)' => Behind(oid, kind, t)
    BY <1>k, <2>1 DEF Behind
  <2> QED
    BY <1>r, <2>1, <2>2
<1>3. CASE Quietly
  <2>0. status' = status
    BY <1>3 DEF Quietly, BeginOperation, Wait, BlockOnPods, EndRound, Finalize,
                CheckRuntime, EndOperation, LoopOrFinalize
  <2>b. ASSUME NEW oid \in 0 .. MaxOid, NEW kind \in Kinds, NEW t \in 0 .. MaxCount,
               Behind(oid, kind, t)'
        PROVE  Behind(oid, kind, t)
    <3>1. CASE BeginOperation
      <4>1. Oid' = Oid /\ pc' = "go" /\ kindIdx' = 1 /\ tid' = 0
        BY <3>1 DEF BeginOperation, Oid
      <4> QED
        BY <2>b, <4>1 DEF Behind
    <3>2. CASE Wait
      <4>1. Oid' = Oid /\ pc = "go" /\ kindIdx = 9
        BY <1>k, <3>2, EightKinds DEF Wait, mainVars, Oid
      <4>2. PICK k \in 1 .. 8 : KindOrder[k] = kind
        BY EightKinds
      <4> QED
        BY <2>b, <3>2, <4>1, <4>2 DEF Wait, Behind
    <3>3. CASE CheckRuntime \/ BlockOnPods
      <4>1. Oid' = Oid /\ pc \in {"check", "block"} /\ pc' \in {"block", "next", "loop"}
        BY <3>3 DEF CheckRuntime, BlockOnPods, mainVars, Oid
      <4> QED
        BY <2>b, <4>1 DEF Behind
    <3>4. CASE EndOperation
      <4>1. Oid' = Oid + 1 /\ pc = "next" /\ pc' = "op"
        BY <3>4 DEF EndOperation, Oid, TypeOK
      <4> QED
        BY <2>b, <1>k, <4>1 DEF Behind
    <3>5. CASE EndRound \/ Finalize \/ LoopOrFinalize
      <4>1. Oid' = Oid
        <5>1. CASE EndRound \/ Finalize
          BY <5>1 DEF EndRound, Finalize, mainVars, Oid
        <5>2. CASE LoopOrFinalize
          <6>1. startIdx \in Nat /\ idx \in Nat /\ N \in Nat
            BY Constants DEF TypeOK
          <6>2. \/ startIdx' = startIdx /\ idx' = idx
                \/ startIdx' = startIdx + N /\ idx' = 0 /\ idx = N
            BY <5>2 DEF LoopOrFinalize, NextStart, Rounds
          <6> QED
            BY <6>1, <6>2 DEF Oid
        <5> QED
          BY <3>5, <5>1, <5>2
      <4>2. pc' \in {"loop", "done", "finalize", "op"}
        BY <3>5 DEF EndRound, Finalize, LoopOrFinalize
      <4> QED
        BY <2>b, <4>1, <4>2 DEF Behind
    <3> QED
      BY <1>3, <3>1, <3>2, <3>3, <3>4, <3>5 DEF Quietly
  <2> QED
    BY <1>r, <2>0, <2>b
<1>4. ASSUME NEW g \in Routines, GoroutineStep(g)
      PROVE  AllStarted'
  <2>1. /\ UNCHANGED <<kindIdx, tid>> /\ Oid' = Oid
        /\ pc' = pc \/ pc' = "panic"
    BY <1>4 DEF GoroutineStep, Works, Panics, Done, Oid
  <2>2. \A oid \in 0 .. MaxOid, kind \in Kinds, t \in 0 .. MaxCount :
          Behind(oid, kind, t)' => Behind(oid, kind, t)
    BY <2>1 DEF Behind
  <2> QED
    BY <1>4, <1>r, <2>2
<1>5. CASE Tick \/ UNCHANGED vars
  <2>1. UNCHANGED <<pc, kindIdx, tid, status>> /\ Oid' = Oid
    BY <1>5 DEF Tick, vars, mainVars, Oid
  <2> QED
    BY <1>r, <2>1 DEF Behind
<1> QED
  BY <1>1, <1>2, <1>3, <1>4, <1>5, NextCases

\* Between operations every goroutine that the earlier ones ask for has run, for every
\* configuration and any number of rounds.
THEOREM NoRoutineLeftOut == Spec => []AllRoutinesRan
<1>1. Init => Rounds /\ AllStarted
  <2> SUFFICES ASSUME Init PROVE Rounds /\ AllStarted
    OBVIOUS
  <2>1. startIdx = 0 * N /\ 0 \in Nat
    BY Constants DEF Init
  <2> QED
    BY <2>1 DEF Init, Rounds, AllStarted, Behind, Oid
<1>2. IInv /\ Rounds /\ AllStarted /\ [Next]_vars => Rounds' /\ AllStarted'
  BY RoundsStep, AllStartedStep DEF IInv
<1>3. IInv /\ Rounds /\ AllStarted => AllRoutinesRan
  <2> SUFFICES ASSUME IInv, Rounds, AllStarted, pc = "op",
                      NEW oid \in 0 .. Oid - 1, NEW kind \in Kinds,
                      NormalizedOps[(oid % N) + 1].resources[kind].actions # << >>,
                      NEW t \in 0 .. NormalizedOps[(oid % N) + 1].resources[kind].count - 1
               PROVE  <<oid, kind, t>> \in Ended
    BY DEF AllRoutinesRan
  <2>1. oid \in 0 .. MaxOid /\ oid < Oid /\ N > 0
    <3>1. /\ startIdx \in Nat /\ idx \in 0 .. N /\ N \in Nat
          /\ Oid <= MaxOid /\ Oid \in Nat /\ MaxOid \in Nat
      BY Constants DEF IInv, TypeOK, Oid
    <3>2. N = 0 => Oid = 0
      <4>1. PICK q \in Nat : startIdx = q * N
        BY DEF Rounds
      <4>2. q * 0 = 0
        OBVIOUS
      <4> QED
        BY <3>1, <4>1, <4>2 DEF Oid
    <3> QED
      BY <3>1, <3>2
  <2>2. t \in 0 .. MaxCount
    <3> DEFINE i == (oid % N) + 1
               n == NormalizedOps[i].resources[kind].count
    <3>1. i \in 1 .. N
      BY <2>1, Constants
    <3> HIDE DEF i
    <3>2. n \in Int /\ n <= MaxCount
      BY <3>1, ConfigType
    <3>3. t \in 0 .. n - 1
      BY DEF i
    <3> HIDE DEF n
    <3> QED
      BY <3>2, <3>3, Constants
  <2>3. <<oid, kind, t>> \in Routines /\ status[<<oid, kind, t>>] # "unborn"
    BY <2>1, <2>2 DEF AllStarted, Behind, Wanted, Routines
  <2>4. <<oid, kind, t>> \notin Live
    BY DEF IInv, Barrier
  <2> QED
    BY <2>3, <2>4 DEF IInv, TypeOK, Live, Ended
<1> QED
  BY <1>1, <1>2, <1>3, Invariance, PTL DEF Spec

-----------------------------------------------------------------------------
(* The driver implements the abstract sequence of operations *)

LEMMA SameEnded ==
  ASSUME status' = status
  PROVE  Ended' = Ended
BY DEF Ended

LEMMA StepsMap ==
  ASSUME IInv, [Next]_vars
  PROVE  [Sequence!Next]_(Sequence!vars)
<1> USE DEF IInv
<1> DEFINE Stutter == UNCHANGED <<Oid, Live, Ended>>
<1>s. Stutter => UNCHANGED Sequence!vars
  BY DEF Sequence!vars
<1>1. CASE Visit
  <2>1. CASE StartsRoutine
    <3> DEFINE s == <<Oid, KindOrder[kindIdx], tid>>
    <3>1. s \in Routines /\ status[s] = "unborn" /\ status' = [status EXCEPT ![s] = "live"]
      BY <1>1, <2>1, StartsFresh, StartedRoutine DEF Visit, StartsRoutine
    <3>2. s[1] = Oid /\ Oid' = Oid
      BY <1>1, <2>1 DEF Visit, Oid
    <3> HIDE DEF s
    <3>3. Live' = Live \cup {s} /\ Ended' = Ended /\ s \notin Live \cup Ended
      BY <3>1 DEF Live, Ended, TypeOK
    <3>4. Sequence!Start(s)
      BY <3>2, <3>3 DEF Sequence!Start
    <3> QED
      BY <3>1, <3>4 DEF Sequence!Next
  <2>2. CASE EndsKind
    BY <1>1, <2>2, <1>s, SameLive, SameEnded DEF Visit, EndsKind, Oid
  <2> QED
    BY <1>1, <2>1, <2>2 DEF Visit
<1>2. CASE Add
  BY <1>2, <1>s, SameLive, SameEnded DEF Add, Oid
<1>3. CASE Quietly
  <2>0. Live' = Live /\ Ended' = Ended
    BY <1>3, SameLive, SameEnded
       DEF Quietly, BeginOperation, Wait, EndRound, Finalize, BlockOnPods, CheckRuntime,
           EndOperation, LoopOrFinalize
  <2>1. CASE EndOperation \/ LoopOrFinalize
    <3>1. Live = {}
      BY <2>1 DEF EndOperation, LoopOrFinalize, Barrier
    <3>2. Oid' = Oid \/ Oid' > Oid
      <4> idx \in 0 .. N /\ startIdx \in Nat /\ N \in Nat
        BY Constants DEF TypeOK
      <4>1. CASE EndOperation
        BY <4>1 DEF EndOperation, Oid
      <4>2. CASE LoopOrFinalize
        <5>1. \/ startIdx' = startIdx /\ idx' = idx
              \/ startIdx' = startIdx + N /\ idx' = 0
          BY <4>2 DEF LoopOrFinalize, NextStart
        <5> QED
          BY <5>1 DEF Oid
      <4> QED
        BY <2>1, <4>1, <4>2
    <3> QED
      BY <1>s, <2>0, <3>1, <3>2 DEF Sequence!Next, Sequence!Advance
  <2>2. CASE ~(EndOperation \/ LoopOrFinalize)
    BY <1>3, <1>s, <2>0, <2>2
       DEF Quietly, BeginOperation, Wait, EndRound, Finalize, BlockOnPods, CheckRuntime, Oid,
           mainVars
  <2> QED
    BY <2>1, <2>2
<1>4. ASSUME NEW g \in Routines, GoroutineStep(g)
      PROVE  [Sequence!Next]_(Sequence!vars)
  <2>0. Oid' = Oid
    BY <1>4 DEF GoroutineStep, Oid
  <2>1. CASE Works(g) \/ Panics
    BY <2>0, <2>1, <1>s, SameLive, SameEnded DEF Works, Panics
  <2>2. CASE Done(g)
    <3>1. Live' = Live \ {g} /\ g \in Live /\ Ended' = Ended \cup {g}
      BY <1>4, <2>2 DEF GoroutineStep, Done, Live, Ended, TypeOK
    <3> QED
      BY <2>0, <3>1 DEF Sequence!Next, Sequence!Finish
  <2> QED
    BY <1>4, <2>1, <2>2 DEF GoroutineStep
<1>5. CASE Tick \/ UNCHANGED vars
  BY <1>5, <1>s, SameLive, SameEnded DEF Tick, vars, mainVars, Oid
<1> QED
  BY <1>1, <1>2, <1>3, <1>4, <1>5, NextCases

\* Operations run one by one and no goroutine name is used twice: every behaviour of
\* the driver is one of OperationSequence, for every configuration.
THEOREM OperationsInSequence == Spec => OperationsOneByOne
<1>1. Init => Sequence!Init
  BY DEF Init, Sequence!Init, Oid, Live, Ended
<1>2. IInv /\ [Next]_vars => [Sequence!Next]_(Sequence!vars)
  BY StepsMap
<1> QED
  BY <1>1, <1>2, Invariance, PTL DEF Spec, OperationsOneByOne, Sequence!Spec

-----------------------------------------------------------------------------
(* The operations that are run, and the clients they need *)

\* The normalized operations are operations of the configuration, whatever the
\* repeat times: Run schedules nothing that was not configured.
THEOREM NormalizedAreConfigured ==
  ASSUME NEW ops \in Seq(WcpOp), NEW repeat \in [1 .. Len(ops) -> Nat]
  PROVE  LET ns == NormalizeOps(ops, repeat) IN
         ns \in Seq(WcpOp) /\ \A i \in 1 .. Len(ns) : \E j \in 1 .. Len(ops) : ns[i] = ops[j]
<1> DEFINE L == Len(ops)
           Copies(i) == [j \in 1 .. repeat[i] + 1 |-> ops[i]]
           Defines(f, n) == f = [i \in 0 .. n |-> IF i = 0 THEN << >> ELSE f[i - 1] \o Copies(i)]
           Upto == CHOOSE f : Defines(f, L)
<1>0. L \in Nat
  OBVIOUS
<1>1. \E f : Defines(f, 0)
  <2>1. Defines([i \in 0 .. 0 |-> << >>], 0)
    OBVIOUS
  <2> QED
    BY <2>1
<1>2. ASSUME NEW n \in 1 .. L, NEW f, Defines(f, n - 1)
      PROVE  \E g : Defines(g, n)
  <2> DEFINE g == [i \in 0 .. n |-> IF i = n THEN f[n - 1] \o Copies(n) ELSE f[i]]
  <2>1. \A i \in 0 .. n : g[i] = IF i = n THEN f[n - 1] \o Copies(n) ELSE f[i]
    OBVIOUS
  <2> HIDE DEF Copies
  <2>2. \A i \in 0 .. n - 1 : f[i] = IF i = 0 THEN << >> ELSE f[i - 1] \o Copies(i)
    BY <1>2
  <2>3. \A i \in 0 .. n : g[i] = IF i = 0 THEN << >> ELSE g[i - 1] \o Copies(i)
    BY <2>1, <2>2, <1>0
  <2>4. Defines(g, n)
    BY <2>3
  <2> QED
    BY <2>4
<1> HIDE DEF Defines, L
<1>3. \E f : Defines(f, L)
  <2> DEFINE G == {n \in 0 .. L : \E f : Defines(f, n)}
  <2>1. 0 \in G /\ \A n \in 1 .. L : n - 1 \in G => n \in G
    BY <1>0, <1>1, <1>2
  <2> HIDE DEF G
  <2>2. \A n \in 0 .. L : n \in G
    BY <1>0, <2>1, InductionTo
  <2> QED
    BY <1>0, <2>2 DEF G
<1>4. Defines(Upto, L)
  BY <1>3
<1> HIDE DEF Copies
<1>5. NormalizeOps(ops, repeat) = Upto[L]
  BY DEF NormalizeOps, Copies, Defines, L
<1> HIDE DEF Upto
<1>6. /\ Upto[0] = << >>
      /\ \A n \in 1 .. L : Upto[n] = Upto[n - 1] \o Copies(n)
  <2>1. Upto = [i \in 0 .. L |-> IF i = 0 THEN << >> ELSE Upto[i - 1] \o Copies(i)]
    BY <1>4 DEF Defines
  <2>2. ASSUME NEW n \in 0 .. L
        PROVE  Upto[n] = IF n = 0 THEN << >> ELSE Upto[n - 1] \o Copies(n)
    BY <2>1
  <2>3. Upto[0] = << >>
    BY <1>0, <2>2
  <2>4. ASSUME NEW n \in 1 .. L PROVE Upto[n] = Upto[n - 1] \o Copies(n)
    <3>1. n \in 0 .. L /\ n # 0
      BY <1>0
    <3> QED
      BY <2>2, <3>1
  <2> QED
    BY <2>3, <2>4
<1> DEFINE From == {ops[j] : j \in 1 .. L}
<1>7. \A n \in 1 .. L : Copies(n) \in Seq(From)
  BY DEF Copies, L
<1>8. Upto[L] \in Seq(From)
  <2> DEFINE G == {n \in 0 .. L : Upto[n] \in Seq(From)}
  <2> HIDE DEF From
  <2>1. 0 \in G
    <3>1. << >> \in Seq(From)
      OBVIOUS
    <3>2. Upto[0] \in Seq(From)
      BY <1>6, <3>1, Zenon
    <3> QED
      BY <1>0, <3>2
  <2>2. \A s, t \in Seq(From) : s \o t \in Seq(From)
    OBVIOUS
  <2>3. ASSUME NEW n \in 1 .. L, n - 1 \in G PROVE n \in G
    <3>1. Upto[n - 1] \in Seq(From) /\ Copies(n) \in Seq(From)
      BY <1>7, <2>3, Zenon
    <3>2. Upto[n - 1] \o Copies(n) \in Seq(From)
      BY <2>2, <3>1, Zenon
    <3>3. Upto[n] \in Seq(From)
      BY <1>6, <3>2, Zenon
    <3> QED
      BY <1>0, <3>3
  <2> HIDE DEF G
  <2>4. \A n \in 0 .. L : n \in G
    BY <1>0, <2>1, <2>3, InductionTo
  <2> QED
    BY <1>0, <2>4 DEF G
<1>9. From \subseteq WcpOp
  BY DEF L
<1>10. \A ns \in Seq(From) : /\ ns \in Seq(WcpOp)
                              /\ \A i \in 1 .. Len(ns) : \E j \in 1 .. L : ns[i] = ops[j]
  BY <1>9
<1> QED
  BY <1>5, <1>8, <1>10 DEF L

LEMMA DivMod ==
  ASSUME NEW a \in Nat, NEW n \in Nat \ {0}
  PROVE  /\ a \div n \in Int /\ a % n \in 0 .. n - 1
         /\ a = n * (a \div n) + (a % n)
BY Z3

\* So many clients, each serving r goroutines, are enough for count.
LEMMA ClientsForEnough ==
  ASSUME NEW count \in Nat \ {0}, NEW r \in Nat \ {0}, NEW c \in Nat,
         ClientsFor(count, r) <= c
  PROVE  count <= c * r /\ c > 0
<1> DEFINE q == (count - 1) \div r
           m == (count - 1) % r
<1>1. q \in Int /\ m \in 0 .. r - 1 /\ count - 1 = r * q + m
  BY DivMod
<1>2. q + 1 <= c
  BY DEF ClientsFor
<1> HIDE DEF q, m
<1>3. q >= 0
  <2>1. q <= -1 => r * q <= -r
    BY <1>1
  <2> QED
    BY <1>1, <2>1
<1>4. r * (q + 1) <= r * c
  BY <1>1, <1>2, <1>3
<1>5. r * (q + 1) = r * q + r
  BY <1>1
<1>6. r * c = c * r
  BY <1>1
<1> QED
  BY <1>1, <1>2, <1>3, <1>4, <1>5, <1>6

\* Of n numbers, which c clients take in turn, none gets more than its share.
LEMMA Sharing ==
  ASSUME NEW c \in Nat \ {0}, NEW r \in Nat, NEW n \in Nat, n <= c * r, NEW s
  PROVE  LET T == {t \in 0 .. n - 1 : t % c = s}
         IN  IsFiniteSet(T) /\ Cardinality(T) <= r
<1> DEFINE T == {t \in 0 .. n - 1 : t % c = s}
           f == [t \in T |-> t \div c]
<1>1. ASSUME NEW t \in T PROVE f[t] \in 0 .. r - 1
  <2> DEFINE q == t \div c
             m == t % c
  <2>1. q \in Int /\ m \in 0 .. c - 1 /\ t = c * q + m /\ f[t] = q
    BY DivMod
  <2>2. t \in Nat /\ t < n
    OBVIOUS
  <2> HIDE DEF q, m, f, T
  <2>3. q <= -1 => c * q <= -c
    BY <2>1
  <2>4. q >= r => c * q >= c * r
    BY <2>1
  <2> QED
    BY <2>1, <2>2, <2>3, <2>4
<1>2. ASSUME NEW t \in T, NEW u \in T, f[t] = f[u] PROVE t = u
  <2>1. t = c * (t \div c) + (t % c) /\ u = c * (u \div c) + (u % c)
    BY DivMod
  <2> QED
    BY <1>2, <2>1
<1> HIDE DEF f, T
<1>3. f \in Injection(T, 0 .. r - 1)
  <2>1. f \in [T -> 0 .. r - 1]
    BY <1>1 DEF f
  <2> QED
    BY <2>1, <1>2 DEF Injection, IsInjective
<1>4. IsFiniteSet(0 .. r - 1) /\ Cardinality(0 .. r - 1) = r
  BY FS_Interval
<1> QED
  BY <1>3, <1>4, FS_Injection DEF T

LEMMA KindsFinite == IsFiniteSet(Kinds)
<1> DEFINE f == [k \in 1 .. 8 |-> KindOrder[k]]
<1>1. f \in Surjection(1 .. 8, Kinds)
  BY EightKinds DEF Surjection
<1> HIDE DEF f
<1>2. 1 \in Int /\ 8 \in Int
  OBVIOUS
<1>3. \A a, b \in Int : IsFiniteSet(a .. b)
  BY FS_Interval
<1>4. IsFiniteSet(1 .. 8)
  BY <1>2, <1>3
<1> QED
  BY <1>1, <1>4, FS_Surjection

\* Each manager gets the clients its largest Count needs.
LEMMA MaxClientsEnough ==
  ASSUME NEW ops \in Seq(WcpOp), NEW r \in Nat \ {0},
         NEW i \in 1 .. Len(ops), NEW kind \in Kinds, ops[i].resources[kind].count > 0
  PROVE  ClientsFor(ops[i].resources[kind].count, r) <= MaxClients(ops, r, ManagerOf(kind))
<1> DEFINE mgr == ManagerOf(kind)
           served == {k \in Kinds : ManagerOf(k) = mgr}
           counts == {ops[j].resources[k].count : j \in DOMAIN ops, k \in served}
           positive == {c \in counts : c > 0}
           needed == {ClientsFor(c, r) : c \in positive}
<1>1. MaxClients(ops, r, mgr) =
        IF needed = {} THEN 0 ELSE CHOOSE m \in needed : \A n \in needed : n <= m
  BY DEF MaxClients
<1>2. counts \in SUBSET Int
  <2>1. ASSUME NEW j \in 1 .. Len(ops), NEW k \in Kinds
        PROVE  ops[j].resources[k].count \in Int
    <3> HIDE DEF counts, positive, needed, served, mgr
    <3>1. ops[j] \in WcpOp
      OBVIOUS
    <3> QED
      BY <3>1 DEF WcpOp, ResourceConfig
  <2> QED
    BY <2>1
<1>3. ops[i].resources[kind].count \in positive
  BY <1>2
<1>4. IsFiniteSet(counts)
  <2> DEFINE All == (1 .. Len(ops)) \X served
             f == [p \in All |-> ops[p[1]].resources[p[2]].count]
  <2>1. IsFiniteSet(1 .. Len(ops)) /\ IsFiniteSet(served)
    BY FS_Interval, FS_Subset, KindsFinite
  <2>2. IsFiniteSet(All)
    BY <2>1, FS_Product
  <2>3. f \in Surjection(All, counts)
    <3>1. \A p \in All : f[p] \in counts
      OBVIOUS
    <3>2. ASSUME NEW c \in counts PROVE \E p \in All : f[p] = c
      <4>1. PICK j \in 1 .. Len(ops), k \in served : c = ops[j].resources[k].count
        OBVIOUS
      <4>2. <<j, k>> \in All /\ f[<<j, k>>] = c
        BY <4>1
      <4> QED
        BY <4>2
    <3>3. f \in [All -> counts]
      BY <3>1
    <3> HIDE DEF All, f, counts
    <3> QED
      BY <3>2, <3>3 DEF Surjection
  <2> HIDE DEF All, f
  <2> QED
    BY <2>2, <2>3, FS_Surjection
<1> HIDE DEF counts
<1>5. IsFiniteSet(positive) /\ positive \in SUBSET Int
  BY <1>2, <1>4, FS_Subset
<1> HIDE DEF positive
<1>6. IsFiniteSet(needed) /\ needed \in SUBSET Int
  <2> DEFINE f == [c \in positive |-> ClientsFor(c, r)]
  <2>1. f \in Surjection(positive, needed)
    BY DEF Surjection
  <2>2. \A c \in Int : ClientsFor(c, r) \in Int
    BY DEF ClientsFor
  <2>3. needed \in SUBSET Int
    BY <1>5, <2>2
  <2> HIDE DEF f, needed
  <2> QED
    BY <1>5, <2>1, <2>3, FS_Surjection
<1>7. ClientsFor(ops[i].resources[kind].count, r) \in needed
  BY <1>3
<1> HIDE DEF needed
<1>8. \E m \in needed : \A n \in needed : n <= m
  BY <1>6, <1>7, LargestOf
<1> QED
  BY <1>1, <1>7, <1>8

\* The configuration from which Run made the operations and the clients.
ConfiguredBy(ops, repeat) ==
  /\ ops \in Seq(WcpOp) /\ repeat \in [1 .. Len(ops) -> Nat]
  /\ NormalizedOps = NormalizeOps(ops, repeat)
  /\ Clients = [m \in ManagerNames |-> MaxClients(ops, RoutinesPerClient, m)]

\* A manager has no clients or all of them; a running goroutine belongs to the current
\* operation, is one of its Count, and its manager has been initialised.
Served ==
  /\ \A m \in ManagerNames : clients[m] \in {-1, Clients[m]}
  /\ \A g \in Live :
       /\ g[1] = Oid /\ idx < N
       /\ g[3] < Config(g[2]).count
       /\ clients[ManagerOf(g[2])] = Clients[ManagerOf(g[2])]

\* What Visit leaves open: the clients after a step of checkAndRun*.
LEMMA VisitClients ==
  ASSUME TypeOK, Served, CheckAndRunAny
  PROVE  LET mgr == ManagerOf(KindOrder[kindIdx]) IN
         /\ clients' = clients \/ clients' = [clients EXCEPT ![mgr] = Clients[mgr]]
         /\ \A m \in ManagerNames : clients'[m] \in {clients[m], Clients[m]}
         /\ StartsRoutine => clients'[mgr] = Clients[mgr]
<1> DEFINE kind == KindOrder[kindIdx]
           mgr == ManagerOf(kind)
<1> USE DEF CheckAndRunAny, checkAndRunPod, checkAndRunDeployment, checkAndRunStatefulSet,
            checkAndRunNamespace, checkAndRunService, checkAndRunRc, checkAndRunResource
<1>1. pc = "go" /\ kindIdx <= Len(KindOrder)
  BY DEF CheckAndRun
<1>2. mgr \in ManagerNames
  BY <1>1, EightKinds DEF ManagerNames, TypeOK
<1>3. clients' = clients \/ clients' = [clients EXCEPT ![mgr] = Clients[mgr]]
  BY DEF CheckAndRun
<1>4. ASSUME StartsRoutine PROVE clients'[mgr] = Clients[mgr]
  <2>1. pc' # pc
    BY <1>1, <1>4 DEF StartsRoutine
  <2>2. ASSUME NEW kinds, NEW wanted, CheckAndRun(kinds, wanted)
        PROVE  clients' = IF clients[mgr] = -1 THEN [clients EXCEPT ![mgr] = Clients[mgr]] ELSE clients
    BY <2>1, <2>2 DEF CheckAndRun, More
  <2>3. clients' = IF clients[mgr] = -1 THEN [clients EXCEPT ![mgr] = Clients[mgr]] ELSE clients
    BY <2>2
  <2>4. clients \in [ManagerNames -> Nat \cup {-1}] /\ clients[mgr] \in {-1, Clients[mgr]}
    BY <1>2 DEF TypeOK, Served
  <2> HIDE DEF mgr
  <2> QED
    BY <1>2, <2>3, <2>4
<1>5. \A m \in ManagerNames : clients'[m] \in {clients[m], Clients[m]}
  <2> clients \in [ManagerNames -> Nat \cup {-1}]
    BY DEF TypeOK
  <2> HIDE DEF mgr
  <2> QED
    BY <1>3
<1> QED
  BY <1>3, <1>4, <1>5

LEMMA ServedStep ==
  ASSUME IInv, Served, [Next]_vars
  PROVE  Served'
<1> USE DEF IInv
<1>0. /\ clients \in [ManagerNames -> Nat \cup {-1}]
      /\ \A k \in Kinds : ManagerOf(k) \in ManagerNames
      /\ \A g \in Live : g \in Routines /\ g[2] \in Kinds
  BY DEF TypeOK, ManagerNames, Live, Routines
<1>1. ASSUME UNCHANGED <<startIdx, idx, clients>>, Live' \subseteq Live
      PROVE  Served'
  BY <1>1 DEF Served, Oid, Config
<1>2. CASE CheckAndRunAny
  <2>v. Visit
    BY <1>2, VisitKind
  <2>c. LET mgr == ManagerOf(KindOrder[kindIdx]) IN
        /\ clients' = clients \/ clients' = [clients EXCEPT ![mgr] = Clients[mgr]]
        /\ \A m \in ManagerNames : clients'[m] \in {clients[m], Clients[m]}
        /\ StartsRoutine => clients'[mgr] = Clients[mgr]
    BY <1>2, VisitClients
  <2>d. UNCHANGED <<startIdx, idx>> /\ idx < N
    BY <2>v DEF Visit, Position
  <2>1. \A m \in ManagerNames : clients'[m] \in {-1, Clients[m]}
    BY <2>c DEF Served
  <2>2. ASSUME NEW g \in Live
        PROVE  /\ g[1] = Oid' /\ g[3] < NormalizedOps[idx' + 1].resources[g[2]].count
               /\ clients'[ManagerOf(g[2])] = Clients[ManagerOf(g[2])]
    <3>1. clients[ManagerOf(g[2])] = Clients[ManagerOf(g[2])] /\ ManagerOf(g[2]) \in ManagerNames
      BY <1>0 DEF Served
    <3>2. clients'[ManagerOf(g[2])] = Clients[ManagerOf(g[2])]
      BY <2>c, <3>1
    <3> QED
      BY <2>d, <3>2 DEF Served, Oid, Config
  <2>3. CASE StartsRoutine
    <3> DEFINE s == <<Oid, KindOrder[kindIdx], tid>>
    <3>1. s \in Routines /\ status' = [status EXCEPT ![s] = "live"]
      BY <2>v, <2>3, StartedRoutine DEF Visit, StartsRoutine
    <3>2. /\ s[1] = Oid' /\ s[3] < NormalizedOps[idx' + 1].resources[s[2]].count
          /\ clients'[ManagerOf(s[2])] = Clients[ManagerOf(s[2])]
      BY <2>3, <2>c, <2>d DEF StartsRoutine, Oid, Config
    <3> HIDE DEF s
    <3>3. Live' = Live \cup {s}
      BY <3>1 DEF Live, TypeOK
    <3>4. ASSUME NEW g \in Live'
          PROVE  /\ g[1] = Oid' /\ idx' < N /\ g[3] < NormalizedOps[idx' + 1].resources[g[2]].count
                 /\ clients'[ManagerOf(g[2])] = Clients[ManagerOf(g[2])]
      <4>1. CASE g = s
        BY <2>d, <3>2, <4>1 DEF Config
      <4>2. CASE g \in Live
        BY <2>2, <2>d, <4>2
      <4> QED
        BY <3>3, <4>1, <4>2
    <3> QED
      BY <2>1, <3>4 DEF Served, Config
  <2>4. CASE EndsKind
    <3>1. Live' = Live
      BY <2>4, SameLive DEF EndsKind
    <3> QED
      BY <2>1, <2>2, <2>d, <3>1 DEF Served, Config
  <2> QED
    BY <2>v, <2>3, <2>4 DEF Visit
<1>3. CASE Add
  BY <1>3, <1>1, SameLive DEF Add
<1>4. CASE Quietly
  <2>1. Live' = Live /\ clients' = clients
    BY <1>4, SameLive
       DEF Quietly, BeginOperation, Wait, EndRound, Finalize, BlockOnPods, CheckRuntime,
           EndOperation, LoopOrFinalize, mainVars
  <2>2. CASE EndOperation \/ LoopOrFinalize
    <3>1. Live = {}
      BY <2>2 DEF EndOperation, LoopOrFinalize, Barrier
    <3> QED
      BY <2>1, <3>1 DEF Served
  <2>3. CASE ~(EndOperation \/ LoopOrFinalize)
    <3>1. UNCHANGED <<startIdx, idx>>
      BY <1>4, <2>3
         DEF Quietly, BeginOperation, Wait, EndRound, Finalize, BlockOnPods, CheckRuntime, mainVars
    <3> QED
      BY <1>1, <2>1, <3>1
  <2> QED
    BY <2>2, <2>3
<1>5. ASSUME NEW g \in Routines, GoroutineStep(g) PROVE Served'
  <2>1. UNCHANGED <<startIdx, idx, clients>>
    BY <1>5 DEF GoroutineStep
  <2>2. CASE Works(g) \/ Panics
    BY <2>1, <2>2, <1>1, SameLive DEF Works, Panics
  <2>3. CASE Done(g)
    <3>1. Live' \subseteq Live
      BY <2>3 DEF Done, Live, TypeOK
    <3> QED
      BY <1>1, <2>1, <3>1
  <2> QED
    BY <1>5, <2>2, <2>3 DEF GoroutineStep
<1>6. CASE Tick \/ UNCHANGED vars
  BY <1>6, <1>1, SameLive DEF Tick, vars, mainVars
<1> QED
  BY <1>2, <1>3, <1>4, <1>5, <1>6, RunActionsKind DEF Next, Main, CheckAndRunAny, Quietly

\* The running goroutines of a kind that one client serves.
SharingOne(kind, c, s) == {h \in Live : h[2] = kind /\ h[3] % c = s}

\* They are not more than it is meant for.
LEMMA ShareOfClient ==
  ASSUME TypeOK, Counted, Served, NEW kind \in Kinds, NEW n \in Nat, NEW c \in Nat \ {0}, NEW s,
         n <= c * RoutinesPerClient, \A h \in Live : h[2] = kind => h[3] < n
  PROVE  Cardinality(SharingOne(kind, c, s)) <= RoutinesPerClient
<1> DEFINE H == SharingOne(kind, c, s)
           T == {t \in 0 .. n - 1 : t % c = s}
           f == [h \in H |-> h[3]]
<1>1. RoutinesPerClient \in Nat
  BY ConfigAssumption
<1>2. IsFiniteSet(T) /\ Cardinality(T) <= RoutinesPerClient
  BY <1>1, Sharing
<1>3. ASSUME NEW h \in H PROVE h \in Routines /\ h[1] = Oid /\ h[2] = kind /\ h[3] \in T
  <2>1. h \in Routines /\ h[1] = Oid /\ h[2] = kind /\ h[3] < n /\ h[3] % c = s
    BY DEF Live, Served, SharingOne
  <2>2. h[3] \in Nat
    BY <2>1, Constants DEF Routines
  <2> QED
    BY <2>1, <2>2
<1> HIDE DEF H, T
<1>4. ASSUME NEW h \in H, NEW k \in H, h[3] = k[3] PROVE h = k
  <2>1. h = <<h[1], h[2], h[3]>> /\ k = <<k[1], k[2], k[3]>>
    BY <1>3 DEF Routines
  <2> QED
    BY <2>1, <1>3, <1>4
<1>5. f \in Injection(H, T)
  BY <1>3, <1>4 DEF Injection, IsInjective
<1> HIDE DEF f
<1>6. IsFiniteSet(H) /\ Cardinality(H) <= Cardinality(T)
  BY <1>2, <1>5, FS_Injection
<1>7. Cardinality(H) \in Nat /\ Cardinality(T) \in Nat
  BY <1>2, <1>6, FS_CardinalityType
<1> QED
  BY <1>1, <1>2, <1>6, <1>7 DEF H

\* A running goroutine finds a client (tid % len(clientsets) does not divide by zero)
\* and none serves more goroutines of a kind than it is meant to, for every
\* configuration: the clients are counted over the configured operations and the
\* goroutines are those of the normalized ones.
THEOREM ClientsAreEnough ==
  ASSUME NEW ops, NEW repeat, ConfiguredBy(ops, repeat)
  PROVE  Spec => []ClientsSuffice
<1>1. Init => Served
  BY DEF Init, Served, Live
<1>2. IInv /\ Served /\ [Next]_vars => Served'
  BY ServedStep
<1>3. IInv /\ Served => ClientsSuffice
  <2> SUFFICES ASSUME IInv, Served, NEW g \in Live
               PROVE  LET c == clients[ManagerOf(g[2])] IN
                      /\ c > 0
                      /\ Cardinality({h \in Live : h[2] = g[2] /\ h[3] % c = g[3] % c})
                           <= RoutinesPerClient
    BY DEF ClientsSuffice
  <2> DEFINE n == Config(g[2]).count
             c == clients[ManagerOf(g[2])]
  <2>1. g \in Routines /\ g[2] \in Kinds /\ g[3] \in Nat /\ g[3] < n /\ idx + 1 \in 1 .. N
    <3>1. g \in Routines /\ g[3] < n /\ idx < N
      BY DEF Live, Served
    <3> QED
      BY <3>1, Constants DEF IInv, TypeOK, Routines
  <2>2. n \in Nat \ {0}
    <3>1. n \in Int
      BY <2>1, ConfigType DEF Config
    <3> QED
      BY <2>1, <3>1
  <2>3. \E j \in 1 .. Len(ops) : NormalizedOps[idx + 1] = ops[j]
    BY <2>1, NormalizedAreConfigured DEF ConfiguredBy, N
  <2>4. PICK j \in 1 .. Len(ops) : n = ops[j].resources[g[2]].count
    BY <2>3 DEF Config
  <2>5. RoutinesPerClient \in Nat \ {0} /\ Clients \in [ManagerNames -> Nat]
        /\ ManagerOf(g[2]) \in ManagerNames
    BY <2>1, ConfigAssumption DEF ManagerNames
  <2>6. c = MaxClients(ops, RoutinesPerClient, ManagerOf(g[2])) /\ c \in Nat
    BY <2>5 DEF Served, ConfiguredBy
  <2>7. ClientsFor(n, RoutinesPerClient) <= c
    BY <2>1, <2>2, <2>4, <2>5, <2>6, MaxClientsEnough DEF ConfiguredBy
  <2>8. \A h \in Live : h[2] = g[2] => h[3] < n
    BY DEF Served
  <2> HIDE DEF n, c
  <2>9. n <= c * RoutinesPerClient /\ c > 0
    BY <2>2, <2>5, <2>6, <2>7, ClientsForEnough
  <2>10. Cardinality({h \in Live : h[2] = g[2] /\ h[3] % c = g[3] % c}) <= RoutinesPerClient
    <3>1. n \in Nat /\ c \in Nat \ {0} /\ TypeOK /\ Counted
      BY <2>2, <2>6, <2>9 DEF IInv, c
    <3>2. Cardinality(SharingOne(g[2], c, g[3] % c)) <= RoutinesPerClient
      BY <2>1, <2>8, <2>9, <3>1, ShareOfClient
    <3> QED
      BY <3>2 DEF SharingOne
  <2> QED
    BY <2>9, <2>10 DEF c
<1> QED
  BY <1>1, <1>2, <1>3, Invariance, PTL DEF Spec

-----------------------------------------------------------------------------
(* What the goroutines do *)

\* The actions that the manager of a kind has.
FuncsOf(kind) ==
  CASE kind = "Pod" -> PodFuncs
    [] kind \in {"Deployment", "StatefulSet", "ReplicationController"} -> DeploymentFuncs
    [] kind \in {"Namespace", "Service"} -> NamespaceFuncs
    [] OTHER -> ResourceFuncs

\* Is action i of goroutine g one its manager is called for?
IsPerformed(g, i) ==
  LET acts == ConfigOf(g).actions IN
  /\ acts[i].act \in FuncsOf(g[2])
  /\ acts[i].act = "create" =>
       /\ \A j \in 1 .. i - 1 : acts[j].act # "create"
       /\ g[2] \in GenericKinds => acts[i].yaml # "none"

Performed(g, n) == {i \in 1 .. n : IsPerformed(g, i)}

\* The calls cs are those that the first n actions of g ask for.
CallsOf(cs, g, n) ==
  /\ Len(cs) = Cardinality(Performed(g, n))
  /\ \A i \in Performed(g, n) :
       cs[Cardinality({j \in Performed(g, n) : j <= i})] = ConfigOf(g).actions[i].act

\* A goroutine has done what its actions before the next one ask for, and knows whether
\* one of them was a CREATE.
CallsKept ==
  \A g \in Routines :
    /\ status[g] = "unborn" => next[g] = 1 /\ ~created[g] /\ calls[g] = << >>
    /\ status[g] # "unborn" =>
         /\ N > 0
         /\ next[g] <= Len(ConfigOf(g).actions) + 1
         /\ created[g] <=> \E j \in 1 .. next[g] - 1 : ConfigOf(g).actions[j].act = "create"
         /\ CallsOf(calls[g], g, next[g] - 1)
    /\ status[g] = "ended" => next[g] = Len(ConfigOf(g).actions) + 1

LEMMA NothingPerformed ==
  ASSUME NEW g
  PROVE  CallsOf(<< >>, g, 0)
<1>1. Performed(g, 0) = {}
  BY DEF Performed
<1>2. Cardinality({}) = 0
  BY FS_EmptySet
<1> QED
  BY <1>1, <1>2 DEF CallsOf

LEMMA OneMorePerformed ==
  ASSUME NEW g, NEW n \in Nat \ {0}, NEW cs \in Seq(STRING), CallsOf(cs, g, n - 1),
         ConfigOf(g).actions[n].act \in STRING
  PROVE  CallsOf(IF IsPerformed(g, n) THEN Append(cs, ConfigOf(g).actions[n].act) ELSE cs, g, n)
<1> DEFINE P == Performed(g, n - 1)
           Q == Performed(g, n)
           a == ConfigOf(g).actions[n].act
<1>1. IsFiniteSet(P) /\ P \in SUBSET (1 .. n - 1)
  <2>1. IsFiniteSet(1 .. n - 1)
    BY FS_Interval
  <2>2. P \in SUBSET (1 .. n - 1)
    BY DEF Performed
  <2> QED
    BY <2>1, <2>2, FS_Subset
<1>2. CASE IsPerformed(g, n)
  <2>1. Q = P \cup {n} /\ n \notin P
    BY <1>2 DEF Performed
  <2>2. Len(cs) = Cardinality(P)
    BY DEF CallsOf
  <2>3. \A i \in P : cs[Cardinality({j \in P : j <= i})] = ConfigOf(g).actions[i].act
    BY DEF CallsOf
  <2> HIDE DEF P, Q
  <2>4. Cardinality(Q) = Len(cs) + 1
    BY <1>1, <2>1, <2>2, FS_AddElement
  <2>5. /\ Len(Append(cs, a)) = Len(cs) + 1
        /\ Append(cs, a)[Len(cs) + 1] = a
        /\ \A i \in 1 .. Len(cs) : Append(cs, a)[i] = cs[i]
    OBVIOUS
  <2> HIDE DEF a
  <2>6. ASSUME NEW i \in Q
        PROVE  Append(cs, a)[Cardinality({j \in Q : j <= i})] = ConfigOf(g).actions[i].act
    <3>1. CASE i = n
      <4>0. \A j \in Q : j <= n
        BY <1>1, <2>1
      <4>1. {j \in Q : j <= i} = Q
        BY <3>1, <4>0
      <4> QED
        BY <2>4, <2>5, <3>1, <4>1 DEF a
    <3>2. CASE i \in P
      <4> DEFINE B == {j \in P : j <= i}
      <4>1. {j \in Q : j <= i} = B
        BY <1>1, <2>1, <3>2
      <4>2. IsFiniteSet(B) /\ Cardinality(B) <= Cardinality(P) /\ B # {}
        BY <1>1, <3>2, FS_Subset
      <4>3. cs[Cardinality(B)] = ConfigOf(g).actions[i].act
        BY <2>3, <3>2
      <4> HIDE DEF B
      <4>4. Cardinality(B) \in 1 .. Len(cs)
        BY <2>2, <4>2, FS_CardinalityType, FS_EmptySet
      <4> QED
        BY <2>5, <4>1, <4>3, <4>4
    <3> QED
      BY <2>1, <2>6, <3>1, <3>2
  <2> QED
    BY <1>2, <2>4, <2>5, <2>6 DEF CallsOf, Q, a
<1>3. CASE ~IsPerformed(g, n)
  <2>1. Q = P
    BY <1>3 DEF Performed
  <2> QED
    BY <1>3, <2>1 DEF CallsOf
<1> QED
  BY <1>2, <1>3

\* The steps of a goroutine, with the actions of its manager.
LEMMA RunActionsFuncs ==
  ASSUME NEW g \in Routines, RunActions(g)
  PROVE  /\ status[g] = "live"
         /\ PerformAction(g, FuncsOf(g[2])) \/ FailAssertion(g) \/ Done(g)
<1> USE DEF RoutineStep, FuncsOf
<1>0. "ConfigMap" \in GenericKinds /\ GenericKinds = {"ConfigMap", "Secret"}
  BY DEF GenericKinds
<1>1. CASE runPodActions(g)
  BY <1>1 DEF runPodActions
<1>2. CASE runDeploymentActions(g)
  BY <1>2 DEF runDeploymentActions
<1>3. CASE runStatefulSetActions(g)
  BY <1>3 DEF runStatefulSetActions, StatefulSetFuncs, DeploymentFuncs
<1>4. CASE runNamespaceActions(g)
  BY <1>4 DEF runNamespaceActions
<1>5. CASE runServiceActions(g)
  BY <1>5 DEF runServiceActions, ServiceFuncs, NamespaceFuncs
<1>6. CASE runRcActions(g)
  BY <1>6 DEF runRcActions, ReplicationControllerFuncs, DeploymentFuncs
<1>7. CASE runResourceActions(g)
  BY <1>0, <1>7 DEF runResourceActions
<1> QED
  BY <1>1, <1>2, <1>3, <1>4, <1>5, <1>6, <1>7 DEF RunActions

LEMMA SameCalls ==
  ASSUME CallsKept, UNCHANGED <<status, next, created, calls>>
  PROVE  CallsKept'
BY DEF CallsKept

\* The flag that a CREATE was met and the test of the yaml are those of IsPerformed.
LEMMA PerformsIsPerformed ==
  ASSUME NEW g \in Routines, NEW n \in Nat, NEW done \in BOOLEAN,
         done <=> \E j \in 1 .. n - 1 : ConfigOf(g).actions[j].act = "create"
  PROVE  Performs(FuncsOf(g[2]), ConfigOf(g).actions[n], done, YamlUse(g[2])) <=> IsPerformed(g, n)
<1>1. YamlUse(g[2]) = "needed" <=> g[2] \in GenericKinds
  BY DEF YamlUse
<1> QED
  BY <1>1 DEF Performs, IsPerformed

LEMMA CallsKeptStep ==
  ASSUME IInv, CallsKept, [Next]_vars
  PROVE  CallsKept'
<1> USE DEF IInv
<1>0. /\ next \in [Routines -> Nat \ {0}] /\ created \in [Routines -> BOOLEAN]
      /\ calls \in [Routines -> Seq(STRING)] /\ status \in [Routines -> {"unborn", "live", "ended"}]
  BY DEF TypeOK
<1>1. CASE Visit
  <2>1. CASE StartsRoutine
    <3> DEFINE s == <<Oid, KindOrder[kindIdx], tid>>
    <3>1. s \in Routines /\ status[s] = "unborn" /\ status' = [status EXCEPT ![s] = "live"]
      BY <1>1, <2>1, StartsFresh, StartedRoutine DEF Visit, StartsRoutine
    <3>2. UNCHANGED <<next, created, calls>>
      BY <1>1 DEF Visit
    <3>3. N > 0
      BY <1>1, Constants DEF Visit, Position, TypeOK
    <3> HIDE DEF s
    <3>4. ConfigOf(s).actions \in Seq(Action)
      BY <3>1, <3>3, GoroutineConfig
    <3>5. /\ next[s] = 1 /\ ~created[s] /\ calls[s] = << >>
          /\ next[s] <= Len(ConfigOf(s).actions) + 1
          /\ CallsOf(calls[s], s, next[s] - 1)
      BY <3>1, <3>4, NothingPerformed DEF CallsKept
    <3> QED
      BY <1>0, <3>1, <3>2, <3>3, <3>5 DEF CallsKept
  <2>2. CASE EndsKind
    BY <1>1, <2>2, SameCalls DEF Visit, EndsKind
  <2> QED
    BY <1>1, <2>1, <2>2 DEF Visit
<1>2. CASE Add
  BY <1>2, SameCalls DEF Add, routineVars
<1>3. CASE Quietly
  BY <1>3, SameCalls
     DEF Quietly, BeginOperation, Wait, EndRound, Finalize, BlockOnPods, CheckRuntime,
         EndOperation, LoopOrFinalize, routineVars
<1>4. ASSUME NEW g \in Routines, RunActions(g) PROVE CallsKept'
  <2> DEFINE n == next[g]
             acts == ConfigOf(g).actions
  <2>1. /\ status[g] = "live"
        /\ PerformAction(g, FuncsOf(g[2])) \/ FailAssertion(g) \/ Done(g)
    BY <1>4, RunActionsFuncs
  <2>2. /\ N > 0 /\ n <= Len(acts) + 1 /\ n \in Nat \ {0} /\ CallsOf(calls[g], g, n - 1)
        /\ created[g] <=> \E j \in 1 .. n - 1 : acts[j].act = "create"
    BY <1>0, <2>1 DEF CallsKept
  <2>3. acts \in Seq(Action)
    BY <2>2, GoroutineConfig
  <2>4. CASE PerformAction(g, FuncsOf(g[2]))
    <3>1. /\ n <= Len(acts) /\ status' = status
          /\ next' = [next EXCEPT ![g] = n + 1]
          /\ created' = [created EXCEPT ![g] = created[g] \/ acts[n].act = "create"]
          /\ calls' = IF Performs(FuncsOf(g[2]), acts[n], created[g], YamlUse(g[2]))
                      THEN [calls EXCEPT ![g] = Append(calls[g], acts[n].act)] ELSE calls
      BY <2>4 DEF PerformAction
    <3>2. acts[n].act \in STRING
      <4> HIDE DEF acts, n
      <4>1. acts[n] \in Action
        BY <2>2, <2>3, <3>1
      <4> QED
        BY <4>1 DEF Action
    <3>3. Performs(FuncsOf(g[2]), acts[n], created[g], YamlUse(g[2])) <=> IsPerformed(g, n)
      BY <1>0, <2>2, PerformsIsPerformed
    <3> HIDE DEF acts
    <3>4. calls'[g] = IF IsPerformed(g, n) THEN Append(calls[g], acts[n].act) ELSE calls[g]
      BY <1>0, <3>1, <3>3
    <3>5. CallsOf(calls'[g], g, n)
      BY <1>0, <2>2, <3>2, <3>4, OneMorePerformed DEF acts
    <3>6. next'[g] = n + 1 /\ (created'[g] <=> created[g] \/ acts[n].act = "create")
      BY <1>0, <3>1
    <3>7. created'[g] <=> \E j \in 1 .. n : acts[j].act = "create"
      BY <2>2, <3>6
    <3>8. Len(acts) \in Nat
      BY <2>3
    <3> HIDE DEF n
    <3>9. \A h \in Routines : h # g => next'[h] = next[h] /\ created'[h] = created[h]
                                       /\ calls'[h] = calls[h]
      BY <1>0, <3>1
    <3>10. next'[g] <= Len(acts) + 1 /\ next'[g] - 1 = n
      BY <2>2, <3>1, <3>6, <3>8
    <3> QED
      BY <1>0, <2>1, <2>2, <3>1, <3>5, <3>7, <3>9, <3>10 DEF CallsKept, acts
  <2>5. CASE FailAssertion(g)
    BY <2>5, SameCalls DEF FailAssertion, routineVars
  <2>6. CASE Done(g)
    <3>1. /\ n > Len(acts) /\ status' = [status EXCEPT ![g] = "ended"]
          /\ UNCHANGED <<next, created, calls>>
      BY <2>6 DEF Done, routineVars
    <3>2. n = Len(acts) + 1
      BY <2>2, <2>3, <3>1
    <3> QED
      BY <1>0, <2>1, <3>1, <3>2 DEF CallsKept
  <2> QED
    BY <2>1, <2>4, <2>5, <2>6
<1>5. CASE Tick \/ UNCHANGED vars
  BY <1>5, SameCalls DEF Tick, vars, routineVars
<1> QED
  BY <1>1, <1>2, <1>3, <1>4, <1>5, VisitKind DEF Next, Main, CheckAndRunAny, Quietly

\* A goroutine that has ended called its manager for exactly the actions that its kind
\* has, in the configured order and CREATE at most once, for every configuration.
THEOREM CallsAreInOrder == Spec => []ActionsInOrder
<1>1. Init => CallsKept
  BY DEF Init, CallsKept
<1>2. IInv /\ CallsKept /\ [Next]_vars => CallsKept'
  BY CallsKeptStep
<1>3. IInv /\ CallsKept => ActionsInOrder
  <2> SUFFICES ASSUME IInv, CallsKept, NEW g \in Ended
               PROVE  ActionsInOrder!(g)
    BY DEF ActionsInOrder
  <2>1. g \in Routines /\ status[g] = "ended"
    BY DEF Ended
  <2>2. N > 0 /\ next[g] = Len(ConfigOf(g).actions) + 1 /\ CallsOf(calls[g], g, next[g] - 1)
    BY <2>1 DEF CallsKept
  <2>3. ConfigOf(g).actions \in Seq(Action)
    BY <2>1, <2>2, GoroutineConfig
  <2>4. DOMAIN ConfigOf(g).actions = 1 .. next[g] - 1
    BY <2>2, <2>3
  <2> QED
    BY <2>2, <2>4 DEF CallsOf, Performed, IsPerformed, FuncsOf, PodFuncs, DeploymentFuncs,
                      NamespaceFuncs, ResourceFuncs
<1> QED
  BY <1>1, <1>2, <1>3, Invariance, PTL DEF Spec

=============================================================================
