------------------------------ MODULE Dispatch ------------------------------
(***************************************************************************)
(* The driver's main loop: Run in util/testdriver.go and the checkAndRun*  *)
(* and run*Actions functions of util/driver_util.go.                       *)
(*                                                                         *)
(* The main goroutine takes the normalized operations one by one.  For     *)
(* each it starts Count goroutines per resource kind, each start being a   *)
(* "go" statement followed by wg.Add(1), and then waits in wg.Wait.  A     *)
(* goroutine performs the actions of its resource in order and calls       *)
(* wg.Done.  A counter that goes below zero panics and ends the process.   *)
(* A goroutine is <<oid, kind, tid>>.  API calls are abstracted to their   *)
(* verb: their errors are logged and change nothing here, and the sleeps   *)
(* between them cost only time.                                            *)
(***************************************************************************)
EXTENDS Workload, FiniteSets

CONSTANTS
  NormalizedOps,      \* the operations of the configuration, repeats included
  Clients,            \* how many clients each manager is to get
  RoutinesPerClient,  \* how many goroutines one client is meant to serve
  Blocking,           \* is BlockingLevel "operation"?
  RuntimeInMinutes,   \* how long to loop over the operations; 0: run them once
  MaxCount,           \* bound on the Count fields
  MaxOid,             \* bound on operation numbers: on rounds of the loop
  MaxElapsed          \* bound on the clock, in half minutes

N == Len(NormalizedOps)

ASSUME OpsAssumption ==
  /\ NormalizedOps \in Seq(WcpOp)
  /\ MaxCount \in Nat
  /\ \A i \in 1 .. N, k \in Kinds : NormalizedOps[i].resources[k].count <= MaxCount
ASSUME ConfigAssumption ==
  /\ Clients \in [ManagerNames -> Nat]
  /\ RoutinesPerClient \in Nat \ {0}
  /\ Blocking \in BOOLEAN
  /\ RuntimeInMinutes \in Nat
  /\ MaxOid \in Nat /\ N <= MaxOid
  /\ MaxElapsed \in Nat

Routines == (0 .. MaxOid) \X Kinds \X (0 .. MaxCount)

VARIABLES
  pc,              \* where the main goroutine is
  startIdx, idx,   \* the round's first OID and the position in NormalizedOps
  kindIdx, tid,    \* the kind and the goroutine being started
  wg,              \* the WaitGroup's counter
  clients,         \* the clients of each manager, -1 before its Init
  elapsed,         \* half minutes since the start of Run
  minutesElapsed,  \* the last reading of it, rounded to minutes
  status, next, created, calls   \* the goroutines

mainVars    == <<startIdx, idx, kindIdx, tid, clients, minutesElapsed>>
routineVars == <<next, created, calls>>
vars == <<pc, mainVars, wg, elapsed, status, routineVars>>

Oid == startIdx + idx

\* The resource configuration a goroutine was started with.
ConfigOf(g) == NormalizedOps[(g[1] % N) + 1].resources[g[2]]

-----------------------------------------------------------------------------
(* The goroutines *)

\* The actions each manager registers.
PodFuncs == {"create", "run", "delete", "list", "get", "update", "copy"}
DeploymentFuncs == {"create", "delete", "list", "get", "update", "scale"}
StatefulSetFuncs == {"create", "delete", "list", "get", "update", "scale"}
ReplicationControllerFuncs == {"create", "delete", "list", "get", "update", "scale"}
NamespaceFuncs == {"create", "delete", "list", "get", "update"}
ServiceFuncs == {"create", "delete", "list", "get", "update"}
ResourceFuncs == {"create", "delete", "list", "get"}

\* What a CREATE does with the object in its YamlSpec: a kind with a generator
\* falls back on a generated one, a namespace is always generated, a resource
\* without generator needs the object.
YamlUse(kind) ==
  IF kind \in GenericKinds THEN "needed" ELSE IF kind = "Namespace" THEN "unused" ELSE "optional"

\* Mutant: the flag that a CREATE was met is not consulted.
PerformsAgain(funcs, a, done, use) ==
  a.act \in funcs /\ (a.act = "create" => (use = "needed" => a.yaml # "none"))

\* Does the loop body call the manager for action a? Only the first CREATE is
\* performed, one of a generic resource only if its yaml can be decoded;
\* actions the manager does not have are passed over.
Performs(funcs, a, done, use) ==
  a.act \in funcs /\ (a.act = "create" => ~done /\ (use = "needed" => a.yaml # "none"))

\* The decoded object is asserted to have the Go type of the kind.
AssertionFails(a, done, use) ==
  a.act = "create" /\ ~done /\ use = "optional" /\ a.yaml = "other"

\* One iteration of the loop over the actions of the goroutine. A CREATE sets
\* the flag before anything can go wrong with it.
PerformAction(g, funcs) ==
  LET a == ConfigOf(g).actions[next[g]] IN
  /\ next[g] <= Len(ConfigOf(g).actions)
  /\ ~AssertionFails(a, created[g], YamlUse(g[2]))
  /\ next' = [next EXCEPT ![g] = @ + 1]
  /\ created' = [created EXCEPT ![g] = @ \/ a.act = "create"]
  /\ calls' = IF Performs(funcs, a, created[g], YamlUse(g[2]))
              THEN [calls EXCEPT ![g] = Append(@, a.act)] ELSE calls
  /\ UNCHANGED <<pc, wg, status>>

\* A failed type assertion panics, which ends the process.
FailAssertion(g) ==
  /\ next[g] <= Len(ConfigOf(g).actions)
  /\ AssertionFails(ConfigOf(g).actions[next[g]], created[g], YamlUse(g[2]))
  /\ pc' = "panic"
  /\ UNCHANGED <<wg, status, routineVars>>

\* Mutant: a goroutine that could perform nothing returns before wg.Done.
DoneIfPerformed(g) ==
  /\ next[g] > Len(ConfigOf(g).actions)
  /\ status' = [status EXCEPT ![g] = "ended"]
  /\ wg' = IF calls[g] = << >> THEN wg ELSE wg - 1
  /\ pc' = IF wg' < 0 THEN "panic" ELSE pc
  /\ UNCHANGED routineVars

\* wg.Done and the end of the goroutine.
Done(g) ==
  /\ next[g] > Len(ConfigOf(g).actions)
  /\ status' = [status EXCEPT ![g] = "ended"]
  /\ wg' = wg - 1
  /\ pc' = IF wg' < 0 THEN "panic" ELSE pc
  /\ UNCHANGED routineVars

\* The next step of a goroutine of the given kinds.
RoutineStep(g, kinds, funcs) ==
  /\ pc # "panic"
  /\ status[g] = "live" /\ g[2] \in kinds
  /\ PerformAction(g, funcs) \/ FailAssertion(g) \/ Done(g)
  /\ UNCHANGED <<mainVars, elapsed>>

runPodActions(g) == RoutineStep(g, {"Pod"}, PodFuncs)
runDeploymentActions(g) == RoutineStep(g, {"Deployment"}, DeploymentFuncs)
runStatefulSetActions(g) == RoutineStep(g, {"StatefulSet"}, StatefulSetFuncs)
runNamespaceActions(g) == RoutineStep(g, {"Namespace"}, NamespaceFuncs)
runServiceActions(g) == RoutineStep(g, {"Service"}, ServiceFuncs)
runRcActions(g) == RoutineStep(g, {"ReplicationController"}, ReplicationControllerFuncs)
runResourceActions(g) == RoutineStep(g, GenericKinds, ResourceFuncs)

RunActions(g) ==
  \/ runPodActions(g) \/ runDeploymentActions(g) \/ runStatefulSetActions(g)
  \/ runNamespaceActions(g) \/ runServiceActions(g) \/ runRcActions(g)
  \/ runResourceActions(g)

-----------------------------------------------------------------------------
(* The main goroutine *)

\* The resource configuration of a kind in the current operation.
Config(kind) == NormalizedOps[idx + 1].resources[kind]
HasActions(kind) == Config(kind).actions # << >>

\* The loop over the operations comes to its next operation; the result of the
\* predicate is ignored, so it only delays the operation.
BeginOperation ==
  /\ pc = "op" /\ idx < N
  /\ pc' = "go" /\ kindIdx' = 1 /\ tid' = 0
  /\ UNCHANGED <<startIdx, idx, clients, minutesElapsed, wg, elapsed, status, routineVars>>

\* Mutant: the loop's bound is inclusive.
MoreInclusive(kind, wanted) == wanted /\ tid <= Config(kind).count

\* The loop of checkAndRun* has another goroutine to start.
More(kind, wanted) == wanted /\ tid < Config(kind).count

\* A step of checkAndRun* for the given kinds: if the operation asks for the
\* kind, its manager is initialised at first use and the loop executes the go
\* statement for the next TID; after the last one the next kind has its turn.
CheckAndRun(kinds, wanted) ==
  LET kind == KindOrder[kindIdx]
      mgr  == ManagerOf(kind)
      g    == <<Oid, kind, tid>>
  IN
  /\ pc = "go" /\ kindIdx <= Len(KindOrder) /\ kind \in kinds
  /\ clients' = IF wanted /\ clients[mgr] = -1
                THEN [clients EXCEPT ![mgr] = Clients[mgr]] ELSE clients
  /\ \/ /\ More(kind, wanted)
        /\ status' = [status EXCEPT ![g] = "live"]
        /\ pc' = "add"
        /\ UNCHANGED <<kindIdx, tid>>
     \/ /\ ~More(kind, wanted)
        /\ kindIdx' = kindIdx + 1 /\ tid' = 0
        /\ UNCHANGED <<pc, status>>
  /\ UNCHANGED <<startIdx, idx, minutesElapsed, wg, elapsed, routineVars>>

Current == KindOrder[kindIdx]

checkAndRunPod == CheckAndRun({"Pod"}, HasActions("Pod"))
checkAndRunDeployment == CheckAndRun({"Deployment"}, HasActions("Deployment"))
checkAndRunStatefulSet == CheckAndRun({"StatefulSet"}, HasActions("StatefulSet"))
checkAndRunNamespace ==
  CheckAndRun({"Namespace"}, Config("Namespace").count # 0 /\ HasActions("Namespace"))

\* Mutant: a single goroutine is taken for none.
checkAndRunSeveralServices ==
  CheckAndRun({"Service"}, Config("Service").count > 1 /\ HasActions("Service"))

checkAndRunService ==
  CheckAndRun({"Service"}, Config("Service").count # 0 /\ HasActions("Service"))
checkAndRunRc ==
  CheckAndRun({"ReplicationController"}, HasActions("ReplicationController"))
checkAndRunResource == CheckAndRun(GenericKinds, Config(Current).count > 0)

\* Mutant: the counter is raised once per kind.
AddFirst ==
  /\ pc = "add"
  /\ wg' = IF tid = 0 THEN wg + 1 ELSE wg
  /\ tid' = tid + 1
  /\ pc' = "go"
  /\ UNCHANGED <<startIdx, idx, kindIdx, clients, minutesElapsed, elapsed, status, routineVars>>

\* wg.Add(1), which follows the go statement.
Add ==
  /\ pc = "add"
  /\ wg' = wg + 1
  /\ tid' = tid + 1
  /\ pc' = "go"
  /\ UNCHANGED <<startIdx, idx, kindIdx, clients, minutesElapsed, elapsed, status, routineVars>>

\* Every kind has been handled: wg.Wait returns when the counter is zero.
Wait ==
  /\ pc = "go" /\ kindIdx > Len(KindOrder)
  /\ wg = 0
  /\ pc' = "check"
  /\ UNCHANGED <<mainVars, wg, elapsed, status, routineVars>>

\* Mutant: the time limit is reached at RuntimeInMinutes rounded minutes.
LimitReachedEarly(minutes) == minutes >= RuntimeInMinutes

LimitReached(minutes) == minutes > RuntimeInMinutes

\* Duration.Round(time.Minute) of half minutes rounds half a minute up.
Rounded(halves) == (halves + 1) \div 2

\* The clock is read; past the limit the operations that are left are skipped,
\* else the driver blocks if it is told to and turns to the next operation.
CheckRuntime ==
  /\ pc = "check"
  /\ minutesElapsed' = Rounded(elapsed)
  /\ pc' = IF RuntimeInMinutes # 0 /\ LimitReached(minutesElapsed') THEN "loop"
           ELSE IF Blocking THEN "block" ELSE "next"
  /\ UNCHANGED <<startIdx, idx, kindIdx, tid, clients, wg, elapsed, status, routineVars>>

\* The waits for pod creation or deletion (module BlockingWait), which end.
BlockOnPods ==
  /\ pc = "block"
  /\ pc' = "next"
  /\ UNCHANGED <<mainVars, wg, elapsed, status, routineVars>>

EndOperation ==
  /\ pc = "next"
  /\ idx' = idx + 1
  /\ pc' = "op"
  /\ UNCHANGED <<startIdx, kindIdx, tid, clients, minutesElapsed, wg, elapsed, status, routineVars>>

\* The loop over the operations has come to its end.
EndRound ==
  /\ pc = "op" /\ idx = N
  /\ pc' = "loop"
  /\ UNCHANGED <<mainVars, wg, elapsed, status, routineVars>>

\* Mutant: OIDs start over in every round.
NextStartSame == startIdx

NextStart == startIdx + N

\* The end of the outer loop's body: Run goes on to Finalize or loops.
LoopOrFinalize ==
  /\ pc = "loop"
  /\ \/ /\ RuntimeInMinutes = 0 \/ LimitReached(minutesElapsed)
        /\ pc' = "finalize"
        /\ UNCHANGED <<startIdx, idx>>
     \/ /\ ~(RuntimeInMinutes = 0 \/ LimitReached(minutesElapsed))
        /\ NextStart + N <= MaxOid
        /\ startIdx' = NextStart /\ idx' = 0
        /\ pc' = "op"
  /\ UNCHANGED <<kindIdx, tid, clients, minutesElapsed, wg, elapsed, status, routineVars>>

\* Finalize and the return of Run.
Finalize ==
  /\ pc = "finalize"
  /\ pc' = "done"
  /\ UNCHANGED <<mainVars, wg, elapsed, status, routineVars>>

Main ==
  \/ BeginOperation
  \/ checkAndRunPod \/ checkAndRunDeployment \/ checkAndRunStatefulSet
  \/ checkAndRunNamespace \/ checkAndRunService \/ checkAndRunRc \/ checkAndRunResource
  \/ Add \/ Wait \/ CheckRuntime \/ BlockOnPods \/ EndOperation \/ EndRound
  \/ LoopOrFinalize \/ Finalize

Tick ==
  /\ pc \notin {"panic", "done"}
  /\ elapsed < MaxElapsed
  /\ elapsed' = elapsed + 1
  /\ UNCHANGED <<pc, mainVars, wg, status, routineVars>>

-----------------------------------------------------------------------------

Init ==
  /\ pc = "op"
  /\ startIdx = 0 /\ idx = 0
  /\ kindIdx = 1 /\ tid = 0
  /\ wg = 0
  /\ clients = [m \in ManagerNames |-> -1]
  /\ elapsed = 0 /\ minutesElapsed = 0
  /\ status = [g \in Routines |-> "unborn"]
  /\ next = [g \in Routines |-> 1]
  /\ created = [g \in Routines |-> FALSE]
  /\ calls = [g \in Routines |-> << >>]

Next == Main \/ Tick \/ \E g \in Routines : RunActions(g)

Spec == Init /\ [][Next]_vars

\* The Go scheduler runs every runnable goroutine, and API calls return.
Fairness == WF_vars(Main) /\ \A g \in Routines : WF_vars(RunActions(g))

FairSpec == Spec /\ Fairness

-----------------------------------------------------------------------------
(* Properties *)

Live == {g \in Routines : status[g] = "live"}
Ended == {g \in Routines : status[g] = "ended"}

TypeOK ==
  /\ pc \in {"op", "go", "add", "check", "block", "next", "loop", "finalize", "done", "panic"}
  /\ startIdx \in 0 .. MaxOid /\ idx \in 0 .. N /\ Oid <= MaxOid
  /\ kindIdx \in 1 .. Len(KindOrder) + 1 /\ tid \in 0 .. MaxCount
  /\ wg \in Int
  /\ clients \in [ManagerNames -> Nat \cup {-1}]
  /\ elapsed \in 0 .. MaxElapsed /\ minutesElapsed \in Nat
  /\ status \in [Routines -> {"unborn", "live", "ended"}]
  /\ next \in [Routines -> Nat \ {0}]
  /\ created \in [Routines -> BOOLEAN]
  /\ calls \in [Routines -> Seq(STRING)]

\* When wg.Wait has returned, no goroutine of this or an earlier operation runs,
\* although each Add comes after the goroutine it counts was started.
Barrier == pc \in {"op", "check", "block", "next", "loop", "finalize", "done"} => Live = {}

\* Operations run one by one, and no goroutine name is used twice, in whichever
\* round of the loop.
Sequence == INSTANCE OperationSequence WITH current <- Oid, active <- Live, ended <- Ended

OperationsOneByOne == Sequence!Spec

\* Between operations, every goroutine the earlier ones asked for has run: none
\* is dropped by the counts, the guards or the rounds.
AllRoutinesRan ==
  pc = "op" =>
    \A oid \in 0 .. Oid - 1, kind \in Kinds :
      LET c == NormalizedOps[(oid % N) + 1].resources[kind] IN
      c.actions # << >> => \A t \in 0 .. c.count - 1 : <<oid, kind, t>> \in Ended

\* A goroutine that has ended called its manager for exactly the actions that
\* its kind has, in the configured order, CREATE at most once.
ActionsInOrder ==
  \A g \in Ended :
    LET acts == ConfigOf(g).actions
        funcs == CASE g[2] = "Pod" -> {"create", "run", "delete", "list", "get", "update", "copy"}
                   [] g[2] \in {"Deployment", "StatefulSet", "ReplicationController"} ->
                        {"create", "delete", "list", "get", "update", "scale"}
                   [] g[2] \in {"Namespace", "Service"} ->
                        {"create", "delete", "list", "get", "update"}
                   [] OTHER -> {"create", "delete", "list", "get"}
        performed == {i \in DOMAIN acts :
                        /\ acts[i].act \in funcs
                        /\ acts[i].act = "create" =>
                             /\ \A j \in 1 .. i - 1 : acts[j].act # "create"
                             /\ g[2] \in GenericKinds => acts[i].yaml # "none"}
    IN /\ Len(calls[g]) = Cardinality(performed)
       /\ \A i \in performed : calls[g][Cardinality({j \in performed : j <= i})] = acts[i].act

\* A running goroutine finds a client (tid % len(clientsets) does not divide by
\* zero), and no client serves more goroutines of a kind than it is meant to.
ClientsSuffice ==
  \A g \in Live :
    LET c == clients[ManagerOf(g[2])] IN
    /\ c > 0
    /\ Cardinality({h \in Live : h[2] = g[2] /\ h[3] % c = g[3] % c}) <= RoutinesPerClient

\* A run with a time limit is not finalized before the limit ("If all the
\* configured operations are completed but time elapsed hasn't reached the
\* specified time, the benchmark will loop over").
RunsLongEnough ==
  pc \in {"finalize", "done"} => elapsed >= 2 * RuntimeInMinutes

\* The run comes to its end.
Finishes == <>(pc \in {"done", "panic"})

=============================================================================
