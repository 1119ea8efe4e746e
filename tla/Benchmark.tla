----------------------------- MODULE Benchmark -----------------------------
(***************************************************************************)
(* The process as a whole: main (cmd/kbench.go) sorts the configurations   *)
(* and runs one after another, each Run (util/testdriver.go) with a fresh  *)
(* map of managers, and a second goroutine that waits for a signal calls   *)
(* Finalize on whatever it finds and exits.                                *)
(*                                                                         *)
(* An operation is reduced to what concerns the cleanup: its managers are  *)
(* put into the map, initialised in the steps of their Init, and for each  *)
(* kind one goroutine creates one object in the manager's home namespace   *)
(* (Lifecycle has the whole of Create and Delete, Dispatch the loops).     *)
(* API calls do not fail here, but for the reasons of the cluster.         *)
(***************************************************************************)
EXTENDS Workload, SequencesExt

CONSTANTS
  Configs,    \* the names of the configurations
  Setting     \* what each says: its operations and Cleanup

\* The resource kinds of an operation and the largest Pod.Count it asks for.
ASSUME SettingAssumption ==
  /\ IsFiniteSet(Configs) /\ Configs # {}
  /\ Setting \in [Configs -> [ops : Seq([kinds : SUBSET Kinds, pods : Nat]),
                              cleanup : BOOLEAN]]

VARIABLES
  proc,                      \* the process: "running" or how it ended
  order, run, op, pc, kindIdx,   \* main: configurations, positions, what is next
  mgrs, benchConfig,         \* globals: the run whose map, whose configuration it is
  stage,                     \* per run and manager: in the map, and how far in Init
  table, nsSet, closed,      \* per run and manager: podNs etc., is home in nsSet, podChan
  at, refused,               \* goroutines: where they are; those refused an object
  home, objects,             \* the cluster: home namespaces, objects
  handler,                   \* the signal handler: "off", "starting", "waiting", "taken"
  fin,                       \* Finalize, by main and by the handler
  owed                       \* history: objects of the run when the signal was taken

mainVars == <<order, run, op, pc, kindIdx>>
globals == <<mgrs, benchConfig>>
managerVars == <<stage, table, nsSet, closed>>
clusterVars == <<home, objects>>
routineVars == <<at, refused>>
vars == <<proc, mainVars, globals, managerVars, routineVars, clusterVars, handler, fin, owed>>

Runs == 1 .. Cardinality(Configs)
Conf(r) == Setting[order[r]]
MaxOps == Max({Len(Setting[c].ops) : c \in Configs} \cup {0})
UsedKinds == UNION UNION {{Setting[c].ops[i].kinds : i \in DOMAIN Setting[c].ops} : c \in Configs}
Routines == Runs \X (1 .. MaxOps) \X UsedKinds
Mgr(g) == ManagerOf(g[3])

\* Managers with a pod informer, those that own a pod manager for it, and
\* those with a home namespace.
Owners == {"Deployment", "StatefulSet", "ReplicationController"}
Informed == Owners \cup {"Pod"}
Homed == ManagerNames \ {"Namespace"}

Stages == <<"absent", "added", "named", "dialed", "ready">>
InMap(r) == IF r = 0 THEN {} ELSE {m \in ManagerNames : stage[r][m] # "absent"}

Alive == proc = "running"

Crash ==
  /\ proc' = "crash"
  /\ UNCHANGED <<mainVars, globals, managerVars, routineVars, clusterVars, handler, fin, owed>>

-----------------------------------------------------------------------------
(* The order of the runs *)

PodsMax(c) == Max({Setting[c].ops[i].pods : i \in DOMAIN Setting[c].ops} \cup {0})

\* Mutant: empty configurations are not put first, and compare with nothing.
LessBroken(c, d) ==
  /\ Setting[c].ops # << >> /\ Setting[d].ops # << >>
  /\ PodsMax(c) <= PodsMax(d)

\* The comparison given to sort.Slice. It asks for the operations of the first
\* one twice and never for those of the second; so an empty one is less than
\* another empty one and than itself.
Less(c, d) == IF Setting[c].ops # << >> THEN PodsMax(c) < PodsMax(d) ELSE TRUE

\* sort.Slice of a few elements: each is swapped down while it is less than the
\* one before it.
Sorted(s) ==
  LET Sink(t, i) ==
        LET k == Min({k \in 1 .. i : \A j \in k .. i - 1 : Less(t[i], t[j])})
        IN InsertAt(RemoveAt(t, i), k, t[i])
      Upto[i \in 0 .. Len(s)] == IF i = 0 THEN s ELSE Sink(Upto[i - 1], i)
  IN Upto[Len(s)]

\* Before the first run: the sort, and the start of the handler.
SortConfigs ==
  /\ Alive /\ pc = "sort"
  /\ order' = Sorted(order)
  /\ pc' = "begin"
  /\ handler' = "starting"
  /\ UNCHANGED <<proc, run, op, kindIdx, globals, managerVars, routineVars, clusterVars, fin, owed>>

-----------------------------------------------------------------------------
(* Run *)

Goto(next) == pc' = next

\* Mutant: the map of the run before is kept.
FreshKept == IF mgrs = 0 THEN run ELSE mgrs

Fresh == run

\* mgrs = make(...)
BeginRun ==
  /\ Alive /\ pc = "begin"
  /\ mgrs' = Fresh
  /\ Goto("conf")
  /\ UNCHANGED <<proc, order, run, op, kindIdx, benchConfig, managerVars, routineVars,
                 clusterVars, handler, fin, owed>>

InOps(o) == o <= Len(Conf(run).ops)

\* The next kind that operation o of the run has.
KindAfter(k, o) ==
  Min({j \in k + 1 .. Len(KindOrder) : InOps(o) /\ KindOrder[j] \in Conf(run).ops[o].kinds}
      \cup {Len(KindOrder) + 1})

\* benchConfig = testConfig
SetConfig ==
  /\ Alive /\ pc = "conf"
  /\ benchConfig' = run
  /\ op' = 1 /\ kindIdx' = KindAfter(0, 1)
  /\ Goto("op")
  /\ UNCHANGED <<proc, order, run, mgrs, managerVars, routineVars, clusterVars, handler, fin, owed>>

Kind == KindOrder[kindIdx]
Wanted == Alive /\ pc = "op" /\ InOps(op) /\ kindIdx <= Len(KindOrder)

\* Does somebody range over the map of run r?
Ranging(r) ==
  \E e \in DOMAIN fin : fin[e].at \in {"range", "delete", "home", "report"} /\ fin[e].map = r

\* One step of checkAndRun* and Init: the manager is put into the map, given its
\* namespace and pod manager, its client, and its home namespace and informer.
\* Writing to a map that is being ranged over is fatal if it is noticed.
InitManager ==
  LET m == ManagerOf(Kind)
      s == stage[mgrs][m]
      i == CHOOSE i \in DOMAIN Stages : Stages[i] = s
  IN
  /\ Wanted /\ s # "ready"
  /\ \/ /\ stage' = [stage EXCEPT ![mgrs][m] = Stages[i + 1]]
        /\ IF s = "dialed" /\ m \in Homed /\ home[m] = "none"
           THEN /\ home' = [home EXCEPT ![m] = "active"]
                /\ nsSet' = IF m \in Informed
                            THEN [nsSet EXCEPT ![mgrs] = @ \cup {m}] ELSE nsSet
           ELSE UNCHANGED <<home, nsSet>>
        /\ UNCHANGED <<proc, mainVars, globals, table, closed, routineVars, objects,
                       handler, fin, owed>>
     \/ s = "absent" /\ Ranging(mgrs) /\ Crash

\* The goroutine of this kind is started.
StartRoutine ==
  /\ Wanted /\ stage[mgrs][ManagerOf(Kind)] = "ready"
  /\ at' = [at EXCEPT ![<<run, op, Kind>>] = "start"]
  /\ kindIdx' = KindAfter(kindIdx, op)
  /\ UNCHANGED <<proc, order, run, op, pc, globals, managerVars, refused, clusterVars,
                 handler, fin, owed>>

\* wg.Wait, and the next operation.
Wait ==
  /\ Alive /\ pc = "op" /\ InOps(op) /\ kindIdx > Len(KindOrder)
  /\ \A g \in Routines : g[1] = run /\ g[2] = op => at[g] \in {"unborn", "done"}
  /\ op' = op + 1 /\ kindIdx' = KindAfter(0, op + 1)
  /\ UNCHANGED <<proc, order, run, pc, globals, managerVars, routineVars, clusterVars,
                 handler, fin, owed>>

\* Run calls Finalize.
EndOps ==
  /\ Alive /\ pc = "op" /\ ~InOps(op)
  /\ Goto("finalize")
  /\ fin' = [fin EXCEPT !["main"].at = "flag"]
  /\ UNCHANGED <<proc, order, run, op, kindIdx, globals, managerVars, routineVars, clusterVars,
                 handler, owed>>

\* Mutant: one run too many.
MoreRunsOff == run \in Runs

MoreRuns == run + 1 \in Runs

\* Run is over; SleepTimeAfterRun; the next run, or the end of the process.
NextRun ==
  /\ Alive /\ pc = "sleep"
  /\ IF MoreRuns
     THEN run' = run + 1 /\ Goto("begin") /\ UNCHANGED proc
     ELSE proc' = "exit0" /\ UNCHANGED <<run, pc>>
  /\ UNCHANGED <<order, op, kindIdx, globals, managerVars, routineVars, clusterVars,
                 handler, fin, owed>>

-----------------------------------------------------------------------------
(* A goroutine of an operation: it ensures that its namespace, here the home of
   its manager, is there, creates its object and records it. *)

SameName(g, h) == g[2] = h[2] /\ g[3] = h[3]

Step(g, from, to) == Alive /\ at[g] = from /\ at' = [at EXCEPT ![g] = to]

EnsureNamespace(g) ==
  LET m == Mgr(g) IN
  /\ Step(g, "start", "call")
  /\ IF m \notin Homed \/ m \in nsSet[mgrs] THEN UNCHANGED <<home, nsSet>>
     ELSE /\ home' = IF home[m] = "none" THEN [home EXCEPT ![m] = "active"] ELSE home
          /\ nsSet' = [nsSet EXCEPT ![mgrs] = @ \cup {m}]
  /\ UNCHANGED <<proc, mainVars, globals, stage, table, closed, refused, objects, handler,
                 fin, owed>>

\* A namespace that is not there, or terminating, takes no object. Objects are
\* named after operation and goroutine, in each run alike: one of an earlier run
\* that is still there is in the way.
CallCreate(g) ==
  LET possible == /\ Mgr(g) \in Homed => home[Mgr(g)] = "active"
                  /\ ~\E h \in objects : SameName(g, h)
  IN
  /\ \/ possible /\ Step(g, "call", "made") /\ objects' = objects \cup {g} /\ UNCHANGED refused
     \/ ~possible /\ Step(g, "call", "done") /\ refused' = refused \cup {g} /\ UNCHANGED objects
  /\ UNCHANGED <<proc, mainVars, globals, managerVars, home, handler, fin, owed>>

\* The namespace manager keeps no table. Writing to one that DeleteAll ranges
\* over, or looks services up in, is fatal if it is noticed.
Record(g) ==
  LET m == Mgr(g) IN
  \/ /\ Step(g, "made", "done")
     /\ table' = [table EXCEPT ![mgrs][m] = IF m = "Namespace" THEN {} ELSE @ \cup {g}]
     /\ UNCHANGED <<proc, mainVars, globals, stage, nsSet, closed, refused, clusterVars,
                    handler, fin, owed>>
  \/ /\ Alive /\ at[g] = "made" /\ m \in Informed \cup {"Service"}
     /\ fin["handler"].at = "delete" /\ fin["handler"].map = mgrs /\ fin["handler"].mgr = m
     /\ Crash

Routine(g) == EnsureNamespace(g) \/ CallCreate(g) \/ Record(g)

\* A terminating namespace is gone, with its objects.
Collapse(m) ==
  /\ Alive /\ home[m] = "terminating"
  /\ home' = [home EXCEPT ![m] = "none"]
  /\ objects' = {g \in objects : Mgr(g) # m}
  /\ UNCHANGED <<proc, mainVars, globals, managerVars, routineVars, handler, fin, owed>>

-----------------------------------------------------------------------------
(* Finalize, by main or by the handler (e) *)

NotFinalizing == [at |-> "off", map |-> 0, must |-> {}, seen |-> {}, mgr |-> "none"]

MoveFin(e, from, next) == Alive /\ fin[e].at = from /\ fin' = [fin EXCEPT ![e] = next]

\* Mutant: Cleanup is taken for set.
CleansAlways(r) == TRUE

Cleans(r) == Conf(r).cleanup

\* benchConfig.Cleanup is read, and a message logged.
ReadCleanup(e) ==
  /\ MoveFin(e, "flag", [fin[e] EXCEPT !.map = mgrs, !.at =
       IF benchConfig # 0 /\ Cleans(benchConfig) THEN "map" ELSE "report"])
  /\ UNCHANGED <<proc, mainVars, globals, managerVars, routineVars, clusterVars, handler, owed>>

\* The range over mgrs begins: what is in the map now will be visited, what is
\* added meanwhile may be.
BeginRange(e) ==
  /\ MoveFin(e, "map", [at |-> "range", map |-> mgrs, must |-> InMap(mgrs), seen |-> {},
                        mgr |-> "none"])
  /\ UNCHANGED <<proc, mainVars, globals, managerVars, routineVars, clusterVars, handler, owed>>

\* The next manager, in any order.
VisitManager(e) ==
  /\ \E m \in InMap(fin[e].map) \ fin[e].seen :
       MoveFin(e, "range", [fin[e] EXCEPT !.at = "delete", !.mgr = m,
                                          !.must = @ \ {m}, !.seen = @ \cup {m}])
  /\ UNCHANGED <<proc, mainVars, globals, managerVars, routineVars, clusterVars, handler, owed>>

\* Namespaces and services are looked for by label, whosever they are.
ByLabel == {"Namespace", "Service"}

\* What DeleteAll of m takes for existing when Init is not through: a pod
\* manager of its own, a client, clients for its goroutines.
Dereferences(m, s) ==
  \/ s = "added" /\ m \in Owners \cup ByLabel
  \/ s = "named"

\* The first part of DeleteAll: what was listed by label is deleted, or what was
\* recorded, by name; resources are left to their namespaces.
DeleteObjects(e) ==
  LET m == fin[e].mgr
      r == fin[e].map
      s == stage[r][m]
      listed == {g \in objects : Mgr(g) = m /\ m \in ByLabel}
  IN
  /\ Alive /\ fin[e].at = "delete"
  /\ \/ /\ ~Dereferences(m, s)
        /\ MoveFin(e, "delete", [fin[e] EXCEPT !.at = "home"])
        /\ objects' = objects \ (IF m \in Informed THEN table[r][m] ELSE listed)
        /\ table' = IF m \in Informed THEN [table EXCEPT ![r][m] = {}] ELSE table
        /\ UNCHANGED <<proc, mainVars, globals, stage, nsSet, closed, routineVars, home,
                       handler, owed>>
     \/ (Dereferences(m, s) \/ (s = "dialed" /\ listed # {})) /\ Crash

\* Mutant: the home namespace of a manager with a pod informer is left.
HomesDeletedByName == {"Service", "Resource"}

HomesDeleted == Homed

\* The rest of DeleteAll: the home namespace is deleted if the manager knows it,
\* and the informer's channel closed, which must not happen twice.
DeleteHome(e) ==
  LET m == fin[e].mgr
      r == fin[e].map
      panics == m \in Informed \cap closed[r] \/ stage[r][m] = "named"
  IN
  /\ Alive /\ fin[e].at = "home"
  /\ \/ /\ ~panics
        /\ MoveFin(e, "home", [fin[e] EXCEPT !.at = "range"])
        /\ home' = IF m \in HomesDeleted /\ home[m] = "active" /\ stage[r][m] # "added"
                   THEN [home EXCEPT ![m] = "terminating"] ELSE home
        /\ nsSet' = [nsSet EXCEPT ![r] = @ \ {m}]
        /\ closed' = IF m \in Informed THEN [closed EXCEPT ![r] = @ \cup {m}] ELSE closed
        /\ UNCHANGED <<proc, mainVars, globals, stage, table, routineVars, objects, handler,
                       owed>>
     \/ panics /\ Crash

\* All are visited; the second range takes the map anew.
EndRange(e) ==
  /\ fin[e].must = {}
  /\ MoveFin(e, "range", [NotFinalizing EXCEPT !.at = "report", !.map = mgrs])
  /\ UNCHANGED <<proc, mainVars, globals, managerVars, routineVars, clusterVars, handler, owed>>

\* Mutant: the handler returns from Finalize and does not exit.
AfterFinalizeStay(e) ==
  IF e = "main" THEN Goto("sleep") /\ UNCHANGED proc ELSE UNCHANGED <<pc, proc>>

\* Run returns to main; the handler ends the process.
AfterFinalize(e) ==
  IF e = "main" THEN Goto("sleep") /\ UNCHANGED proc ELSE proc' = "exit1" /\ UNCHANGED pc

\* CalculateStats and LogStats of all managers change nothing of this, but those
\* that own a pod manager dereference it.
Report(e) ==
  \/ /\ MoveFin(e, "report", NotFinalizing)
     /\ \A m \in Owners \cap InMap(mgrs) : stage[mgrs][m] # "added"
     /\ AfterFinalize(e)
     /\ UNCHANGED <<order, run, op, kindIdx, globals, managerVars, routineVars, clusterVars,
                    handler, owed>>
  \/ /\ Alive /\ fin[e].at = "report"
     /\ \E m \in Owners \cap InMap(mgrs) : stage[mgrs][m] = "added"
     /\ Crash

Finalize(e) ==
  \/ ReadCleanup(e) \/ BeginRange(e) \/ VisitManager(e) \/ DeleteObjects(e)
  \/ DeleteHome(e) \/ EndRange(e) \/ Report(e)

-----------------------------------------------------------------------------
(* The signal handler *)

\* The goroutine has come to its receive.
HandlerReady ==
  /\ Alive /\ handler = "starting"
  /\ handler' = "waiting"
  /\ UNCHANGED <<proc, mainVars, globals, managerVars, routineVars, clusterVars, fin, owed>>

\* A signal. The channel has no buffer and the runtime does not wait for a
\* receiver: one that comes at another time is dropped, and changes nothing.
Signal ==
  /\ Alive /\ handler = "waiting"
  /\ handler' = "taken"
  /\ fin' = [fin EXCEPT !["handler"].at = "flag"]
  /\ owed' = IF benchConfig # 0 /\ Conf(benchConfig).cleanup
             THEN {g \in objects : g[1] = benchConfig} ELSE {}
  /\ UNCHANGED <<proc, mainVars, globals, managerVars, routineVars, clusterVars>>

-----------------------------------------------------------------------------

Init ==
  /\ proc = "running" /\ pc = "sort"
  /\ order \in SetToSeqs(Configs)
  /\ run = 1 /\ op = 1 /\ kindIdx = 1
  /\ mgrs = 0 /\ benchConfig = 0
  /\ stage = [r \in Runs |-> [m \in ManagerNames |-> "absent"]]
  /\ table = [r \in Runs |-> [m \in ManagerNames |-> {}]]
  /\ nsSet = [r \in Runs |-> {}] /\ closed = [r \in Runs |-> {}]
  /\ at = [g \in Routines |-> "unborn"] /\ refused = {}
  /\ home = [m \in Homed |-> "none"] /\ objects = {}
  /\ handler = "off" /\ owed = {}
  /\ fin = [e \in {"main", "handler"} |-> NotFinalizing]

Main ==
  \/ SortConfigs \/ BeginRun \/ SetConfig \/ InitManager \/ StartRoutine
  \/ Wait \/ EndOps \/ Finalize("main") \/ NextRun

Handler == HandlerReady \/ Finalize("handler")

Next ==
  \/ Main \/ Handler \/ Signal
  \/ \E g \in Routines : Routine(g)
  \/ \E m \in Homed : Collapse(m)

Spec == Init /\ [][Next]_vars

\* The handler goes on once it has the signal. Nothing is asked of the others:
\* main may be in an API call for ever, and the cluster keep its namespaces.
Fairness == WF_vars(Handler)

FairSpec == Spec /\ Fairness

-----------------------------------------------------------------------------
(* Properties *)

FinStates == {"off", "flag", "map", "range", "delete", "home", "report"}

TypeOK ==
  /\ proc \in {"running", "exit0", "exit1", "crash"}
  /\ order \in SetToSeqs(Configs) /\ run \in Runs /\ op \in Nat \ {0}
  /\ pc \in {"sort", "begin", "conf", "op", "finalize", "sleep"}
  /\ kindIdx \in 1 .. Len(KindOrder) + 1
  /\ mgrs \in Runs \cup {0} /\ benchConfig \in Runs \cup {0}
  /\ stage \in [Runs -> [ManagerNames -> {Stages[i] : i \in DOMAIN Stages}]]
  /\ \A r \in Runs, m \in ManagerNames : table[r][m] \subseteq {g \in Routines : Mgr(g) = m}
  /\ nsSet \in [Runs -> SUBSET ManagerNames] /\ closed \in [Runs -> SUBSET Informed]
  /\ at \in [Routines -> {"unborn", "start", "call", "made", "done"}]
  /\ refused \subseteq Routines /\ objects \subseteq Routines /\ owed \subseteq Routines
  /\ home \in [Homed -> {"none", "active", "terminating"}]
  /\ handler \in {"off", "starting", "waiting", "taken"}
  /\ \A e \in {"main", "handler"} :
       /\ fin[e].at \in FinStates /\ fin[e].map \in Runs \cup {0}
       /\ fin[e].must \subseteq InMap(fin[e].map) /\ fin[e].seen \subseteq InMap(fin[e].map)

\* "Sort the config files by the lightness of workload, from light to heavy.
\* This is determined by the maximum number of pods": in spite of a comparison
\* that is no order, runs come in this order, from any order of the files.
RunsLightToHeavy ==
  pc # "sort" => \A i \in 1 .. Len(order) - 1 : PodsMax(order[i]) <= PodsMax(order[i + 1])

\* As long as no signal comes, the process does not crash: no channel is closed
\* twice by the Finalize of different runs, none is closed before it is made.
UninterruptedNeverCrashes == handler # "taken" => proc # "crash"

\* The handler's exit status is reached only after the cleanup: what the current
\* run had in the cluster when the signal was taken is deleted or doomed with
\* its namespace, whatever main and its goroutines did meanwhile.
InterruptCleans ==
  proc = "exit1" =>
    \A g \in owed : g \in objects => Mgr(g) \in Homed /\ home[Mgr(g)] = "terminating"

\* Runs share the names of namespaces and objects. All that an earlier run can do
\* to a later one is: by its cleanup, leave a namespace terminating; without a
\* cleanup, leave an object of the same name.
RefusedByEarlierRuns ==
  \A g \in refused : handler # "taken" =>
    \E h \in Routines :
      /\ h[1] < g[1] /\ at[h] = "done" /\ Mgr(h) = Mgr(g)
      /\ Conf(h[1]).cleanup \/ SameName(g, h)

\* A signal that was taken ends the process, whatever main does.
InterruptEnds == handler = "taken" ~> ~Alive

=============================================================================
