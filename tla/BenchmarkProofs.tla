-------------------------- MODULE BenchmarkProofs --------------------------
(***************************************************************************)
(* For any configurations, in any order, and whatever the goroutines and   *)
(* the cluster do: without a signal the process does not crash, runs come  *)
(* from light to heavy, an object is refused only for what an earlier run  *)
(* left, and when the handler of a signal exits the run is cleaned up.     *)
(***************************************************************************)
EXTENDS Benchmark, FiniteInduction, TLAPS

FinRecord == [at : FinStates, map : Runs \cup {0}, must : SUBSET ManagerNames,
              seen : SUBSET ManagerNames, mgr : ManagerNames \cup {"none"}]

Types ==
  /\ run \in Runs
  /\ stage \in [Runs -> [ManagerNames -> {"absent", "added", "named", "dialed", "ready"}]]
  /\ closed \in [Runs -> SUBSET Informed]
  /\ fin \in [{"main", "handler"} -> FinRecord]
  /\ pc \in {"sort", "begin", "conf", "op", "finalize", "sleep"}
  /\ pc \in {"conf", "op", "finalize"} => mgrs = run
  /\ kindIdx \in 1 .. 9

\* The runs to come have left no trace; in the current one a manager is initialised
\* before the next one is put into the map.
ManagersInTurn ==
  /\ \A r \in Runs : r > run \/ (r = run /\ pc \in {"sort", "begin", "conf"}) =>
       /\ closed[r] = {}
       /\ \A m \in ManagerNames : stage[r][m] = "absent"
  /\ pc = "op" =>
       /\ closed[run] = {}
       /\ \A m \in ManagerNames :
            \/ stage[run][m] \in {"absent", "ready"}
            \/ InOps(op) /\ kindIdx <= Len(KindOrder) /\ m = ManagerOf(Kind)
  /\ pc = "finalize" => \A m \in ManagerNames : stage[run][m] \in {"absent", "ready"}

\* Only Run finalizes, and the channels it has closed are those of managers that
\* it has visited.
FinalizesOnce ==
  /\ fin["handler"].at = "off"
  /\ pc # "finalize" => fin["main"].at = "off"
  /\ pc = "finalize" =>
       LET f == fin["main"] IN
       /\ f.at \in {"flag", "map"} => closed[run] = {}
       /\ f.at \in {"range", "delete", "home"} => f.map = run
       /\ f.at = "range" => closed[run] \subseteq f.seen
       /\ f.at \in {"delete", "home"} =>
            /\ f.mgr \in ManagerNames /\ stage[run][f.mgr] = "ready"
            /\ f.mgr \in f.seen /\ closed[run] \subseteq f.seen \ {f.mgr}

Calm == proc # "crash" /\ Types /\ ManagersInTurn /\ FinalizesOnce

\* The handler's goroutine is started after the sort.
SortFirst == pc = "sort" => handler = "off"

IInv == SortFirst /\ (handler # "taken" => Calm)

\* What Calm is about.
view == <<proc, order, run, op, pc, kindIdx, mgrs, stage, closed, fin>>

-----------------------------------------------------------------------------

LEMMA RunsAreNumbers == Runs \subseteq Nat /\ 1 \in Runs
<1>1. Cardinality(Configs) \in Nat
  BY SettingAssumption, FS_CardinalityType
<1>2. Cardinality(Configs) # 0
  BY SettingAssumption, FS_EmptySet
<1> QED
  BY <1>1, <1>2 DEF Runs

LEMMA StageNames ==
  /\ \A i \in DOMAIN Stages : Stages[i] \in {"absent", "added", "named", "dialed", "ready"}
  /\ \A i \in DOMAIN Stages : Stages[i] # "ready" => i + 1 \in DOMAIN Stages
  /\ \A s \in {"absent", "added", "named", "dialed", "ready"} : \E i \in DOMAIN Stages : Stages[i] = s
<1> DEFINE S == <<"absent", "added", "named", "dialed", "ready">>
<1>1. Stages = S /\ DOMAIN S = 1 .. 5
  BY DEF Stages
<1>2. S[1] = "absent" /\ S[2] = "added" /\ S[3] = "named" /\ S[4] = "dialed" /\ S[5] = "ready"
  OBVIOUS
<1> HIDE DEF S
<1>3. \A i \in 1 .. 5 : i = 1 \/ i = 2 \/ i = 3 \/ i = 4 \/ i = 5
  OBVIOUS
<1> QED
  BY <1>1, <1>2, <1>3

LEMMA EightKinds == Len(KindOrder) = 8
BY DEF KindOrder

LEMMA KindAfterType ==
  ASSUME NEW k \in Nat, NEW o
  PROVE  KindAfter(k, o) \in 1 .. 9
<1> DEFINE S == {j \in k + 1 .. 8 : InOps(o) /\ KindOrder[j] \in Conf(run).ops[o].kinds} \cup {9}
<1>1. KindAfter(k, o) = Min(S)
  BY EightKinds DEF KindAfter
<1>2. S \subseteq 1 .. 9 /\ 9 \in S
  OBVIOUS
<1> HIDE DEF S
<1>3. \A j \in 1 .. 9 : \/ j = 1 \/ j = 2 \/ j = 3 \/ j = 4 \/ j = 5
                         \/ j = 6 \/ j = 7 \/ j = 8 \/ j = 9
  OBVIOUS
<1>4. \E x \in S : \A y \in S : x <= y
  BY <1>2, <1>3
<1>5. Min(S) \in S
  BY <1>4 DEF Min
<1> QED
  BY <1>1, <1>2, <1>5

LEMMA SameView ==
  ASSUME Calm, UNCHANGED view
  PROVE  Calm'
BY DEF Calm, view, Types, ManagersInTurn, FinalizesOnce, InOps, Conf, Kind

LEMMA InitInv == Init => IInv
<1> SUFFICES ASSUME Init PROVE IInv
  OBVIOUS
<1>1. Types
  <2>1. NotFinalizing \in FinRecord
    BY DEF NotFinalizing, FinRecord, FinStates
  <2> QED
    BY <2>1, RunsAreNumbers DEF Init, Types
<1>2. ManagersInTurn
  BY DEF Init, ManagersInTurn
<1>3. FinalizesOnce
  BY DEF Init, FinalizesOnce, NotFinalizing
<1> QED
  BY <1>1, <1>2, <1>3 DEF Init, IInv, SortFirst, Calm

\* The steps of main but for Finalize.
LEMMA MainStep ==
  ASSUME Calm, SortConfigs \/ BeginRun \/ SetConfig \/ InitManager \/ StartRoutine \/ Wait
               \/ EndOps \/ NextRun
  PROVE  Calm'
<1> USE RunsAreNumbers, EightKinds DEF Calm, mainVars, globals, managerVars, Goto
<1>0. /\ fin["main"] \in FinRecord /\ fin["handler"] \in FinRecord
      /\ run \in Nat /\ kindIdx \in Nat
  BY DEF Types
<1>1. CASE SortConfigs
  BY <1>1 DEF SortConfigs, Types, ManagersInTurn, FinalizesOnce
<1>2. CASE BeginRun
  BY <1>2 DEF BeginRun, Fresh, Types, ManagersInTurn, FinalizesOnce
<1>3. CASE SetConfig
  <2>1. /\ pc = "conf" /\ pc' = "op" /\ kindIdx' \in 1 .. 9
        /\ UNCHANGED <<proc, run, mgrs, stage, closed, fin>>
    BY <1>3, KindAfterType DEF SetConfig
  <2> QED
    BY <2>1 DEF Types, ManagersInTurn, FinalizesOnce
<1>4. CASE InitManager
  <2> DEFINE m == ManagerOf(Kind)
             s == stage[mgrs][m]
             i == CHOOSE i \in DOMAIN Stages : Stages[i] = s
  <2>1. /\ pc = "op" /\ InOps(op) /\ kindIdx <= Len(KindOrder) /\ mgrs = run /\ s # "ready"
    BY <1>4 DEF InitManager, Wanted, Types
  <2>2. ~Ranging(mgrs)
    <3>1. \A e \in DOMAIN fin : fin[e].at = "off"
      BY <2>1 DEF Types, FinalizesOnce
    <3> QED
      BY <3>1 DEF Ranging
  <2>3. /\ stage' = [stage EXCEPT ![mgrs][m] = Stages[i + 1]]
        /\ UNCHANGED <<proc, order, run, op, pc, kindIdx, mgrs, closed, fin>>
    BY <1>4, <2>2 DEF InitManager
  <2>4. \A n \in ManagerNames : n # m => stage'[run][n] = stage[run][n]
    BY <2>1, <2>3 DEF Types
  <2>5. \A r \in Runs : r # run => stage'[r] = stage[r]
    BY <2>1, <2>3 DEF Types
  <2>6. stage' \in [Runs -> [ManagerNames -> {"absent", "added", "named", "dialed", "ready"}]]
    <3>1. CASE m \in ManagerNames
      <4>1. s \in {"absent", "added", "named", "dialed", "ready"}
        BY <2>1, <3>1 DEF Types
      <4>2. i \in DOMAIN Stages /\ Stages[i] = s
        BY <4>1, StageNames
      <4>3. Stages[i + 1] \in {"absent", "added", "named", "dialed", "ready"}
        BY <2>1, <4>2, StageNames
      <4> QED
        <5>1. [stage[run] EXCEPT ![m] = Stages[i + 1]]
                \in [ManagerNames -> {"absent", "added", "named", "dialed", "ready"}]
          BY <2>1, <3>1, <4>3 DEF Types
        <5>2. stage' = [stage EXCEPT ![run] = [stage[run] EXCEPT ![m] = Stages[i + 1]]]
          BY <2>1, <2>3
        <5> HIDE DEF m, i
        <5> QED
          BY <5>1, <5>2 DEF Types
    <3>2. CASE m \notin ManagerNames
      BY <2>1, <2>3, <3>2 DEF Types
    <3> QED
      BY <3>1, <3>2
  <2> HIDE DEF m, s, i
  <2>7. Types'
    BY <2>1, <2>3, <2>6 DEF Types
  <2>8. ManagersInTurn'
    <3>1. InOps(op)' /\ Kind' = Kind
      BY <2>1, <2>3 DEF InOps, Conf, Kind
    <3> QED
      BY <1>0, <2>1, <2>3, <2>4, <2>5, <3>1 DEF ManagersInTurn, m
  <2>9. FinalizesOnce'
    BY <2>1, <2>3 DEF FinalizesOnce
  <2> QED
    BY <2>3, <2>7, <2>8, <2>9
<1>5. CASE StartRoutine
  <2>1. /\ pc = "op" /\ mgrs = run /\ stage[mgrs][ManagerOf(Kind)] = "ready"
        /\ UNCHANGED <<proc, run, pc, mgrs, stage, closed, fin>> /\ kindIdx' \in 1 .. 9
    BY <1>0, <1>5, KindAfterType DEF StartRoutine, Wanted, Types
  <2>2. \A m \in ManagerNames : stage[run][m] \in {"absent", "ready"}
    BY <2>1 DEF ManagersInTurn
  <2> QED
    BY <2>1, <2>2 DEF Types, ManagersInTurn, FinalizesOnce
<1>6. CASE Wait
  <2>1. /\ pc = "op" /\ ~(kindIdx <= Len(KindOrder)) /\ kindIdx' \in 1 .. 9
        /\ UNCHANGED <<proc, run, pc, mgrs, stage, closed, fin>>
    BY <1>0, <1>6, KindAfterType DEF Wait
  <2>2. \A m \in ManagerNames : stage[run][m] \in {"absent", "ready"}
    BY <2>1 DEF ManagersInTurn
  <2> QED
    BY <2>1, <2>2 DEF Types, ManagersInTurn, FinalizesOnce
<1>7. CASE EndOps
  <2>1. /\ pc = "op" /\ ~InOps(op) /\ pc' = "finalize"
        /\ fin' = [fin EXCEPT !["main"].at = "flag"]
        /\ UNCHANGED <<proc, run, kindIdx, mgrs, stage, closed>>
    BY <1>7 DEF EndOps
  <2>2. \A m \in ManagerNames : stage[run][m] \in {"absent", "ready"}
    BY <2>1 DEF ManagersInTurn
  <2>3. /\ fin' \in [{"main", "handler"} -> FinRecord]
        /\ fin'["main"].at = "flag" /\ fin'["handler"] = fin["handler"]
    BY <1>0, <2>1 DEF Types, FinRecord, FinStates
  <2> QED
    BY <1>0, <2>1, <2>2, <2>3 DEF Types, ManagersInTurn, FinalizesOnce
<1>8. CASE NextRun
  <2>1. /\ pc = "sleep" /\ UNCHANGED <<kindIdx, mgrs, stage, closed, fin>>
        /\ \/ run + 1 \in Runs /\ run' = run + 1 /\ pc' = "begin" /\ proc' = proc
           \/ proc' = "exit0" /\ run' = run /\ pc' = pc
    BY <1>8 DEF NextRun, MoreRuns
  <2> QED
    BY <1>0, <2>1 DEF Types, ManagersInTurn, FinalizesOnce
<1> QED
  BY <1>1, <1>2, <1>3, <1>4, <1>5, <1>6, <1>7, <1>8

\* Finalize called by Run.
LEMMA FinalizeStep ==
  ASSUME Calm, Finalize("main")
  PROVE  Calm'
<1> USE RunsAreNumbers, EightKinds DEF Calm, mainVars, globals, managerVars, Goto
<1> DEFINE f == fin["main"]
<1>0. f \in FinRecord /\ fin["handler"] \in FinRecord /\ run \in Nat /\ run \in Runs
  BY DEF Types
<1>1. f.at # "off"
  BY DEF Finalize, ReadCleanup, BeginRange, VisitManager, DeleteObjects, DeleteHome, EndRange,
         Report, MoveFin
<1>2. pc = "finalize" /\ mgrs = run /\ \A m \in ManagerNames : stage[run][m] \in {"absent", "ready"}
  BY <1>1 DEF FinalizesOnce, Types, ManagersInTurn
<1>m. \A m \in InMap(run) : m \in ManagerNames /\ stage[run][m] = "ready"
  BY <1>0, <1>2, RunsAreNumbers DEF InMap, Runs
\* A step that stays within Finalize.
<1>s. ASSUME NEW next \in FinRecord, fin' = [fin EXCEPT !["main"] = next],
             UNCHANGED <<proc, order, run, op, pc, kindIdx, mgrs, stage>>,
             closed' \in [Runs -> SUBSET Informed],
             \A r \in Runs : r # run => closed'[r] = closed[r],
             next.at # "off",
             next.at \in {"flag", "map"} => closed'[run] = {},
             next.at \in {"range", "delete", "home"} => next.map = run,
             next.at = "range" => closed'[run] \subseteq next.seen,
             next.at \in {"delete", "home"} =>
               /\ next.mgr \in ManagerNames /\ stage[run][next.mgr] = "ready"
               /\ next.mgr \in next.seen /\ closed'[run] \subseteq next.seen \ {next.mgr}
      PROVE  Calm'
  <2>1. fin' \in [{"main", "handler"} -> FinRecord] /\ fin'["main"] = next
        /\ fin'["handler"] = fin["handler"]
    BY <1>s DEF Types
  <2>2. Types'
    BY <1>s, <2>1 DEF Types
  <2>3. ManagersInTurn'
    BY <1>0, <1>2, <1>s DEF ManagersInTurn
  <2>4. FinalizesOnce'
    BY <1>2, <1>s, <2>1 DEF FinalizesOnce
  <2> QED
    BY <1>s, <2>2, <2>3, <2>4
<1>3. CASE ReadCleanup("main")
  <2> DEFINE next == [f EXCEPT !.map = mgrs, !.at =
                        IF benchConfig # 0 /\ Cleans(benchConfig) THEN "map" ELSE "report"]
  <2>1. /\ f.at = "flag" /\ fin' = [fin EXCEPT !["main"] = next]
        /\ UNCHANGED <<proc, order, run, op, pc, kindIdx, mgrs, stage, closed>>
    BY <1>3 DEF ReadCleanup, MoveFin
  <2>2. next \in FinRecord /\ next.at \in {"map", "report"}
    BY <1>0, <1>2 DEF FinRecord, FinStates
  <2> HIDE DEF next
  <2> QED
    BY <1>2, <1>s, <2>1, <2>2 DEF FinalizesOnce, Types
<1>4. CASE BeginRange("main")
  <2> DEFINE next == [at |-> "range", map |-> mgrs, must |-> InMap(mgrs), seen |-> {},
                      mgr |-> "none"]
  <2>1. /\ f.at = "map" /\ fin' = [fin EXCEPT !["main"] = next]
        /\ UNCHANGED <<proc, order, run, op, pc, kindIdx, mgrs, stage, closed>>
    BY <1>4 DEF BeginRange, MoveFin
  <2>2. next \in FinRecord /\ next.at = "range" /\ next.map = run /\ next.seen = {}
    BY <1>0, <1>2, <1>m DEF FinRecord, FinStates
  <2> HIDE DEF next
  <2> QED
    BY <1>2, <1>s, <2>1, <2>2 DEF FinalizesOnce, Types
<1>5. CASE VisitManager("main")
  <2>1. /\ f.at = "range" /\ f.map = run /\ closed[run] \subseteq f.seen
        /\ UNCHANGED <<proc, order, run, op, pc, kindIdx, mgrs, stage, closed>>
    BY <1>2, <1>5 DEF VisitManager, MoveFin, FinalizesOnce
  <2>2. PICK m \in InMap(run) \ f.seen :
          fin' = [fin EXCEPT !["main"] = [f EXCEPT !.at = "delete", !.mgr = m, !.must = @ \ {m},
                                                   !.seen = @ \cup {m}]]
    BY <1>5, <2>1 DEF VisitManager, MoveFin
  <2> DEFINE next == [f EXCEPT !.at = "delete", !.mgr = m, !.must = @ \ {m}, !.seen = @ \cup {m}]
  <2>3. /\ next \in FinRecord /\ next.at = "delete" /\ next.map = run /\ next.mgr = m
        /\ next.seen = f.seen \cup {m}
    <3>1. m \in ManagerNames
      BY <1>m
    <3>2. f \in FinRecord
      BY <1>0
    <3> HIDE DEF f
    <3> QED
      BY <2>1, <3>1, <3>2 DEF FinRecord, FinStates
  <2>4. fin' = [fin EXCEPT !["main"] = next]
    BY <2>2
  <2> HIDE DEF next
  <2> QED
    BY <1>m, <1>s, <2>1, <2>2, <2>3, <2>4 DEF Types
<1>6. CASE DeleteObjects("main")
  <2>1. f.at = "delete" /\ f.map = run /\ f.mgr \in ManagerNames /\ stage[run][f.mgr] = "ready"
    BY <1>2, <1>6 DEF DeleteObjects, FinalizesOnce
  <2> DEFINE next == [f EXCEPT !.at = "home"]
  <2>2. /\ fin' = [fin EXCEPT !["main"] = next]
        /\ UNCHANGED <<proc, order, run, op, pc, kindIdx, mgrs, stage, closed>>
    BY <1>6, <2>1 DEF DeleteObjects, MoveFin, Dereferences
  <2>3. /\ next \in FinRecord /\ next.at = "home" /\ next.map = f.map /\ next.mgr = f.mgr
        /\ next.seen = f.seen
    BY <1>0 DEF FinRecord, FinStates
  <2> HIDE DEF next
  <2> QED
    BY <1>2, <1>s, <2>1, <2>2, <2>3 DEF FinalizesOnce, Types
<1>7. CASE DeleteHome("main")
  <2>1. /\ f.at = "home" /\ f.map = run /\ f.mgr \in ManagerNames /\ stage[run][f.mgr] = "ready"
        /\ f.mgr \in f.seen /\ closed[run] \subseteq f.seen \ {f.mgr}
    BY <1>2, <1>7 DEF DeleteHome, FinalizesOnce
  <2>2. ~(f.mgr \in Informed \cap closed[run] \/ stage[run][f.mgr] = "named")
    BY <2>1
  <2> DEFINE next == [f EXCEPT !.at = "range"]
  <2>3. /\ fin' = [fin EXCEPT !["main"] = next]
        /\ closed' = IF f.mgr \in Informed THEN [closed EXCEPT ![run] = @ \cup {f.mgr}] ELSE closed
        /\ UNCHANGED <<proc, order, run, op, pc, kindIdx, mgrs, stage>>
    BY <1>7, <2>1, <2>2 DEF DeleteHome, MoveFin
  <2>4. /\ next \in FinRecord /\ next.at = "range" /\ next.map = run /\ next.seen = f.seen
    BY <1>0, <2>1 DEF FinRecord, FinStates
  <2>5. /\ closed' \in [Runs -> SUBSET Informed]
        /\ \A r \in Runs : r # run => closed'[r] = closed[r]
        /\ closed'[run] \subseteq f.seen
    BY <1>0, <2>1, <2>3 DEF Types
  <2> HIDE DEF next
  <2> QED
    BY <1>s, <2>3, <2>4, <2>5
<1>8. CASE EndRange("main")
  <2> DEFINE next == [NotFinalizing EXCEPT !.at = "report", !.map = mgrs]
  <2>1. /\ fin' = [fin EXCEPT !["main"] = next]
        /\ UNCHANGED <<proc, order, run, op, pc, kindIdx, mgrs, stage, closed>>
    BY <1>8 DEF EndRange, MoveFin
  <2>2. next \in FinRecord /\ next.at = "report"
    BY <1>0, <1>2 DEF NotFinalizing, FinRecord, FinStates
  <2> HIDE DEF next
  <2> QED
    BY <1>s, <2>1, <2>2 DEF Types
<1>9. CASE Report("main")
  <2>1. \A m \in Owners \cap InMap(mgrs) : stage[mgrs][m] # "added"
    BY <1>2, <1>m
  <2>2. /\ fin' = [fin EXCEPT !["main"] = NotFinalizing] /\ pc' = "sleep"
        /\ UNCHANGED <<proc, order, run, op, kindIdx, mgrs, stage, closed>>
    BY <1>9, <2>1 DEF Report, MoveFin, AfterFinalize
  <2>3. /\ fin' \in [{"main", "handler"} -> FinRecord] /\ fin'["main"].at = "off"
        /\ fin'["handler"] = fin["handler"]
    BY <2>2 DEF NotFinalizing, FinRecord, FinStates, Types
  <2> QED
    BY <1>0, <1>2, <2>2, <2>3 DEF Types, ManagersInTurn, FinalizesOnce
<1> QED
  BY <1>3, <1>4, <1>5, <1>6, <1>7, <1>8, <1>9 DEF Finalize

\* The others leave the managers and main alone.
LEMMA OtherStep ==
  ASSUME Calm,
         \/ HandlerReady
         \/ \E g \in Routines : Routine(g)
         \/ \E m \in Homed : Collapse(m)
  PROVE  Calm'
<1>1. UNCHANGED view
  <2>1. ~(fin["handler"].at = "delete")
    BY DEF Calm, FinalizesOnce
  <2>2. ASSUME NEW g \in Routines, Routine(g) PROVE UNCHANGED view
    <3>1. CASE EnsureNamespace(g)
      BY <3>1 DEF EnsureNamespace, view, mainVars, globals
    <3>2. CASE CallCreate(g)
      BY <3>2 DEF CallCreate, view, mainVars, globals, managerVars
    <3>3. CASE Record(g)
      BY <2>1, <3>3 DEF Record, view, mainVars, globals
    <3> QED
      BY <2>2, <3>1, <3>2, <3>3 DEF Routine
  <2>3. ASSUME NEW m \in Homed, Collapse(m) PROVE UNCHANGED view
    BY <2>3 DEF Collapse, view, mainVars, globals, managerVars
  <2>4. CASE HandlerReady
    BY <2>4 DEF HandlerReady, view, mainVars, globals, managerVars
  <2> QED
    BY <2>2, <2>3, <2>4
<1> QED
  BY <1>1, SameView

LEMMA InvStep ==
  ASSUME IInv, [Next]_vars
  PROVE  IInv'
<1> USE DEF mainVars, globals, managerVars, Goto
\* Nobody returns to the sort, and only SortConfigs starts the handler's goroutine.
<1>1. CASE SortConfigs
  BY <1>1, MainStep DEF SortConfigs, IInv, SortFirst
<1>2. CASE BeginRun \/ SetConfig \/ InitManager \/ StartRoutine \/ Wait \/ EndOps \/ NextRun
  <2>1. handler' = handler /\ (pc' = pc \/ pc' # "sort")
    BY <1>2 DEF BeginRun, SetConfig, InitManager, Crash, StartRoutine, Wait, EndOps, NextRun
  <2> QED
    BY <1>2, <2>1, MainStep DEF IInv, SortFirst
<1>3. ASSUME NEW e \in {"main", "handler"}, Finalize(e)
      PROVE  IInv'
  <2>1. handler' = handler /\ (pc' = pc \/ pc' # "sort")
    BY <1>3 DEF Finalize, ReadCleanup, BeginRange, VisitManager, DeleteObjects, DeleteHome,
                EndRange, Report, Crash, AfterFinalize
  <2>2. e = "handler" => ~Calm
    BY <1>3 DEF Finalize, ReadCleanup, BeginRange, VisitManager, DeleteObjects, DeleteHome,
                EndRange, Report, MoveFin, Calm, FinalizesOnce
  <2> QED
    BY <1>3, <2>1, <2>2, FinalizeStep DEF IInv, SortFirst
<1>4. CASE HandlerReady
  BY <1>4, OtherStep DEF HandlerReady, IInv, SortFirst
<1>5. CASE Signal
  BY <1>5 DEF Signal, IInv, SortFirst
<1>6. ASSUME NEW g \in Routines, Routine(g)
      PROVE  IInv'
  <2>1. handler' = handler /\ pc' = pc
    BY <1>6 DEF Routine, EnsureNamespace, CallCreate, Record, Crash
  <2> QED
    BY <1>6, <2>1, OtherStep DEF IInv, SortFirst
<1>7. ASSUME NEW m \in Homed, Collapse(m)
      PROVE  IInv'
  <2>1. handler' = handler /\ pc' = pc
    BY <1>7 DEF Collapse
  <2> QED
    BY <1>7, <2>1, OtherStep DEF IInv, SortFirst
<1>8. CASE UNCHANGED vars
  <2>1. handler' = handler /\ pc' = pc /\ UNCHANGED view
    BY <1>8 DEF vars, view
  <2> QED
    BY <2>1, SameView DEF IInv, SortFirst
<1> QED
  BY <1>1, <1>2, <1>3, <1>4, <1>5, <1>6, <1>7, <1>8 DEF Next, Main, Handler

\* No sequence of runs makes main or a goroutine panic: no channel is closed twice
\* or before it is made, no manager is used before its Init is through, for any
\* configurations.
THEOREM OnlyInterruptsCrash == Spec => []UninterruptedNeverCrashes
<1>1. IInv => UninterruptedNeverCrashes
  BY DEF IInv, Calm, UninterruptedNeverCrashes
<1> QED
  BY <1>1, InitInv, InvStep, PTL DEF Spec

-----------------------------------------------------------------------------
(* The sort *)

LEMMA MaxIsLargest ==
  ASSUME NEW S \in SUBSET Int, IsFiniteSet(S), S # {}
  PROVE  Max(S) \in S /\ \A n \in S : n <= Max(S)
<1>1. \E m \in S : \A n \in S : n <= m
  BY LargestOf
<1>2. \E m \in S : \A n \in S : m >= n
  BY <1>1
<1> QED
  BY <1>2 DEF Max

LEMMA MinIsLeast ==
  ASSUME NEW S \in SUBSET Int, IsFiniteSet(S), S # {}
  PROVE  Min(S) \in S /\ \A n \in S : Min(S) <= n
<1>1. \E m \in S : \A n \in S : m <= n
  BY LeastOf
<1> QED
  BY <1>1 DEF Min

LEMMA PodsMaxType ==
  ASSUME NEW c \in Configs
  PROVE  PodsMax(c) \in Nat /\ (Setting[c].ops = << >> => PodsMax(c) = 0)
<1> DEFINE ops == Setting[c].ops
           f == [i \in DOMAIN ops |-> ops[i].pods]
           S == {ops[i].pods : i \in DOMAIN ops} \cup {0}
<1>1. ops \in Seq([kinds : SUBSET Kinds, pods : Nat])
  BY SettingAssumption
<1> HIDE DEF ops
<1>2. DOMAIN ops = 1 .. Len(ops) /\ Len(ops) \in Nat
  BY <1>1
<1>3. S \subseteq Nat
  <2>1. \A T : \A q \in Seq(T) : \A i \in DOMAIN q : q[i] \in T
    OBVIOUS
  <2>2. \A i \in DOMAIN ops : ops[i] \in [kinds : SUBSET Kinds, pods : Nat]
    BY <1>1, <2>1, Zenon
  <2>3. \A i \in DOMAIN ops : ops[i].pods \in Nat
    BY <2>2
  <2> QED
    BY <2>3
<1>4. IsFiniteSet(S)
  <2>1. IsFiniteSet(DOMAIN ops)
    BY <1>2, FS_Interval
  <2>2. IsFiniteSet({f[i] : i \in DOMAIN ops})
    BY <2>1, ImageFinite
  <2>3. {f[i] : i \in DOMAIN ops} = {ops[i].pods : i \in DOMAIN ops}
    OBVIOUS
  <2> QED
    BY <2>2, <2>3, FS_AddElement
<1>5. PodsMax(c) = Max(S)
  BY DEF PodsMax, ops
<1>7. ops = << >> => S = {0}
  OBVIOUS
<1>8. S # {}
  OBVIOUS
<1> HIDE DEF S
<1>6. Max(S) \in S
  BY <1>3, <1>4, <1>8, MaxIsLargest
<1> QED
  BY <1>3, <1>5, <1>6, <1>7 DEF ops

\* The first i elements are in the order of their weight.
Ascends(t, i) == \A j, k \in 1 .. i : j <= k => PodsMax(t[j]) <= PodsMax(t[k])

\* Elements have one place.
Orders == SetToSeqs(Configs)

LEMMA OrdersAreSeqs ==
  /\ Cardinality(Configs) \in Nat
  /\ \A t \in Orders : /\ t \in Seq(Configs) /\ Len(t) = Cardinality(Configs)
                       /\ \A i, j \in 1 .. Len(t) : t[i] = t[j] => i = j
<1>1. Cardinality(Configs) \in Nat
  BY SettingAssumption, FS_CardinalityType
<1>2. ASSUME NEW t \in Orders
      PROVE  /\ t \in [1 .. Cardinality(Configs) -> Configs]
             /\ \A i, j \in 1 .. Cardinality(Configs) : t[i] = t[j] => i = j
  BY DEF Orders, SetToSeqs
<1> QED
  BY <1>1, <1>2

\* Moving element i down to place k.
LEMMA Moved ==
  ASSUME NEW t \in Seq(Configs), NEW i \in 1 .. Len(t), NEW k \in 1 .. i
  PROVE  LET u == InsertAt(RemoveAt(t, i), k, t[i]) IN
         /\ u \in Seq(Configs) /\ Len(u) = Len(t)
         /\ \A j \in 1 .. Len(t) :
              u[j] = IF j < k THEN t[j] ELSE IF j = k THEN t[i]
                     ELSE IF j <= i THEN t[j - 1] ELSE t[j]
<1> DEFINE r == RemoveAt(t, i)
           u == InsertAt(r, k, t[i])
<1>0. /\ Len(t) \in Nat /\ i \in Nat /\ k \in Nat /\ t[i] \in Configs
      /\ 1 <= k /\ k <= i /\ i <= Len(t)
  OBVIOUS
<1>1. /\ r \in Seq(Configs) /\ Len(r) = Len(t) - 1
      /\ \A j \in 1 .. Len(t) - 1 : r[j] = IF j < i THEN t[j] ELSE t[j + 1]
  <2> DEFINE a == SubSeq(t, 1, i - 1)
             b == SubSeq(t, i + 1, Len(t))
  <2>1. a \in Seq(Configs) /\ Len(a) = i - 1 /\ \A j \in 1 .. i - 1 : a[j] = t[j]
    BY <1>0
  <2>2. b \in Seq(Configs) /\ Len(b) = Len(t) - i /\ \A j \in 1 .. Len(t) - i : b[j] = t[j + i]
    BY <1>0
  <2>3. r = a \o b
    BY DEF RemoveAt
  <2> HIDE DEF a, b, r, u
  <2>4. \A p, q \in Seq(Configs) :
          /\ p \o q \in Seq(Configs) /\ Len(p \o q) = Len(p) + Len(q)
          /\ \A j \in 1 .. Len(p) : (p \o q)[j] = p[j]
          /\ \A j \in Len(p) + 1 .. Len(p) + Len(q) : (p \o q)[j] = q[j - Len(p)]
    OBVIOUS
  <2>5. /\ r \in Seq(Configs) /\ Len(r) = Len(t) - 1
        /\ \A j \in 1 .. i - 1 : r[j] = a[j]
        /\ \A j \in i .. Len(t) - 1 : r[j] = b[j - (i - 1)]
    <3>1. /\ r \in Seq(Configs) /\ Len(r) = Len(a) + Len(b)
          /\ \A j \in 1 .. Len(a) : r[j] = a[j]
          /\ \A j \in Len(a) + 1 .. Len(a) + Len(b) : r[j] = b[j - Len(a)]
      BY <2>1, <2>2, <2>3, <2>4
    <3>2. Len(a) = i - 1 /\ Len(b) = Len(t) - i
      BY <2>1, <2>2
    <3>3. Len(a) + 1 = i /\ Len(a) + Len(b) = Len(t) - 1
      BY <1>0, <3>2
    <3> QED
      BY <3>1, <3>2, <3>3
  <2>6. ASSUME NEW j \in i .. Len(t) - 1 PROVE r[j] = t[j + 1]
    <3>1. j - (i - 1) \in 1 .. Len(t) - i /\ (j - (i - 1)) + i = j + 1
      BY <1>0
    <3> QED
      BY <2>2, <2>5, <3>1
  <2>7. ASSUME NEW j \in 1 .. Len(t) - 1
        PROVE  (j < i => j \in 1 .. i - 1) /\ (~(j < i) => j \in i .. Len(t) - 1)
    BY <1>0
  <2> QED
    BY <2>1, <2>5, <2>6, <2>7
<1> HIDE DEF r
<1>2. /\ u \in Seq(Configs) /\ Len(u) = Len(t)
      /\ \A j \in 1 .. Len(t) : u[j] = IF j < k THEN r[j] ELSE IF j = k THEN t[i] ELSE r[j - 1]
  <2> DEFINE a == SubSeq(r, 1, k - 1)
             b == SubSeq(r, k, Len(r))
             c == <<t[i]>>
  <2>1. a \in Seq(Configs) /\ Len(a) = k - 1 /\ \A j \in 1 .. k - 1 : a[j] = r[j]
    BY <1>0, <1>1
  <2>2. b \in Seq(Configs) /\ Len(b) = Len(t) - k /\ \A j \in 1 .. Len(t) - k : b[j] = r[j + k - 1]
    BY <1>0, <1>1
  <2>3. c \in Seq(Configs) /\ Len(c) = 1 /\ c[1] = t[i]
    BY <1>0
  <2>4. u = a \o c \o b
    BY DEF InsertAt
  <2> HIDE DEF a, b, c, u
  <2>5. \A p, q \in Seq(Configs) :
          /\ p \o q \in Seq(Configs) /\ Len(p \o q) = Len(p) + Len(q)
          /\ \A j \in 1 .. Len(p) : (p \o q)[j] = p[j]
          /\ \A j \in Len(p) + 1 .. Len(p) + Len(q) : (p \o q)[j] = q[j - Len(p)]
    OBVIOUS
  <2> DEFINE ac == a \o c
  <2>6. /\ ac \in Seq(Configs) /\ Len(ac) = Len(a) + Len(c)
        /\ \A j \in 1 .. Len(a) : ac[j] = a[j]
        /\ \A j \in Len(a) + 1 .. Len(a) + Len(c) : ac[j] = c[j - Len(a)]
    BY <2>1, <2>3, <2>5
  <2> HIDE DEF ac
  <2>l. Len(a) = k - 1 /\ Len(c) = 1
    BY <2>1, <2>3
  <2>7. Len(ac) = k /\ \A j \in 1 .. k - 1 : ac[j] = r[j]
    <3>1. Len(ac) = k
      BY <1>0, <2>6, <2>l
    <3>2. \A j \in 1 .. k - 1 : ac[j] = a[j] /\ a[j] = r[j]
      BY <2>1, <2>6, <2>l
    <3> QED
      BY <3>1, <3>2
  <2>8. ac[k] = t[i]
    <3>1. k \in Len(a) + 1 .. Len(a) + Len(c) /\ k - Len(a) = 1
      BY <1>0, <2>1, <2>3
    <3> QED
      BY <2>3, <2>6, <3>1
  <2>9. u = ac \o b
    BY <2>4 DEF ac
  <2>10. /\ u \in Seq(Configs) /\ Len(u) = k + Len(b)
         /\ \A j \in 1 .. k : u[j] = ac[j]
         /\ \A j \in k + 1 .. k + Len(b) : u[j] = b[j - k]
    BY <2>2, <2>5, <2>6, <2>7, <2>9
  <2>11. \A j \in k + 1 .. Len(t) : u[j] = r[j - 1]
    <3> SUFFICES ASSUME NEW j \in k + 1 .. Len(t) PROVE u[j] = r[j - 1]
      OBVIOUS
    <3>1. j \in k + 1 .. k + Len(b) /\ j - k \in 1 .. Len(t) - k /\ (j - k) + k - 1 = j - 1
      BY <1>0, <2>2
    <3> QED
      BY <2>2, <2>10, <3>1
  <2> QED
    BY <1>0, <2>2, <2>7, <2>8, <2>10, <2>11
<1> HIDE DEF u
<1>3. \A j \in 1 .. Len(t) :
        u[j] = IF j < k THEN t[j] ELSE IF j = k THEN t[i] ELSE IF j <= i THEN t[j - 1] ELSE t[j]
  BY <1>0, <1>1, <1>2
<1>4. u = InsertAt(RemoveAt(t, i), k, t[i])
  BY DEF u, r
<1> QED
  BY <1>2, <1>3, <1>4

\* One round of the sort. Less is no order, for it takes an empty configuration for
\* less than any; but an empty one has no pods.
LEMMA SinkAscends ==
  ASSUME NEW t \in Orders, NEW i \in 1 .. Len(t), Ascends(t, i - 1),
         NEW k, k = Min({n \in 1 .. i : \A j \in n .. i - 1 : Less(t[i], t[j])})
  PROVE  LET u == InsertAt(RemoveAt(t, i), k, t[i]) IN u \in Orders /\ Ascends(u, i)
<1> DEFINE K == {n \in 1 .. i : \A j \in n .. i - 1 : Less(t[i], t[j])}
           u == InsertAt(RemoveAt(t, i), k, t[i])
<1>0. /\ t \in Seq(Configs) /\ Len(t) \in Nat /\ Len(t) = Cardinality(Configs)
      /\ \A j, l \in 1 .. Len(t) : t[j] = t[l] => j = l
  BY OrdersAreSeqs
<1>1. k \in K /\ \A n \in K : k <= n
  <2>1. K \in SUBSET (1 .. i) /\ i \in K
    BY <1>0
  <2>2. IsFiniteSet(1 .. i)
    BY <1>0, FS_Interval
  <2>4. k = Min(K)
    OBVIOUS
  <2> HIDE DEF K, u
  <2>3. IsFiniteSet(K)
    BY <2>1, <2>2, FS_Subset
  <2>5. K \in SUBSET Int /\ K # {}
    BY <2>1
  <2>6. Min(K) \in K /\ \A n \in K : Min(K) <= n
    BY <2>3, <2>5, MinIsLeast
  <2> QED
    BY <2>4, <2>6
<1>2. k \in 1 .. i /\ \A j \in k .. i - 1 : Less(t[i], t[j])
  BY <1>1
<1>3. k > 1 => ~Less(t[i], t[k - 1])
  <2> SUFFICES ASSUME k > 1, Less(t[i], t[k - 1]) PROVE FALSE
    OBVIOUS
  <2>1. \A j \in k - 1 .. i - 1 : j = k - 1 \/ j \in k .. i - 1
    BY <1>2
  <2>2. \A j \in k - 1 .. i - 1 : Less(t[i], t[j])
    BY <1>2, <2>1
  <2>3. k - 1 \in 1 .. i
    BY <1>0, <1>2
  <2>4. k - 1 \in K
    BY <2>2, <2>3
  <2> QED
    BY <1>1, <1>2, <2>4
<1> HIDE DEF K
<1>4. /\ u \in Seq(Configs) /\ Len(u) = Len(t)
      /\ \A j \in 1 .. Len(t) :
           u[j] = IF j < k THEN t[j] ELSE IF j = k THEN t[i]
                  ELSE IF j <= i THEN t[j - 1] ELSE t[j]
  BY <1>0, <1>2, Moved
<1> HIDE DEF u
<1>5. u \in Orders
  <2> DEFINE from(j) == IF j < k THEN j ELSE IF j = k THEN i ELSE IF j <= i THEN j - 1 ELSE j
  <2>a. \A j \in 1 .. Len(t) : u[j] = t[from(j)] /\ from(j) \in 1 .. Len(t)
    BY <1>0, <1>2, <1>4
  <2>b. \A j, l \in 1 .. Len(t) : from(j) = from(l) => j = l
    BY <1>0, <1>2
  <2> HIDE DEF from
  <2>1. \A j, l \in 1 .. Len(t) : u[j] = u[l] => j = l
    BY <1>0, <2>a, <2>b
  <2>2. u \in [1 .. Cardinality(Configs) -> Configs]
    BY <1>0, <1>4
  <2> QED
    BY <1>0, <2>1, <2>2 DEF Orders, SetToSeqs
<1> DEFINE w == [j \in 1 .. Len(t) |-> PodsMax(t[j])]
<1>6. \A j \in 1 .. Len(t) : w[j] = PodsMax(t[j]) /\ w[j] \in Nat
  BY <1>0, PodsMaxType
<1>7. \A j \in k .. i - 1 : w[i] <= w[j]
  <2> SUFFICES ASSUME NEW j \in k .. i - 1 PROVE w[i] <= w[j]
    OBVIOUS
  <2>1. j \in 1 .. Len(t) /\ i \in 1 .. Len(t) /\ t[i] \in Configs /\ Less(t[i], t[j])
    BY <1>0, <1>2
  <2>2. Setting[t[i]].ops = << >> => w[i] = 0
    BY <1>6, <2>1, PodsMaxType
  <2> QED
    BY <1>6, <2>1, <2>2 DEF Less
<1>8. k > 1 => w[k - 1] <= w[i]
  <2> SUFFICES ASSUME k > 1 PROVE w[k - 1] <= w[i]
    OBVIOUS
  <2>1. k - 1 \in 1 .. Len(t) /\ i \in 1 .. Len(t)
    BY <1>0, <1>2
  <2>2. ~(w[i] < w[k - 1])
    BY <1>3, <1>6, <2>1 DEF Less
  <2> QED
    BY <1>6, <2>1, <2>2
<1>9. \A j, l \in 1 .. i - 1 : j <= l => w[j] <= w[l]
  <2> SUFFICES ASSUME NEW j \in 1 .. i - 1, NEW l \in 1 .. i - 1, j <= l PROVE w[j] <= w[l]
    OBVIOUS
  <2>1. j \in 1 .. Len(t) /\ l \in 1 .. Len(t) /\ PodsMax(t[j]) <= PodsMax(t[l])
    BY <1>0 DEF Ascends
  <2> QED
    BY <1>6, <2>1
<1>10. \A j \in 1 .. i :
         PodsMax(u[j]) = IF j < k THEN w[j] ELSE IF j = k THEN w[i] ELSE w[j - 1]
  <2> SUFFICES ASSUME NEW j \in 1 .. i
               PROVE  PodsMax(u[j]) = IF j < k THEN w[j] ELSE IF j = k THEN w[i] ELSE w[j - 1]
    OBVIOUS
  <2>1. j \in 1 .. Len(t) /\ i \in 1 .. Len(t) /\ (j > k => j - 1 \in 1 .. Len(t))
    BY <1>0, <1>2
  <2> QED
    BY <1>2, <1>4, <1>6, <2>1
<1> HIDE DEF w
<1>11. Ascends(u, i)
  <2> SUFFICES ASSUME NEW j \in 1 .. i, NEW l \in 1 .. i, j <= l
               PROVE  PodsMax(u[j]) <= PodsMax(u[l])
    BY DEF Ascends
  <2>0. \A n \in 1 .. i : w[n] \in Nat
    BY <1>0, <1>6
  <2>1. \A n \in 1 .. i - 1 : n < k => w[n] <= w[i]
    BY <1>0, <1>2, <1>8, <1>9, <2>0
  <2> QED
    BY <1>0, <1>2, <1>7, <1>9, <1>10, <2>0, <2>1
<1> QED
  BY <1>5, <1>11 DEF u

\* The sort ends with the configurations in the order of their weight.
LEMMA SortedAscends ==
  ASSUME NEW s \in Orders
  PROVE  Sorted(s) \in Orders /\ Ascends(Sorted(s), Len(s))
<1> DEFINE L == Len(s)
           Place(t, i) == Min({n \in 1 .. i : \A j \in n .. i - 1 : Less(t[i], t[j])})
           Sink(t, i) == InsertAt(RemoveAt(t, i), Place(t, i), t[i])
           Defines(f, n) == f = [i \in 0 .. n |-> IF i = 0 THEN s ELSE Sink(f[i - 1], i)]
           Upto == CHOOSE f : Defines(f, L)
<1>0. L \in Nat /\ L = Cardinality(Configs)
  BY OrdersAreSeqs
<1>s. Sorted(s) = Upto[L]
  BY DEF Sorted
<1> HIDE DEF Sink, L
<1>1. \E f : Defines(f, 0)
  <2>1. Defines([i \in 0 .. 0 |-> s], 0)
    OBVIOUS
  <2> QED
    BY <2>1
<1>2. ASSUME NEW n \in 1 .. L, NEW f, Defines(f, n - 1)
      PROVE  \E g : Defines(g, n)
  <2> DEFINE g == [i \in 0 .. n |-> IF i = n THEN Sink(f[n - 1], n) ELSE f[i]]
  <2>1. \A i \in 0 .. n : g[i] = IF i = n THEN Sink(f[n - 1], n) ELSE f[i]
    OBVIOUS
  <2>2. \A i \in 0 .. n - 1 : f[i] = IF i = 0 THEN s ELSE Sink(f[i - 1], i)
    BY <1>2
  <2>3. \A i \in 0 .. n : g[i] = IF i = 0 THEN s ELSE Sink(g[i - 1], i)
    BY <2>1, <2>2, <1>0
  <2>4. Defines(g, n)
    BY <2>3
  <2> QED
    BY <2>4
<1> HIDE DEF Defines
<1>3. \E f : Defines(f, L)
  <2> DEFINE G == {n \in 0 .. L : \E f : Defines(f, n)}
  <2>1. 0 \in G /\ \A n \in 1 .. L : n - 1 \in G => n \in G
    BY <1>0, <1>1, <1>2
  <2> HIDE DEF G
  <2>2. \A n \in 0 .. L : n \in G
    BY <1>0, <2>1, InductionTo
  <2> QED
    BY <1>0, <2>2 DEF G
<1>4. Defines(Upto, L)
  BY <1>3
<1> HIDE DEF Upto
<1>5. Upto = [i \in 0 .. L |-> IF i = 0 THEN s ELSE Sink(Upto[i - 1], i)]
  BY <1>4 DEF Defines
<1>6. \A n \in 0 .. L : Upto[n] = IF n = 0 THEN s ELSE Sink(Upto[n - 1], n)
  BY <1>5
<1> DEFINE G == {n \in 0 .. L : Upto[n] \in Orders /\ Ascends(Upto[n], n)}
<1>7. 0 \in G
  <2>1. Upto[0] = s
    BY <1>0, <1>6
  <2>2. Ascends(s, 0)
    BY DEF Ascends
  <2> QED
    BY <1>0, <2>1, <2>2
<1>8. ASSUME NEW n \in 1 .. L, n - 1 \in G PROVE n \in G
  <2> DEFINE t == Upto[n - 1]
  <2>1. t \in Orders /\ Ascends(t, n - 1)
    BY <1>8
  <2>2. Upto[n] = Sink(t, n)
    BY <1>6
  <2>3. n \in 1 .. Len(t)
    BY <1>0, <2>1, OrdersAreSeqs
  <2> HIDE DEF t
  <2>4. Sink(t, n) \in Orders /\ Ascends(Sink(t, n), n)
    <3>1. Place(t, n) = Min({m \in 1 .. n : \A j \in m .. n - 1 : Less(t[n], t[j])})
      OBVIOUS
    <3> HIDE DEF Place
    <3> QED
      BY <2>1, <2>3, <3>1, SinkAscends DEF Sink
  <2> QED
    BY <1>0, <2>2, <2>4
<1> HIDE DEF G
<1>9. L \in G
  <2>1. \A n \in 0 .. L : n \in G
    BY <1>0, <1>7, <1>8, InductionTo
  <2> QED
    BY <1>0, <2>1
<1>10. Upto[L] \in Orders /\ Ascends(Upto[L], L)
  BY <1>9 DEF G
<1> QED
  BY <1>s, <1>10 DEF L

-----------------------------------------------------------------------------
(* What an interrupt leaves *)

\* TypeOK in parts, with what it leaves out.
MainTypes ==
  /\ proc \in {"running", "exit0", "exit1", "crash"}
  /\ order \in Orders /\ run \in Runs /\ op \in Nat \ {0}
  /\ pc \in {"sort", "begin", "conf", "op", "finalize", "sleep"}
  /\ kindIdx \in 1 .. 9
  /\ mgrs \in Runs \cup {0} /\ benchConfig \in Runs \cup {0}
  /\ handler \in {"off", "starting", "waiting", "taken"}

RecordedBy(m) == {g \in Routines : Mgr(g) = m}

ManagerTypes ==
  /\ stage \in [Runs -> [ManagerNames -> {"absent", "added", "named", "dialed", "ready"}]]
  /\ table \in [Runs -> [ManagerNames -> SUBSET Routines]]
  /\ \A r \in Runs, m \in ManagerNames : table[r][m] \subseteq RecordedBy(m)
  /\ nsSet \in [Runs -> SUBSET ManagerNames] /\ closed \in [Runs -> SUBSET Informed]

ClusterTypes ==
  /\ at \in [Routines -> {"unborn", "start", "call", "made", "done"}]
  /\ refused \subseteq Routines /\ objects \subseteq Routines /\ owed \subseteq Routines
  /\ home \in [Homed -> {"none", "active", "terminating"}]

FinOK(f) ==
  /\ f \in FinRecord
  /\ f.must \subseteq InMap(f.map) /\ f.seen \subseteq InMap(f.map)
  /\ f.at \in {"off", "flag", "map"} => f.must = {} /\ f.seen = {}

FinTypes == fin \in [{"main", "handler"} -> FinRecord] /\ \A e \in {"main", "handler"} : FinOK(fin[e])

TypeInv == MainTypes /\ ManagerTypes /\ ClusterTypes /\ FinTypes

LEMMA TypeInvIsTypeOK ==
  ASSUME TypeInv
  PROVE  TypeOK
<1>1. {Stages[i] : i \in DOMAIN Stages} = {"absent", "added", "named", "dialed", "ready"}
  BY StageNames
<1>2. \A e \in {"main", "handler"} :
        /\ fin[e].at \in FinStates /\ fin[e].map \in Runs \cup {0}
        /\ fin[e].must \subseteq InMap(fin[e].map) /\ fin[e].seen \subseteq InMap(fin[e].map)
  BY DEF TypeInv, FinTypes, FinOK, FinRecord
<1>3. stage \in [Runs -> [ManagerNames -> {Stages[i] : i \in DOMAIN Stages}]]
  BY <1>1 DEF TypeInv, ManagerTypes
<1>4. kindIdx \in 1 .. Len(KindOrder) + 1 /\ order \in SetToSeqs(Configs)
  BY EightKinds DEF TypeInv, MainTypes, Orders
<1>5. \A r \in Runs, m \in ManagerNames : table[r][m] \subseteq {g \in Routines : Mgr(g) = m}
  BY DEF TypeInv, ManagerTypes, RecordedBy
<1>6. /\ MainTypes /\ ClusterTypes
      /\ nsSet \in [Runs -> SUBSET ManagerNames] /\ closed \in [Runs -> SUBSET Informed]
  BY DEF TypeInv, ManagerTypes
<1> QED
  BY <1>2, <1>3, <1>4, <1>5, <1>6, Zenon DEF TypeOK, MainTypes, ClusterTypes

LEMMA ExceptTwice ==
  ASSUME NEW A, NEW B, NEW C, NEW f \in [A -> [B -> C]], NEW x, NEW y, NEW v \in C
  PROVE  [f EXCEPT ![x][y] = v] \in [A -> [B -> C]]
<1>1. CASE x \in A
  <2>1. [f[x] EXCEPT ![y] = v] \in [B -> C]
    BY <1>1
  <2> QED
    BY <2>1
<1>2. CASE x \notin A
  BY <1>2
<1> QED
  BY <1>1, <1>2

LEMMA ExceptOnce ==
  ASSUME NEW A, NEW B, NEW f \in [A -> B], NEW x, NEW v, x \in A => v \in B
  PROVE  [f EXCEPT ![x] = v] \in [A -> B]
OBVIOUS

LEMMA RoutineKinds ==
  ASSUME NEW g \in Routines
  PROVE  g[1] \in Runs /\ g[1] \in Nat /\ g[3] \in Kinds /\ Mgr(g) \in ManagerNames
         /\ g = <<g[1], g[2], g[3]>>
<1>1. UsedKinds \subseteq Kinds
  <2> SUFFICES ASSUME NEW c \in Configs, NEW i \in DOMAIN Setting[c].ops
               PROVE  Setting[c].ops[i].kinds \subseteq Kinds
    BY DEF UsedKinds
  <2>1. \A T : \A q \in Seq(T) : \A j \in DOMAIN q : q[j] \in T
    OBVIOUS
  <2>2. Setting[c].ops \in Seq([kinds : SUBSET Kinds, pods : Nat])
    BY SettingAssumption
  <2>3. Setting[c].ops[i] \in [kinds : SUBSET Kinds, pods : Nat]
    BY <2>1, <2>2, Zenon
  <2> QED
    BY <2>3
<1>2. g[1] \in Runs /\ g[3] \in UsedKinds /\ g = <<g[1], g[2], g[3]>>
  BY DEF Routines
<1> QED
  BY <1>1, <1>2, RunsAreNumbers DEF Mgr, ManagerNames

\* The range over the map of run r is over managers.
LEMMA MapOfManagers ==
  /\ \A r : InMap(r) \subseteq ManagerNames
  /\ 0 \notin Runs
BY RunsAreNumbers DEF InMap, Runs

\* What is in a map stays there, as long as stages advance.
LEMMA MapsGrow ==
  ASSUME UNCHANGED stage \/ \A r \in Runs, m \in ManagerNames : stage'[r][m] # "absent" \/ stage'[r][m] = stage[r][m],
         NEW r \in Runs \cup {0}
  PROVE  InMap(r) \subseteq InMap(r)'
BY DEF InMap

LEMMA SameMain ==
  ASSUME MainTypes, UNCHANGED <<proc, mainVars, globals, handler>>
  PROVE  MainTypes'
BY DEF MainTypes, mainVars, globals

LEMMA SameManagers ==
  ASSUME ManagerTypes, UNCHANGED managerVars
  PROVE  ManagerTypes'
BY DEF ManagerTypes, managerVars

LEMMA SameCluster ==
  ASSUME ClusterTypes, UNCHANGED <<routineVars, clusterVars, owed>>
  PROVE  ClusterTypes'
BY DEF ClusterTypes, routineVars, clusterVars

LEMMA SameFin ==
  ASSUME FinTypes, UNCHANGED <<stage, fin>>
  PROVE  FinTypes'
BY DEF FinTypes, FinOK, InMap

LEMMA MovedFin ==
  ASSUME FinTypes, NEW e \in {"main", "handler"}, NEW next, FinOK(next),
         fin' = [fin EXCEPT ![e] = next], UNCHANGED stage
  PROVE  FinTypes'
<1>1. fin' \in [{"main", "handler"} -> FinRecord]
  BY DEF FinTypes, FinOK
<1>2. \A r : InMap(r)' = InMap(r)
  BY DEF InMap
<1>3. ASSUME NEW d \in {"main", "handler"} PROVE FinOK(fin'[d])
  BY DEF FinTypes
<1>4. ASSUME NEW f, FinOK(f) PROVE FinOK(f)'
  BY <1>2, <1>4 DEF FinOK
<1>5. ASSUME NEW d \in {"main", "handler"} PROVE FinOK(fin[d])'
  BY <1>2, <1>3 DEF FinOK
<1> QED
  BY <1>1, <1>5 DEF FinTypes

\* Where main is, and what the globals say there.
MainAt ==
  /\ pc \in {"conf", "op", "finalize", "sleep"} => mgrs = run
  /\ pc \in {"op", "finalize", "sleep"} => benchConfig = run
  /\ pc \in {"sort", "begin", "conf"} => benchConfig < run
  /\ pc = "sort" => handler = "off" /\ run = 1
  /\ handler # "taken" => fin["handler"].at = "off"
  /\ pc = "finalize" <=> fin["main"].at # "off"
  /\ fin["main"].at \in {"map", "range", "delete", "home"} => Cleans(run)
  /\ fin["main"].at \in {"range", "delete", "home"} => fin["main"].map = run
  /\ \A e \in {"main", "handler"} : fin[e].at \in {"delete", "home"} => fin[e].mgr \in ManagerNames

LEMMA StageAdvances ==
  ASSUME NEW s \in {"absent", "added", "named", "dialed", "ready"}, s # "ready"
  PROVE  LET i == CHOOSE i \in DOMAIN Stages : Stages[i] = s
         IN  Stages[i + 1] \in {"added", "named", "dialed", "ready"}
<1> DEFINE S == <<"absent", "added", "named", "dialed", "ready">>
           i == CHOOSE i \in DOMAIN Stages : Stages[i] = s
<1>1. Stages = S /\ DOMAIN S = 1 .. 5
  BY DEF Stages
<1>2. S[1] = "absent" /\ S[2] = "added" /\ S[3] = "named" /\ S[4] = "dialed" /\ S[5] = "ready"
  OBVIOUS
<1> HIDE DEF S
<1>3. \A j \in 1 .. 5 : j = 1 \/ j = 2 \/ j = 3 \/ j = 4 \/ j = 5
  OBVIOUS
<1>4. \A j \in 1 .. 5 : S[j] # "ready" => S[j + 1] \in {"added", "named", "dialed", "ready"}
  BY <1>2, <1>3
<1>5. i \in 1 .. 5 /\ S[i] = s
  BY <1>1, <1>2
<1> HIDE DEF i
<1> QED
  BY <1>1, <1>4, <1>5 DEF i

\* What a step of Init does to the stages.
LEMMA InitAdvances ==
  ASSUME TypeInv, MainAt, InitManager
  PROVE  LET m == ManagerOf(Kind) IN
         /\ pc = "op" /\ mgrs = run /\ run \in Runs /\ InOps(op) /\ kindIdx <= Len(KindOrder)
         /\ m \in ManagerNames /\ stage[run][m] # "ready"
         /\ \/ stage' = stage
            \/ \E next \in {"added", "named", "dialed", "ready"} :
                 stage' = [stage EXCEPT ![run][m] = next]
<1> DEFINE m == ManagerOf(Kind)
           s == stage[mgrs][m]
           i == CHOOSE i \in DOMAIN Stages : Stages[i] = s
<1>1. /\ pc = "op" /\ mgrs = run /\ run \in Runs /\ InOps(op) /\ kindIdx <= Len(KindOrder)
      /\ kindIdx \in 1 .. 9 /\ s # "ready"
  BY DEF InitManager, Wanted, TypeInv, MainTypes, MainAt
<1>2. m \in ManagerNames
  <2>1. \A j \in 1 .. 8 : KindOrder[j] \in Kinds
    <3>1. \A j \in 1 .. 8 : j = 1 \/ j = 2 \/ j = 3 \/ j = 4 \/ j = 5 \/ j = 6 \/ j = 7 \/ j = 8
      OBVIOUS
    <3> QED
      BY <3>1 DEF KindOrder, Kinds, GenericKinds
  <2> QED
    BY <1>1, <2>1, EightKinds DEF Kind, ManagerNames
<1>3. stage' = stage \/ stage' = [stage EXCEPT ![mgrs][m] = Stages[i + 1]]
  BY DEF InitManager, Crash, managerVars
<1>4. s \in {"absent", "added", "named", "dialed", "ready"}
  BY <1>1, <1>2 DEF TypeInv, ManagerTypes
<1>5. Stages[i + 1] \in {"added", "named", "dialed", "ready"}
  BY <1>1, <1>4, StageAdvances
<1> HIDE DEF i, m
<1> QED
  BY <1>1, <1>2, <1>3, <1>5 DEF m

LEMMA MainTypesStep ==
  ASSUME TypeInv, [Next]_vars
  PROVE  MainTypes'
<1> USE DEF TypeInv
<1>0. kindIdx \in Nat /\ op \in Nat /\ 0 \in Nat /\ Len(KindOrder) = 8
  BY EightKinds DEF MainTypes
<1>1. CASE SortConfigs
  <2>1. Sorted(order) \in Orders
    BY SortedAscends DEF MainTypes
  <2> QED
    BY <1>1, <2>1 DEF SortConfigs, MainTypes, globals
<1>2. CASE BeginRun
  BY <1>2 DEF BeginRun, Fresh, Goto, MainTypes
<1>3. CASE SetConfig
  BY <1>0, <1>3, KindAfterType DEF SetConfig, Goto, MainTypes
<1>4. CASE InitManager
  BY <1>4 DEF InitManager, Crash, MainTypes, mainVars, globals
<1>5. CASE StartRoutine
  BY <1>0, <1>5, KindAfterType DEF StartRoutine, MainTypes, globals
<1>6. CASE Wait
  BY <1>0, <1>6, KindAfterType DEF Wait, MainTypes, globals
<1>7. CASE EndOps
  BY <1>7 DEF EndOps, Goto, MainTypes, globals
<1>8. CASE NextRun
  BY <1>8 DEF NextRun, MoreRuns, Goto, MainTypes, globals
<1>9. ASSUME NEW e, Finalize(e) PROVE MainTypes'
  <2>1. /\ UNCHANGED <<order, run, op, kindIdx, mgrs, benchConfig, handler>>
        /\ proc' \in {proc, "crash", "exit1"} /\ pc' \in {pc, "sleep"}
    BY <1>9 DEF Finalize, ReadCleanup, BeginRange, VisitManager, DeleteObjects, DeleteHome, EndRange,
                Report, AfterFinalize, Goto, Crash, mainVars, globals
  <2> QED
    BY <2>1 DEF MainTypes
<1>10. CASE HandlerReady \/ Signal
  BY <1>10 DEF HandlerReady, Signal, MainTypes, mainVars, globals
<1>11. ASSUME NEW g, Routine(g) PROVE MainTypes'
  BY <1>11 DEF Routine, EnsureNamespace, CallCreate, Record, Crash, MainTypes, mainVars, globals
<1>12. ASSUME NEW m, Collapse(m) PROVE MainTypes'
  BY <1>12 DEF Collapse, MainTypes, mainVars, globals
<1>13. CASE UNCHANGED vars
  BY <1>13, SameMain DEF vars
<1> QED
  BY <1>1, <1>2, <1>3, <1>4, <1>5, <1>6, <1>7, <1>8, <1>9, <1>10, <1>11, <1>12, <1>13
     DEF Next, Main, Handler

LEMMA ManagerTypesStep ==
  ASSUME TypeInv, MainAt, [Next]_vars
  PROVE  ManagerTypes'
<1> USE DEF TypeInv
<1>1. CASE SortConfigs \/ BeginRun \/ SetConfig \/ StartRoutine \/ Wait \/ EndOps \/ NextRun
           \/ HandlerReady \/ Signal
  BY <1>1, SameManagers
     DEF SortConfigs, BeginRun, SetConfig, StartRoutine, Wait, EndOps, NextRun, HandlerReady, Signal
<1>2. CASE InitManager
  <2> DEFINE m == ManagerOf(Kind)
  <2>1. /\ m \in ManagerNames /\ mgrs = run
        /\ \/ stage' = stage
           \/ \E next \in {"added", "named", "dialed", "ready"} :
                stage' = [stage EXCEPT ![run][m] = next]
    BY <1>2, InitAdvances
  <2> HIDE DEF m
  <2>2. stage' \in [Runs -> [ManagerNames -> {"absent", "added", "named", "dialed", "ready"}]]
    BY <2>1, ExceptTwice DEF ManagerTypes
  <2>3. /\ UNCHANGED <<table, closed>>
        /\ nsSet' = nsSet \/ nsSet' = [nsSet EXCEPT ![mgrs] = @ \cup {m}]
    BY <1>2 DEF InitManager, Crash, managerVars, m
  <2>4. nsSet' \in [Runs -> SUBSET ManagerNames]
    <3>1. nsSet \in [Runs -> SUBSET ManagerNames]
      BY DEF ManagerTypes
    <3>2. mgrs \in Runs => nsSet[mgrs] \cup {m} \in SUBSET ManagerNames
      BY <2>1, <3>1
    <3> QED
      BY <2>3, <3>1, <3>2, ExceptOnce
  <2> QED
    BY <2>2, <2>3, <2>4 DEF ManagerTypes
<1>3. ASSUME NEW e \in {"main", "handler"}, Finalize(e) PROVE ManagerTypes'
  <2>1. CASE DeleteObjects(e)
    <3> DEFINE m == fin[e].mgr
               r == fin[e].map
    <3>1. UNCHANGED <<stage, nsSet, closed>> /\ (table' = table \/ table' = [table EXCEPT ![r][m] = {}])
      BY <2>1 DEF DeleteObjects, Crash, managerVars
    <3> HIDE DEF m, r
    <3>2. table' \in [Runs -> [ManagerNames -> SUBSET Routines]]
      <4>1. table \in [Runs -> [ManagerNames -> SUBSET Routines]] /\ {} \in SUBSET Routines
        BY DEF ManagerTypes
      <4>2. [table EXCEPT ![r][m] = {}] \in [Runs -> [ManagerNames -> SUBSET Routines]]
        BY <4>1, ExceptTwice, Zenon
      <4> QED
        BY <3>1, <4>1, <4>2
    <3>3. \A q \in Runs, n \in ManagerNames : table'[q][n] = table[q][n] \/ table'[q][n] = {}
      BY <3>1 DEF ManagerTypes
    <3> QED
      BY <3>1, <3>2, <3>3 DEF ManagerTypes
  <2>2. CASE DeleteHome(e)
    <3> DEFINE m == fin[e].mgr
               r == fin[e].map
    <3>1. /\ UNCHANGED <<stage, table>>
          /\ nsSet' = nsSet \/ nsSet' = [nsSet EXCEPT ![r] = @ \ {m}]
          /\ closed' = closed \/ (m \in Informed /\ closed' = [closed EXCEPT ![r] = @ \cup {m}])
      BY <2>2 DEF DeleteHome, Crash, managerVars
    <3> HIDE DEF m, r
    <3>2. nsSet \in [Runs -> SUBSET ManagerNames] /\ closed \in [Runs -> SUBSET Informed]
      BY DEF ManagerTypes
    <3>3. nsSet' \in [Runs -> SUBSET ManagerNames]
      <4>1. r \in Runs => nsSet[r] \ {m} \in SUBSET ManagerNames
        BY <3>2
      <4> QED
        BY <3>1, <3>2, <4>1, ExceptOnce
    <3>4. closed' \in [Runs -> SUBSET Informed]
      <4>1. r \in Runs /\ m \in Informed => closed[r] \cup {m} \in SUBSET Informed
        BY <3>2
      <4> QED
        BY <3>1, <3>2, <4>1, ExceptOnce
    <3> QED
      BY <3>1, <3>3, <3>4 DEF ManagerTypes
  <2>3. CASE ReadCleanup(e) \/ BeginRange(e) \/ VisitManager(e) \/ EndRange(e) \/ Report(e)
    BY <2>3, SameManagers DEF ReadCleanup, BeginRange, VisitManager, EndRange, Report, Crash
  <2> QED
    BY <1>3, <2>1, <2>2, <2>3 DEF Finalize
<1>4. ASSUME NEW g \in Routines, Routine(g) PROVE ManagerTypes'
  <2>0. Mgr(g) \in ManagerNames
    BY RoutineKinds
  <2>1. CASE EnsureNamespace(g)
    BY <2>0, <2>1 DEF EnsureNamespace, ManagerTypes
  <2>2. CASE CallCreate(g)
    BY <2>2, SameManagers DEF CallCreate
  <2>3. CASE Record(g)
    <3> DEFINE m == Mgr(g)
               new == IF m = "Namespace" THEN {} ELSE table[mgrs][m] \cup {g}
    <3>1. UNCHANGED <<stage, nsSet, closed>> /\ (table' = table \/ table' = [table EXCEPT ![mgrs][m] = new])
      BY <2>3 DEF Record, Crash, managerVars
    <3>2. CASE mgrs \in Runs
      <4>1. new \subseteq Routines /\ new \subseteq RecordedBy(m)
        BY <2>0, <3>2 DEF ManagerTypes, RecordedBy
      <4> HIDE DEF new, m
      <4>2. table' \in [Runs -> [ManagerNames -> SUBSET Routines]]
        <5>1. table \in [Runs -> [ManagerNames -> SUBSET Routines]] /\ new \in SUBSET Routines
          BY <4>1 DEF ManagerTypes
        <5>2. [table EXCEPT ![mgrs][m] = new] \in [Runs -> [ManagerNames -> SUBSET Routines]]
          BY <5>1, ExceptTwice, Zenon
        <5> QED
          BY <3>1, <5>1, <5>2
      <4>3. \A q \in Runs, n \in ManagerNames :
              table'[q][n] = table[q][n] \/ (n = m /\ table'[q][n] = new)
        BY <3>1 DEF ManagerTypes
      <4> QED
        BY <3>1, <4>1, <4>2, <4>3 DEF ManagerTypes, RecordedBy
    <3>3. CASE mgrs \notin Runs
      <4>1. table' = table
        BY <3>1, <3>3 DEF ManagerTypes
      <4> QED
        BY <3>1, <4>1 DEF ManagerTypes
    <3> QED
      BY <3>2, <3>3
  <2> QED
    BY <1>4, <2>1, <2>2, <2>3 DEF Routine
<1>5. ASSUME NEW m, Collapse(m) PROVE ManagerTypes'
  BY <1>5, SameManagers DEF Collapse
<1>6. CASE UNCHANGED vars
  BY <1>6, SameManagers DEF vars
<1> QED
  BY <1>1, <1>2, <1>3, <1>4, <1>5, <1>6 DEF Next, Main, Handler

LEMMA ClusterTypesStep ==
  ASSUME TypeInv, [Next]_vars
  PROVE  ClusterTypes'
<1> USE DEF TypeInv
<1>1. CASE SortConfigs \/ BeginRun \/ SetConfig \/ Wait \/ EndOps \/ NextRun \/ HandlerReady
  BY <1>1, SameCluster DEF SortConfigs, BeginRun, SetConfig, Wait, EndOps, NextRun, HandlerReady
<1>2. CASE InitManager
  BY <1>2 DEF InitManager, Crash, ClusterTypes, routineVars, clusterVars
<1>3. CASE StartRoutine
  BY <1>3 DEF StartRoutine, ClusterTypes, clusterVars
<1>4. ASSUME NEW e, Finalize(e) PROVE ClusterTypes'
  <2>1. /\ UNCHANGED <<at, refused, owed>> /\ objects' \subseteq objects
        /\ home' = home \/ home' = [home EXCEPT ![fin[e].mgr] = "terminating"]
    BY <1>4 DEF Finalize, ReadCleanup, BeginRange, VisitManager, DeleteObjects, DeleteHome, EndRange,
                Report, Crash, routineVars, clusterVars
  <2> QED
    BY <2>1 DEF ClusterTypes
<1>5. ASSUME NEW g \in Routines, Routine(g) PROVE ClusterTypes'
  BY <1>5 DEF Routine, EnsureNamespace, CallCreate, Record, Crash, Step, ClusterTypes,
              routineVars, clusterVars
<1>6. ASSUME NEW m, Collapse(m) PROVE ClusterTypes'
  BY <1>6 DEF Collapse, ClusterTypes, routineVars
<1>7. CASE Signal
  BY <1>7 DEF Signal, ClusterTypes, routineVars, clusterVars
<1>8. CASE UNCHANGED vars
  BY <1>8, SameCluster DEF vars
<1> QED
  BY <1>1, <1>2, <1>3, <1>4, <1>5, <1>6, <1>7, <1>8 DEF Next, Main, Handler

LEMMA FinTypesStep ==
  ASSUME TypeInv, MainAt, [Next]_vars
  PROVE  FinTypes'
<1> USE DEF TypeInv
<1>1. CASE SortConfigs \/ BeginRun \/ SetConfig \/ StartRoutine \/ Wait \/ NextRun \/ HandlerReady
  BY <1>1, SameFin
     DEF SortConfigs, BeginRun, SetConfig, StartRoutine, Wait, NextRun, HandlerReady, managerVars
<1>2. CASE InitManager
  <2> DEFINE m == ManagerOf(Kind)
  <2>1. /\ m \in ManagerNames /\ mgrs = run
        /\ \/ stage' = stage
           \/ \E next \in {"added", "named", "dialed", "ready"} :
                stage' = [stage EXCEPT ![run][m] = next]
    BY <1>2, InitAdvances
  <2>2. fin' = fin
    BY <1>2 DEF InitManager, Crash
  <2> HIDE DEF m
  <2>3. \A r \in Runs, n \in ManagerNames : stage'[r][n] # "absent" \/ stage'[r][n] = stage[r][n]
    BY <2>1 DEF ManagerTypes
  <2>4. \A r \in Runs \cup {0} : InMap(r) \subseteq InMap(r)'
    BY <2>3, MapsGrow
  <2>5. \A e \in {"main", "handler"} : fin[e].map \in Runs \cup {0}
    BY DEF FinTypes, FinRecord
  <2>6. \A e \in {"main", "handler"} : FinOK(fin[e])'
    BY <2>2, <2>4, <2>5 DEF FinTypes, FinOK
  <2> QED
    BY <2>2, <2>6 DEF FinTypes
\* A step of Finalize that moves on.
<1>s. ASSUME NEW e \in {"main", "handler"}, NEW next, FinOK(next),
             fin' = [fin EXCEPT ![e] = next], UNCHANGED stage
      PROVE  FinTypes'
  BY <1>s, MovedFin
<1>n. ASSUME NEW e \in {"main", "handler"}, NEW a \in {"flag", "home", "range"}, UNCHANGED stage,
             a = "flag" => fin[e].at = "off", fin' = [fin EXCEPT ![e].at = a]
      PROVE  FinTypes'
  <2> DEFINE next == [fin[e] EXCEPT !.at = a]
  <2>1. fin[e] \in FinRecord /\ FinOK(fin[e])
    BY DEF FinTypes
  <2>2. next \in FinRecord /\ next.must = fin[e].must /\ next.seen = fin[e].seen
        /\ next.map = fin[e].map /\ next.at = a
    BY <2>1 DEF FinRecord, FinStates
  <2>3. fin' = [fin EXCEPT ![e] = next]
    BY <1>n DEF FinTypes
  <2> HIDE DEF next
  <2> QED
    BY <1>n, <1>s, <2>1, <2>2, <2>3 DEF FinOK
<1>3. CASE EndOps
  <2>1. UNCHANGED stage /\ fin["main"].at = "off" /\ fin' = [fin EXCEPT !["main"].at = "flag"]
    BY <1>3 DEF EndOps, managerVars, MainAt
  <2> QED
    BY <1>n, <2>1
<1>4. CASE Signal
  <2>1. UNCHANGED stage /\ fin["handler"].at = "off" /\ fin' = [fin EXCEPT !["handler"].at = "flag"]
    BY <1>4 DEF Signal, managerVars, MainAt
  <2> QED
    BY <1>n, <2>1
<1>5. ASSUME NEW e \in {"main", "handler"}, Finalize(e) PROVE FinTypes'
  <2> DEFINE f == fin[e]
  <2>0. f \in FinRecord /\ FinOK(f) /\ mgrs \in Runs \cup {0}
    BY DEF FinTypes, MainTypes
  <2>f. NotFinalizing \in FinRecord /\ NotFinalizing.must = {} /\ NotFinalizing.seen = {}
    BY DEF NotFinalizing, FinRecord, FinStates
  <2>c. CASE Crash
    BY <2>c, SameFin DEF Crash, managerVars
  <2>1. CASE ReadCleanup(e)
    <3> DEFINE next == [f EXCEPT !.map = mgrs, !.at =
                          IF benchConfig # 0 /\ Cleans(benchConfig) THEN "map" ELSE "report"]
    <3>1. fin' = [fin EXCEPT ![e] = next] /\ UNCHANGED stage /\ f.at = "flag"
      BY <2>1 DEF ReadCleanup, MoveFin, managerVars
    <3>2. f.must = {} /\ f.seen = {}
      BY <2>0, <3>1 DEF FinOK
    <3>3. next \in FinRecord /\ next.must = {} /\ next.seen = {}
      BY <2>0, <3>2 DEF FinRecord, FinStates
    <3> HIDE DEF next
    <3> QED
      BY <1>s, <3>1, <3>3 DEF FinOK
  <2>2. CASE BeginRange(e)
    <3> DEFINE next == [at |-> "range", map |-> mgrs, must |-> InMap(mgrs), seen |-> {},
                        mgr |-> "none"]
    <3>1. fin' = [fin EXCEPT ![e] = next] /\ UNCHANGED stage
      BY <2>2 DEF BeginRange, MoveFin, managerVars
    <3>2. next \in FinRecord /\ next.must = InMap(next.map) /\ next.seen = {} /\ next.at = "range"
      BY <2>0, MapOfManagers DEF FinRecord, FinStates
    <3> HIDE DEF next
    <3> QED
      BY <1>s, <3>1, <3>2 DEF FinOK
  <2>3. CASE VisitManager(e)
    <3>1. PICK m \in InMap(f.map) \ f.seen :
            fin' = [fin EXCEPT ![e] = [f EXCEPT !.at = "delete", !.mgr = m, !.must = @ \ {m},
                                                !.seen = @ \cup {m}]]
      BY <2>3 DEF VisitManager, MoveFin
    <3> DEFINE next == [f EXCEPT !.at = "delete", !.mgr = m, !.must = @ \ {m}, !.seen = @ \cup {m}]
    <3>2. UNCHANGED stage /\ m \in ManagerNames
      BY <2>3, MapOfManagers DEF VisitManager, managerVars
    <3>3. fin' = [fin EXCEPT ![e] = next]
      BY <3>1
    <3> HIDE DEF f
    <3>4. /\ next \in FinRecord /\ next.must = f.must \ {m} /\ next.seen = f.seen \cup {m}
          /\ next.map = f.map /\ next.at = "delete"
      BY <2>0, <3>2 DEF FinRecord, FinStates
    <3> HIDE DEF next
    <3> QED
      BY <1>s, <2>0, <3>1, <3>2, <3>3, <3>4 DEF FinOK
  <2>4. CASE DeleteObjects(e)
    <3>1. Crash \/ (UNCHANGED stage /\ fin' = [fin EXCEPT ![e].at = "home"])
      BY <2>0, <2>4 DEF DeleteObjects, MoveFin, FinTypes
    <3> QED
      BY <1>n, <2>c, <3>1
  <2>5. CASE DeleteHome(e)
    <3>1. Crash \/ (UNCHANGED stage /\ fin' = [fin EXCEPT ![e].at = "range"])
      BY <2>0, <2>5 DEF DeleteHome, MoveFin, FinTypes
    <3> QED
      BY <1>n, <2>c, <3>1
  <2>6. CASE EndRange(e)
    <3> DEFINE next == [NotFinalizing EXCEPT !.at = "report", !.map = mgrs]
    <3>1. fin' = [fin EXCEPT ![e] = next] /\ UNCHANGED stage
      BY <2>6 DEF EndRange, MoveFin, managerVars
    <3>2. next \in FinRecord /\ next.must = {} /\ next.seen = {}
      BY <2>0, <2>f DEF FinRecord, FinStates
    <3> HIDE DEF next
    <3> QED
      BY <1>s, <3>1, <3>2 DEF FinOK
  <2>7. CASE Report(e)
    <3>1. Crash \/ (UNCHANGED stage /\ fin' = [fin EXCEPT ![e] = NotFinalizing])
      BY <2>7 DEF Report, MoveFin, managerVars
    <3>2. FinOK(NotFinalizing)
      BY <2>f DEF FinOK
    <3> QED
      BY <1>s, <2>c, <3>1, <3>2
  <2> QED
    BY <1>5, <2>1, <2>2, <2>3, <2>4, <2>5, <2>6, <2>7 DEF Finalize
<1>6. ASSUME NEW g, Routine(g) PROVE FinTypes'
  BY <1>6, SameFin DEF Routine, EnsureNamespace, CallCreate, Record, Crash, managerVars
<1>7. ASSUME NEW m, Collapse(m) PROVE FinTypes'
  BY <1>7, SameFin DEF Collapse, managerVars
<1>8. CASE UNCHANGED vars
  BY <1>8, SameFin DEF vars, managerVars
<1> QED
  BY <1>1, <1>2, <1>3, <1>4, <1>5, <1>6, <1>7, <1>8 DEF Next, Main, Handler

LEMMA SameAt ==
  ASSUME MainAt, UNCHANGED <<order, run, pc, mgrs, benchConfig, fin, handler>>
  PROVE  MainAt'
BY DEF MainAt, Cleans, Conf

LEMMA MainAtStep ==
  ASSUME TypeInv, MainAt, [Next]_vars
  PROVE  MainAt'
<1> USE DEF Goto
<1>0. /\ run \in Nat /\ run \in Runs /\ run > 0
      /\ fin \in [{"main", "handler"} -> FinRecord]
  BY RunsAreNumbers DEF TypeInv, MainTypes, FinTypes, Runs
<1>1. CASE SortConfigs
  BY <1>1 DEF SortConfigs, MainAt, globals
<1>2. CASE BeginRun
  BY <1>0, <1>2 DEF BeginRun, Fresh, MainAt, Cleans, Conf
<1>3. CASE SetConfig
  BY <1>0, <1>3 DEF SetConfig, MainAt, Cleans, Conf
<1>4. CASE InitManager
  BY <1>4, SameAt DEF InitManager, Crash, mainVars, globals
<1>5. CASE StartRoutine
  BY <1>5, SameAt DEF StartRoutine, globals
<1>6. CASE Wait
  BY <1>6, SameAt DEF Wait, globals
<1>7. CASE EndOps
  <2>1. /\ pc = "op" /\ pc' = "finalize" /\ UNCHANGED <<order, run, mgrs, benchConfig, handler>>
        /\ fin' = [fin EXCEPT !["main"].at = "flag"]
    BY <1>7 DEF EndOps, globals
  <2>2. fin'["main"].at = "flag" /\ fin'["handler"] = fin["handler"]
    BY <1>0, <2>1 DEF FinRecord
  <2> QED
    BY <2>1, <2>2 DEF MainAt
<1>8. CASE NextRun
  BY <1>0, <1>8 DEF NextRun, MoreRuns, MainAt, globals, Cleans, Conf
<1>9. CASE HandlerReady
  BY <1>9 DEF HandlerReady, MainAt, mainVars, globals, Cleans, Conf
<1>10. CASE Signal
  <2>1. /\ UNCHANGED <<order, run, pc, mgrs, benchConfig>>
        /\ handler = "waiting" /\ handler' = "taken" /\ fin' = [fin EXCEPT !["handler"].at = "flag"]
    BY <1>10 DEF Signal, mainVars, globals
  <2>2. fin'["handler"].at = "flag" /\ fin'["main"] = fin["main"]
    BY <1>0, <2>1 DEF FinRecord
  <2> QED
    BY <2>1, <2>2 DEF MainAt, Cleans, Conf
\* A step within Finalize.
<1>s. ASSUME NEW e \in {"main", "handler"}, NEW next, fin' = [fin EXCEPT ![e] = next],
             UNCHANGED <<order, run, pc, mgrs, benchConfig, handler>>,
             fin[e].at # "off", next.at # "off",
             next.at \in {"delete", "home"} => next.mgr \in ManagerNames,
             e = "main" => /\ next.at \in {"map", "range", "delete", "home"} => Cleans(run)
                           /\ next.at \in {"range", "delete", "home"} => next.map = run
      PROVE  MainAt'
  <2>1. fin'[e] = next /\ \A d \in {"main", "handler"} : d # e => fin'[d] = fin[d]
    BY <1>0, <1>s
  <2>2. Cleans(run)' = Cleans(run)
    BY <1>s DEF Cleans, Conf
  <2>3. CASE e = "main"
    BY <1>s, <2>1, <2>2, <2>3 DEF MainAt
  <2>4. CASE e = "handler"
    BY <1>s, <2>1, <2>2, <2>4 DEF MainAt
  <2> QED
    BY <2>3, <2>4
<1>11. ASSUME NEW e \in {"main", "handler"}, Finalize(e) PROVE MainAt'
  <2> DEFINE f == fin[e]
  <2>0. f \in FinRecord
    BY <1>0
  <2>c. CASE Crash
    BY <2>c, SameAt DEF Crash, mainVars, globals
  <2>1. CASE ReadCleanup(e)
    <3> DEFINE next == [f EXCEPT !.map = mgrs, !.at =
                          IF benchConfig # 0 /\ Cleans(benchConfig) THEN "map" ELSE "report"]
    <3>1. /\ fin' = [fin EXCEPT ![e] = next] /\ f.at = "flag"
          /\ UNCHANGED <<order, run, pc, mgrs, benchConfig, handler>>
      BY <2>1 DEF ReadCleanup, MoveFin, mainVars, globals
    <3>2. next.at = IF benchConfig # 0 /\ Cleans(benchConfig) THEN "map" ELSE "report"
      BY <2>0 DEF FinRecord
    <3>3. e = "main" => benchConfig = run
      BY <3>1 DEF MainAt
    <3> HIDE DEF next
    <3> QED
      BY <1>s, <3>1, <3>2, <3>3
  <2>2. CASE BeginRange(e)
    <3> DEFINE next == [at |-> "range", map |-> mgrs, must |-> InMap(mgrs), seen |-> {},
                        mgr |-> "none"]
    <3>1. /\ fin' = [fin EXCEPT ![e] = next] /\ f.at = "map"
          /\ UNCHANGED <<order, run, pc, mgrs, benchConfig, handler>>
      BY <2>2 DEF BeginRange, MoveFin, mainVars, globals
    <3>2. next.at = "range" /\ next.map = mgrs
      OBVIOUS
    <3>3. e = "main" => mgrs = run /\ Cleans(run)
      BY <3>1 DEF MainAt
    <3> HIDE DEF next
    <3> QED
      BY <1>s, <3>1, <3>2, <3>3
  <2>3. CASE VisitManager(e)
    <3>1. PICK m \in InMap(f.map) \ f.seen :
            fin' = [fin EXCEPT ![e] = [f EXCEPT !.at = "delete", !.mgr = m, !.must = @ \ {m},
                                                !.seen = @ \cup {m}]]
      BY <2>3 DEF VisitManager, MoveFin
    <3> DEFINE next == [f EXCEPT !.at = "delete", !.mgr = m, !.must = @ \ {m}, !.seen = @ \cup {m}]
    <3>2. /\ f.at = "range" /\ UNCHANGED <<order, run, pc, mgrs, benchConfig, handler>>
          /\ m \in ManagerNames
      BY <2>3, MapOfManagers DEF VisitManager, MoveFin, mainVars, globals
    <3>3. fin' = [fin EXCEPT ![e] = next]
      BY <3>1
    <3>5. e = "main" => f.map = run /\ Cleans(run)
      BY <3>2 DEF MainAt
    <3> HIDE DEF f
    <3>4. next.at = "delete" /\ next.mgr = m /\ next.map = f.map
      BY <2>0 DEF FinRecord
    <3> HIDE DEF next
    <3> QED
      BY <1>s, <3>2, <3>3, <3>4, <3>5 DEF f
  <2>n. ASSUME NEW a \in {"home", "range"}, fin' = [fin EXCEPT ![e].at = a],
               UNCHANGED <<order, run, pc, mgrs, benchConfig, handler>>, f.at \in {"delete", "home"}
        PROVE  MainAt'
    <3> DEFINE next == [f EXCEPT !.at = a]
    <3>1. next.at = a /\ next.mgr = f.mgr /\ next.map = f.map
      BY <2>0 DEF FinRecord
    <3>2. fin' = [fin EXCEPT ![e] = next]
      BY <1>0, <2>n
    <3>3. f.mgr \in ManagerNames /\ (e = "main" => f.map = run /\ Cleans(run))
      BY <2>n DEF MainAt
    <3> HIDE DEF next
    <3> QED
      BY <1>s, <2>n, <3>1, <3>2, <3>3
  <2>4. CASE DeleteObjects(e)
    BY <1>0, <2>c, <2>n, <2>4 DEF DeleteObjects, MoveFin, mainVars, globals
  <2>5. CASE DeleteHome(e)
    BY <1>0, <2>c, <2>n, <2>5 DEF DeleteHome, MoveFin, mainVars, globals
  <2>6. CASE EndRange(e)
    <3> DEFINE next == [NotFinalizing EXCEPT !.at = "report", !.map = mgrs]
    <3>1. /\ fin' = [fin EXCEPT ![e] = next] /\ f.at = "range"
          /\ UNCHANGED <<order, run, pc, mgrs, benchConfig, handler>>
      BY <2>6 DEF EndRange, MoveFin, mainVars, globals
    <3>2. next.at = "report"
      BY DEF NotFinalizing
    <3> HIDE DEF next
    <3> QED
      BY <1>s, <3>1, <3>2
  <2>7. CASE Report(e)
    <3> SUFFICES ASSUME ~Crash PROVE MainAt'
      BY <2>c
    <3>1. /\ fin' = [fin EXCEPT ![e] = NotFinalizing] /\ f.at = "report"
          /\ UNCHANGED <<order, run, mgrs, benchConfig, handler>>
          /\ pc' = IF e = "main" THEN "sleep" ELSE pc
      BY <2>7 DEF Report, MoveFin, AfterFinalize, globals
    <3>2. NotFinalizing.at = "off"
      BY DEF NotFinalizing
    <3>3. fin'[e].at = "off" /\ \A d \in {"main", "handler"} : d # e => fin'[d] = fin[d]
      BY <1>0, <3>1, <3>2
    <3>4. Cleans(run)' = Cleans(run)
      BY <3>1 DEF Cleans, Conf
    <3>5. CASE e = "main"
      BY <3>1, <3>3, <3>4, <3>5 DEF MainAt
    <3>6. CASE e = "handler"
      BY <3>1, <3>3, <3>4, <3>6 DEF MainAt
    <3> QED
      BY <3>5, <3>6
  <2> QED
    BY <1>11, <2>1, <2>2, <2>3, <2>4, <2>5, <2>6, <2>7 DEF Finalize
<1>12. ASSUME NEW g, Routine(g) PROVE MainAt'
  BY <1>12, SameAt DEF Routine, EnsureNamespace, CallCreate, Record, Crash, mainVars, globals
<1>13. ASSUME NEW m, Collapse(m) PROVE MainAt'
  BY <1>13, SameAt DEF Collapse, mainVars, globals
<1>14. CASE UNCHANGED vars
  BY <1>14, SameAt DEF vars, mainVars, globals
<1> QED
  BY <1>1, <1>2, <1>3, <1>4, <1>5, <1>6, <1>7, <1>8, <1>9, <1>10, <1>11, <1>12, <1>13, <1>14
     DEF Next, Main, Handler

\* Types are kept, main is where it should be, and the runs are in order.
Weighed == pc # "sort" => Ascends(order, Len(order))

LEMMA InitTypes == Init => TypeInv /\ MainAt /\ Weighed
<1> SUFFICES ASSUME Init PROVE TypeInv /\ MainAt /\ Weighed
  OBVIOUS
<1>1. FinOK(NotFinalizing) /\ NotFinalizing \in FinRecord /\ NotFinalizing.at = "off"
  <2>1. NotFinalizing \in FinRecord
    BY DEF NotFinalizing, FinRecord, FinStates
  <2> QED
    BY <2>1 DEF FinOK, NotFinalizing
<1>2. MainTypes
  BY RunsAreNumbers DEF Init, MainTypes, Orders
<1>3. ManagerTypes
  BY DEF Init, ManagerTypes
<1>4. ClusterTypes
  BY DEF Init, ClusterTypes
<1>5. FinTypes
  BY <1>1 DEF Init, FinTypes
<1>6. MainAt
  BY <1>1, RunsAreNumbers DEF Init, MainAt
<1> QED
  BY <1>2, <1>3, <1>4, <1>5, <1>6 DEF Init, TypeInv, Weighed

LEMMA WeighedStep ==
  ASSUME TypeInv, MainAt, Weighed, [Next]_vars
  PROVE  Weighed'
<1>1. CASE SortConfigs
  <2>1. Sorted(order) \in Orders /\ Ascends(Sorted(order), Len(order))
    BY SortedAscends DEF TypeInv, MainTypes
  <2>2. Len(Sorted(order)) = Len(order)
    BY <2>1, OrdersAreSeqs DEF TypeInv, MainTypes
  <2> QED
    BY <1>1, <2>1, <2>2 DEF SortConfigs, Weighed
<1>2. CASE ~SortConfigs
  <2>1. order' = order /\ (pc' = pc \/ pc # "sort")
    <3>1. CASE BeginRun \/ SetConfig \/ InitManager \/ StartRoutine \/ Wait \/ EndOps \/ NextRun
      BY <3>1 DEF BeginRun, SetConfig, InitManager, Crash, StartRoutine, Wait, EndOps, NextRun,
                  mainVars
    <3>2. ASSUME NEW e \in {"main", "handler"}, Finalize(e)
          PROVE  order' = order /\ (pc' = pc \/ pc # "sort")
      <4>1. CASE Report(e)
        <5>1. fin["main"].at = "report" => pc = "finalize"
          BY DEF MainAt
        <5>2. order' = order /\ fin[e].at = "report" /\ (pc' = pc \/ e = "main")
          BY <4>1 DEF Report, MoveFin, AfterFinalize, Crash, mainVars
        <5> QED
          BY <5>1, <5>2
      <4>2. CASE ~Report(e)
        BY <3>2, <4>2 DEF Finalize, ReadCleanup, BeginRange, VisitManager, DeleteObjects,
                          DeleteHome, EndRange, Crash, mainVars
      <4> QED
        BY <4>1, <4>2
    <3>3. CASE HandlerReady \/ Signal \/ UNCHANGED vars
      BY <3>3 DEF HandlerReady, Signal, vars, mainVars
    <3>4. ASSUME NEW g, Routine(g) PROVE order' = order /\ pc' = pc
      BY <3>4 DEF Routine, EnsureNamespace, CallCreate, Record, Crash, mainVars
    <3>5. ASSUME NEW m, Collapse(m) PROVE order' = order /\ pc' = pc
      BY <3>5 DEF Collapse, mainVars
    <3> QED
      BY <1>2, <3>1, <3>2, <3>3, <3>4, <3>5 DEF Next, Main, Handler
  <2> QED
    BY <2>1 DEF Weighed
<1> QED
  BY <1>1, <1>2

LEMMA Typed == Spec => [](TypeInv /\ MainAt /\ Weighed)
<1>1. TypeInv /\ MainAt /\ Weighed /\ [Next]_vars => (TypeInv /\ MainAt /\ Weighed)'
  <2> SUFFICES ASSUME TypeInv, MainAt, Weighed, [Next]_vars
               PROVE  (TypeInv /\ MainAt /\ Weighed)'
    OBVIOUS
  <2>1. TypeInv'
    BY MainTypesStep, ManagerTypesStep, ClusterTypesStep, FinTypesStep DEF TypeInv
  <2> QED
    BY <2>1, MainAtStep, WeighedStep
<1> QED
  BY <1>1, InitTypes, PTL DEF Spec

\* Every variable has its type, for any configurations.
THEOREM BenchmarkTypes == Spec => []TypeOK
<1>1. TypeInv => TypeOK
  BY TypeInvIsTypeOK
<1> QED
  BY <1>1, Typed, PTL

\* The comparison given to sort.Slice is no order (an empty configuration is less than
\* itself), and yet the runs come from light to heavy, for any configurations that are
\* few enough for sort.Slice to sort by insertion.
THEOREM LightToHeavy == Spec => []RunsLightToHeavy
<1>1. TypeInv /\ Weighed => RunsLightToHeavy
  <2> SUFFICES ASSUME TypeInv, Weighed, pc # "sort", NEW i \in 1 .. Len(order) - 1
               PROVE  PodsMax(order[i]) <= PodsMax(order[i + 1])
    BY DEF RunsLightToHeavy
  <2>1. Len(order) \in Nat
    BY OrdersAreSeqs DEF TypeInv, MainTypes
  <2>2. i \in 1 .. Len(order) /\ i + 1 \in 1 .. Len(order) /\ i <= i + 1
    BY <2>1
  <2> QED
    BY <2>2 DEF Weighed, Ascends
<1> QED
  BY <1>1, Typed, PTL

\* Goroutines belong to runs that have begun, to the current operation if they are not
\* done, and their managers are initialised. Those of the current operation were
\* started for the kinds before the one main is at.
Begun ==
  \A g \in Routines : at[g] # "unborn" =>
    /\ g[1] < run \/ (g[1] = run /\ pc \in {"op", "finalize", "sleep"})
    /\ at[g] # "done" => g[1] = run /\ g[2] = op /\ pc = "op" /\ InOps(op)
    /\ stage[g[1]][Mgr(g)] = "ready"
    /\ g[1] = run /\ pc = "op" =>
         g[2] < op \/ (g[2] = op /\ \E k \in 1 .. kindIdx - 1 : k <= 8 /\ KindOrder[k] = g[3])

\* Objects were made by their goroutines, in namespaces that are there.
Made ==
  \A g \in objects :
    at[g] \in {"made", "done"} /\ (Mgr(g) \in Homed => home[Mgr(g)] # "none")

\* The object is gone, or goes with its namespace.
Doomed(g) == g \in objects => Mgr(g) \in Homed /\ home[Mgr(g)] = "terminating"

\* Finalize called by e will still come to the object of g.
InHand(e, g) ==
  LET f == fin[e] IN
  /\ f.map = g[1]
  /\ \/ f.at \in {"range", "delete", "home"} /\ Mgr(g) \in f.must
     \/ f.at = "delete" /\ Mgr(g) = f.mgr
     \/ f.at = "home" /\ Mgr(g) = f.mgr /\ Mgr(g) \in Homed

\* A run that cleans up leaves nothing.
RunsClean ==
  \A g \in objects : Cleans(g[1]) =>
    /\ g[1] < run \/ (g[1] = run /\ pc = "sleep") => Doomed(g)
    /\ g[1] = run /\ pc = "finalize" =>
         Doomed(g) \/ fin["main"].at \in {"flag", "map"} \/ InHand("main", g)

\* What is owed is in the hands of the handler, unless main has seen to it.
HandlerCleans ==
  /\ handler # "taken" => owed = {}
  /\ proc = "exit1" => fin["handler"].at = "off"
  /\ \A g \in owed :
       /\ at[g] \in {"made", "done"} /\ Cleans(g[1])
       /\ \/ Doomed(g)
          \/ fin["handler"].at = "flag" /\ mgrs = g[1] /\ benchConfig = g[1]
          \/ fin["handler"].at = "map" /\ mgrs = g[1]
          \/ InHand("handler", g)

Cleanup == MainAt /\ Begun /\ Made /\ RunsClean /\ HandlerCleans

-----------------------------------------------------------------------------
(* What a step does to the goroutines and to the cluster *)

LEMMA MaxOpsType == MaxOps \in Nat
<1> DEFINE f == [c \in Configs |-> Len(Setting[c].ops)]
           S == {f[c] : c \in Configs} \cup {0}
<1>1. \A c \in Configs : Len(Setting[c].ops) \in Nat
  BY SettingAssumption
<1>2. S \in SUBSET Nat /\ S # {}
  BY <1>1
<1>3. MaxOps = Max(S)
  <2>1. S = {Len(Setting[c].ops) : c \in Configs} \cup {0}
    OBVIOUS
  <2> QED
    BY <2>1 DEF MaxOps
<1> HIDE DEF f
<1>4. IsFiniteSet(S)
  <2>1. DOMAIN f = Configs
    BY DEF f
  <2>2. IsFiniteSet({f[c] : c \in Configs})
    BY <2>1, SettingAssumption, ImageFinite
  <2> QED
    BY <2>2, FS_AddElement
<1> HIDE DEF S
<1>5. Max(S) \in S
  BY <1>2, <1>4, MaxIsLargest
<1> QED
  BY <1>2, <1>3, <1>5

LEMMA KindAfterGrows ==
  ASSUME NEW k \in Nat, k <= 8, NEW o
  PROVE  /\ KindAfter(k, o) \in k + 1 .. 9
         /\ KindAfter(k, o) <= 8 => InOps(o) /\ KindOrder[KindAfter(k, o)] \in Conf(run).ops[o].kinds
         /\ \A j \in k + 1 .. KindAfter(k, o) - 1 :
              ~(InOps(o) /\ KindOrder[j] \in Conf(run).ops[o].kinds)
<1> DEFINE T == {j \in k + 1 .. 8 : InOps(o) /\ KindOrder[j] \in Conf(run).ops[o].kinds}
           S == T \cup {9}
<1>1. KindAfter(k, o) = Min(S)
  BY EightKinds DEF KindAfter
<1>2. S \in SUBSET (k + 1 .. 9) /\ S # {} /\ S \in SUBSET Int
  OBVIOUS
<1>3. IsFiniteSet(k + 1 .. 9)
  BY FS_Interval
<1>4. /\ \A j \in S : j <= 8 => InOps(o) /\ KindOrder[j] \in Conf(run).ops[o].kinds
      /\ \A j \in k + 1 .. 8 : InOps(o) /\ KindOrder[j] \in Conf(run).ops[o].kinds => j \in S
  OBVIOUS
<1> HIDE DEF S
<1>5. IsFiniteSet(S)
  BY <1>2, <1>3, FS_Subset
<1>6. Min(S) \in S /\ \A j \in S : Min(S) <= j
  BY <1>2, <1>5, MinIsLeast
<1>7. Min(S) \in k + 1 .. 9
  BY <1>2, <1>6
<1>8. ASSUME NEW j \in k + 1 .. Min(S) - 1 PROVE j \in k + 1 .. 8 /\ j \notin S
  BY <1>6, <1>7
<1> QED
  BY <1>1, <1>4, <1>6, <1>7, <1>8

\* A kind has one place.
LEMMA KindsDiffer ==
  ASSUME NEW i \in 1 .. 8, NEW j \in 1 .. 8, KindOrder[i] = KindOrder[j]
  PROVE  i = j
<1>1. \A n \in 1 .. 8 : n = 1 \/ n = 2 \/ n = 3 \/ n = 4 \/ n = 5 \/ n = 6 \/ n = 7 \/ n = 8
  OBVIOUS
<1> DEFINE O == <<"Pod", "Deployment", "StatefulSet", "Namespace", "Service",
                  "ReplicationController", "ConfigMap", "Secret">>
<1>2. /\ O[1] = "Pod" /\ O[2] = "Deployment" /\ O[3] = "StatefulSet" /\ O[4] = "Namespace"
      /\ O[5] = "Service" /\ O[6] = "ReplicationController" /\ O[7] = "ConfigMap"
      /\ O[8] = "Secret"
  OBVIOUS
<1>3. KindOrder = O
  BY DEF KindOrder
<1> HIDE DEF O
<1> QED
  BY <1>1, <1>2, <1>3

\* A step of main or of Finalize, other than those that concern goroutines.
LEMMA OtherSteps ==
  ASSUME [Next]_vars, ~StartRoutine, ~\E g \in Routines : Routine(g)
  PROVE  UNCHANGED routineVars
<1>1. ASSUME NEW e, Finalize(e) PROVE UNCHANGED routineVars
  BY <1>1 DEF Finalize, ReadCleanup, BeginRange, VisitManager, DeleteObjects, DeleteHome, EndRange,
              Report, Crash
<1> QED
  BY <1>1 DEF Next, Main, Handler, SortConfigs, BeginRun, SetConfig, InitManager, Crash, Wait, EndOps,
              NextRun, HandlerReady, Signal, Collapse, vars

\* A goroutine that is started was not there before.
LEMMA StartedOnce ==
  ASSUME TypeInv, MainAt, Begun, StartRoutine
  PROVE  LET s == <<run, op, Kind>> IN
         /\ s \in Routines => at[s] = "unborn"
         /\ at' = [at EXCEPT ![s] = "start"]
         /\ pc = "op" /\ InOps(op) /\ stage[run][ManagerOf(Kind)] = "ready"
         /\ kindIdx \in 1 .. 8 /\ kindIdx' \in kindIdx + 1 .. 9
<1> DEFINE s == <<run, op, Kind>>
<1>1. /\ pc = "op" /\ mgrs = run /\ InOps(op) /\ stage[run][ManagerOf(Kind)] = "ready"
      /\ kindIdx \in 1 .. 8 /\ at' = [at EXCEPT ![s] = "start"]
      /\ kindIdx' = KindAfter(kindIdx, op)
  BY EightKinds DEF StartRoutine, Wanted, TypeInv, MainTypes, MainAt
<1>2. kindIdx' \in kindIdx + 1 .. 9
  BY <1>1, KindAfterGrows
<1>3. ASSUME s \in Routines, at[s] # "unborn" PROVE FALSE
  <2>1. op < op \/ \E k \in 1 .. kindIdx - 1 : k <= 8 /\ KindOrder[k] = Kind
    BY <1>1, <1>3 DEF Begun
  <2>2. op \in Int
    BY DEF TypeInv, MainTypes
  <2>3. PICK k \in 1 .. kindIdx - 1 : k <= 8 /\ KindOrder[k] = KindOrder[kindIdx]
    BY <2>1, <2>2 DEF Kind
  <2>4. k \in 1 .. 8 /\ k # kindIdx
    BY <1>1
  <2> QED
    BY <1>1, <2>3, <2>4, KindsDiffer
<1> QED
  BY <1>1, <1>2, <1>3

\* Goroutines go on; those that are done, or have made their object, stay so.
LEMMA RoutinesGoOn ==
  ASSUME TypeInv, MainAt, Begun, [Next]_vars, NEW g \in Routines
  PROVE  /\ at[g] = "done" => at'[g] = "done"
         /\ at[g] \in {"made", "done"} => at'[g] \in {"made", "done"}
         /\ at[g] # "unborn" => at'[g] # "unborn"
<1>0. at \in [Routines -> {"unborn", "start", "call", "made", "done"}]
  BY DEF TypeInv, ClusterTypes
<1>1. CASE StartRoutine
  BY <1>0, <1>1, StartedOnce
<1>2. ASSUME NEW h \in Routines, Routine(h)
      PROVE  /\ at[g] = "done" => at'[g] = "done"
             /\ at[g] \in {"made", "done"} => at'[g] \in {"made", "done"}
             /\ at[g] # "unborn" => at'[g] # "unborn"
  BY <1>0, <1>2 DEF Routine, EnsureNamespace, CallCreate, Record, Step, Crash, routineVars
<1>3. CASE UNCHANGED routineVars
  BY <1>3 DEF routineVars
<1> QED
  BY <1>1, <1>2, <1>3, OtherSteps

\* Only CallCreate makes objects.
LEMMA ObjectsAreMade ==
  ASSUME TypeInv, [Next]_vars, NEW g, g \in objects', g \notin objects
  PROVE  g \in Routines /\ CallCreate(g) /\ at[g] = "call" /\ at'[g] = "made"
         /\ (Mgr(g) \in Homed => home[Mgr(g)] = "active")
<1>0. at \in [Routines -> {"unborn", "start", "call", "made", "done"}]
  BY DEF TypeInv, ClusterTypes
<1>1. ASSUME NEW h \in Routines, Routine(h) PROVE h = g /\ CallCreate(h)
  BY <1>1 DEF Routine, EnsureNamespace, CallCreate, Record, Step, Crash, clusterVars
<1>2. ASSUME NEW e, Finalize(e) PROVE FALSE
  BY <1>2 DEF Finalize, ReadCleanup, BeginRange, VisitManager, DeleteObjects, DeleteHome, EndRange,
              Report, Crash, clusterVars
<1>3. PICK h \in Routines : Routine(h)
  BY <1>2 DEF Next, Main, Handler, SortConfigs, BeginRun, SetConfig, InitManager, StartRoutine, Crash,
              Wait, EndOps, NextRun, HandlerReady, Signal, Collapse, vars, clusterVars
<1>4. g \in Routines /\ CallCreate(g)
  BY <1>1, <1>3
<1> QED
  BY <1>0, <1>4 DEF CallCreate, Step

\* The life of a home namespace; when it is gone, so is what was in it.
LEMMA HomesLive ==
  ASSUME TypeInv, [Next]_vars, NEW m \in Homed
  PROVE  \/ home'[m] = home[m]
         \/ home[m] = "none" /\ home'[m] = "active"
         \/ home[m] = "active" /\ home'[m] = "terminating"
         \/ home[m] = "terminating" /\ home'[m] = "none" /\ \A g \in objects' : Mgr(g) # m
<1>0. home \in [Homed -> {"none", "active", "terminating"}]
  BY DEF TypeInv, ClusterTypes
<1> DEFINE Lives == \/ home'[m] = home[m]
                    \/ home[m] = "none" /\ home'[m] = "active"
                    \/ home[m] = "active" /\ home'[m] = "terminating"
                    \/ home[m] = "terminating" /\ home'[m] = "none" /\ \A g \in objects' : Mgr(g) # m
<1>1. ASSUME NEW h \in Routines, Routine(h) PROVE Lives
  BY <1>0, <1>1 DEF Routine, EnsureNamespace, CallCreate, Record, Crash, clusterVars
<1>2. ASSUME NEW e, Finalize(e) PROVE Lives
  BY <1>0, <1>2 DEF Finalize, ReadCleanup, BeginRange, VisitManager, DeleteObjects, DeleteHome, EndRange,
              Report, Crash, clusterVars
<1>3. ASSUME NEW n \in Homed, Collapse(n) PROVE Lives
  BY <1>0, <1>3 DEF Collapse
<1>4. CASE InitManager
  BY <1>0, <1>4 DEF InitManager, Crash, clusterVars
<1>5. CASE SortConfigs \/ BeginRun \/ SetConfig \/ StartRoutine \/ Wait \/ EndOps \/ NextRun
           \/ HandlerReady \/ Signal \/ UNCHANGED vars
  BY <1>5 DEF SortConfigs, BeginRun, SetConfig, StartRoutine, Wait, EndOps, NextRun, HandlerReady,
              Signal, vars, clusterVars
<1> QED
  BY <1>1, <1>2, <1>3, <1>4, <1>5 DEF Next, Main, Handler

\* What Begun says of one goroutine.
BegunOne(g) ==
  at[g] # "unborn" =>
    /\ g[1] < run \/ (g[1] = run /\ pc \in {"op", "finalize", "sleep"})
    /\ at[g] # "done" => g[1] = run /\ g[2] = op /\ pc = "op" /\ InOps(op)
    /\ stage[g[1]][Mgr(g)] = "ready"
    /\ g[1] = run /\ pc = "op" =>
         g[2] < op \/ (g[2] = op /\ \E k \in 1 .. kindIdx - 1 : k <= 8 /\ KindOrder[k] = g[3])

LEMMA BegunStep ==
  ASSUME TypeInv, MainAt, Begun, [Next]_vars
  PROVE  Begun'
<1> SUFFICES ASSUME NEW g \in Routines PROVE BegunOne(g)'
  BY DEF Begun, BegunOne
<1> USE DEF Goto
<1>0. /\ BegunOne(g) /\ g[1] \in Nat /\ g[1] \in Runs /\ g[1] > 0 /\ g[2] \in Nat /\ run \in Nat
      /\ op \in Nat /\ Mgr(g) \in ManagerNames /\ kindIdx \in 1 .. 9
      /\ at \in [Routines -> {"unborn", "start", "call", "made", "done"}]
      /\ stage \in [Runs -> [ManagerNames -> {"absent", "added", "named", "dialed", "ready"}]]
  <2>1. g[2] \in 1 .. MaxOps
    BY DEF Routines
  <2> QED
    BY <2>1, RoutineKinds, RunsAreNumbers, MaxOpsType
       DEF Begun, BegunOne, TypeInv, MainTypes, ClusterTypes, ManagerTypes, Runs
\* Main stays where it is.
<1>s. ASSUME UNCHANGED <<order, run, op, pc, kindIdx>>, at'[g] # "unborn" => at[g] # "unborn",
             at[g] = "done" => at'[g] = "done",
             stage[g[1]][Mgr(g)] = "ready" => stage'[g[1]][Mgr(g)] = "ready"
      PROVE  BegunOne(g)'
  BY <1>0, <1>s DEF BegunOne, InOps, Conf
<1>1. CASE SortConfigs
  BY <1>0, <1>1 DEF SortConfigs, BegunOne, MainAt, managerVars, routineVars
<1>2. CASE BeginRun
  BY <1>0, <1>2 DEF BeginRun, BegunOne, managerVars, routineVars
<1>3. CASE SetConfig
  BY <1>0, <1>3 DEF SetConfig, BegunOne, managerVars, routineVars
<1>4. CASE InitManager
  <2>1. /\ pc = "op" /\ stage[run][ManagerOf(Kind)] # "ready"
        /\ \/ stage' = stage
           \/ \E next \in {"added", "named", "dialed", "ready"} :
                stage' = [stage EXCEPT ![run][ManagerOf(Kind)] = next]
    BY <1>4, InitAdvances
  <2>2. UNCHANGED <<order, run, op, pc, kindIdx, at>>
    BY <1>4 DEF InitManager, Crash, mainVars, routineVars
  <2>3. stage[g[1]][Mgr(g)] = "ready" => stage'[g[1]][Mgr(g)] = "ready"
    BY <1>0, <2>1
  <2> QED
    BY <1>s, <2>2, <2>3
<1>5. CASE StartRoutine
  <2> DEFINE h == <<run, op, Kind>>
  <2>1. /\ at' = [at EXCEPT ![h] = "start"] /\ pc = "op" /\ InOps(op)
        /\ stage[run][ManagerOf(Kind)] = "ready"
        /\ kindIdx \in 1 .. 8 /\ kindIdx' \in kindIdx + 1 .. 9
        /\ UNCHANGED <<order, run, op, pc, stage>>
    BY <1>5, StartedOnce DEF StartRoutine, managerVars
  <2>n. ASSUME NEW n \in 1 .. 8, NEW o \in n + 1 .. 9
        PROVE  n \in 1 .. o - 1 /\ n <= 8 /\ \A k \in 1 .. n - 1 : k \in 1 .. o - 1
    OBVIOUS
  <2>2. InOps(op)'
    BY <2>1 DEF InOps, Conf
  <2>3. CASE g = h
    <3>1. g[1] = run /\ g[2] = op /\ g[3] = KindOrder[kindIdx] /\ Mgr(g) = ManagerOf(Kind)
      BY <2>3 DEF Kind, Mgr
    <3>2. kindIdx \in 1 .. kindIdx' - 1 /\ kindIdx <= 8
      BY <2>1, <2>n, Zenon
    <3> QED
      BY <2>1, <2>2, <3>1, <3>2 DEF BegunOne
  <2>4. CASE g # h
    <3>1. at'[g] = at[g]
      BY <1>0, <2>1, <2>4
    <3>2. \A k \in 1 .. kindIdx - 1 : k \in 1 .. kindIdx' - 1
      BY <2>1, <2>n, Zenon
    <3> QED
      BY <1>0, <2>1, <2>2, <3>1, <3>2 DEF BegunOne
  <2> QED
    BY <2>3, <2>4
<1>6. CASE Wait
  <2>1. /\ pc = "op" /\ op' = op + 1 /\ UNCHANGED <<order, run, pc, stage, at>>
        /\ g[1] = run /\ g[2] = op => at[g] \in {"unborn", "done"}
    BY <1>6 DEF Wait, managerVars, routineVars
  <2> QED
    BY <1>0, <2>1 DEF BegunOne
<1>7. CASE EndOps
  BY <1>0, <1>7 DEF EndOps, BegunOne, managerVars, routineVars
<1>8. CASE NextRun
  BY <1>0, <1>8 DEF NextRun, BegunOne, MoreRuns, managerVars, routineVars, InOps, Conf
<1>9. ASSUME NEW e \in {"main", "handler"}, Finalize(e) PROVE BegunOne(g)'
  <2>1. /\ UNCHANGED <<order, run, op, kindIdx, stage, at>>
        /\ pc' = pc \/ (e = "main" /\ fin[e].at = "report" /\ pc' = "sleep")
    BY <1>9 DEF Finalize, ReadCleanup, BeginRange, VisitManager, DeleteObjects, DeleteHome, EndRange,
                Report, AfterFinalize, MoveFin, Crash, mainVars, managerVars, routineVars
  <2>2. pc' = pc \/ (pc = "finalize" /\ pc' = "sleep")
    BY <2>1 DEF MainAt
  <2> QED
    BY <1>0, <2>1, <2>2 DEF BegunOne, InOps, Conf
<1>10. ASSUME NEW h \in Routines, Routine(h) PROVE BegunOne(g)'
  <2>1. UNCHANGED <<order, run, op, pc, kindIdx, stage>>
    BY <1>10 DEF Routine, EnsureNamespace, CallCreate, Record, Crash, mainVars, managerVars
  <2>2. (at'[g] # "unborn" => at[g] # "unborn") /\ (at[g] = "done" => at'[g] = "done")
    BY <1>0, <1>10 DEF Routine, EnsureNamespace, CallCreate, Record, Step, Crash, routineVars
  <2> QED
    BY <1>s, <2>1, <2>2
<1>11. ASSUME HandlerReady \/ Signal \/ (\E m \in Homed : Collapse(m)) \/ UNCHANGED vars
       PROVE  BegunOne(g)'
  <2>1. UNCHANGED <<order, run, op, pc, kindIdx, stage, at>>
    BY <1>11 DEF HandlerReady, Signal, Collapse, vars, mainVars, managerVars, routineVars
  <2> QED
    BY <1>s, <2>1
<1> QED
  BY <1>1, <1>2, <1>3, <1>4, <1>5, <1>6, <1>7, <1>8, <1>9, <1>10, <1>11 DEF Next, Main, Handler

LEMMA MadeStep ==
  ASSUME TypeInv, MainAt, Begun, Made, [Next]_vars
  PROVE  Made'
<1> SUFFICES ASSUME NEW g \in objects'
             PROVE  at'[g] \in {"made", "done"} /\ (Mgr(g) \in Homed => home'[Mgr(g)] # "none")
  BY DEF Made
<1>1. CASE g \in objects
  <2>1. g \in Routines /\ at[g] \in {"made", "done"} /\ (Mgr(g) \in Homed => home[Mgr(g)] # "none")
    BY <1>1 DEF Made, TypeInv, ClusterTypes
  <2> QED
    BY <2>1, RoutinesGoOn, HomesLive
<1>2. CASE g \notin objects
  <2>1. at'[g] = "made" /\ CallCreate(g) /\ (Mgr(g) \in Homed => home[Mgr(g)] = "active")
    BY <1>2, ObjectsAreMade
  <2> QED
    BY <2>1 DEF CallCreate
<1> QED
  BY <1>1, <1>2

\* What is doomed stays so, until it is gone.
LEMMA DoomedStays ==
  ASSUME TypeInv, [Next]_vars, NEW g, at[g] # "call", Doomed(g)
  PROVE  Doomed(g)'
<1> SUFFICES ASSUME g \in objects' PROVE Mgr(g) \in Homed /\ home'[Mgr(g)] = "terminating"
  BY DEF Doomed
<1>1. g \in objects
  BY ObjectsAreMade
<1>2. Mgr(g) \in Homed /\ home[Mgr(g)] = "terminating"
  BY <1>1 DEF Doomed
<1> QED
  BY <1>2, HomesLive

-----------------------------------------------------------------------------
(* Nobody touches the Finalize of e but e, once it has begun. *)

LEMMA FinMoves ==
  ASSUME TypeInv, MainAt, [Next]_vars, NEW e \in {"main", "handler"}, fin[e].at # "off"
  PROVE  fin'[e] = fin[e] \/ Finalize(e)
<1>0. fin \in [{"main", "handler"} -> FinRecord]
  BY DEF TypeInv, FinTypes
<1>1. ASSUME NEW d \in {"main", "handler"}, d # e, Finalize(d) PROVE fin'[e] = fin[e]
  BY <1>0, <1>1 DEF Finalize, ReadCleanup, BeginRange, VisitManager, DeleteObjects, DeleteHome,
                    EndRange, Report, MoveFin, Crash
<1>2. CASE EndOps
  <2>1. pc = "op" /\ fin' = [fin EXCEPT !["main"].at = "flag"]
    BY <1>2 DEF EndOps
  <2>2. e # "main"
    BY <2>1 DEF MainAt
  <2> QED
    BY <1>0, <2>1, <2>2
<1>3. CASE Signal
  <2>1. handler = "waiting" /\ fin' = [fin EXCEPT !["handler"].at = "flag"]
    BY <1>3 DEF Signal
  <2>2. e # "handler"
    BY <2>1 DEF MainAt
  <2> QED
    BY <1>0, <2>1, <2>2
<1>4. ASSUME SortConfigs \/ BeginRun \/ SetConfig \/ InitManager \/ StartRoutine \/ Wait \/ NextRun
             \/ HandlerReady \/ (\E g \in Routines : Routine(g)) \/ (\E m \in Homed : Collapse(m))
             \/ UNCHANGED vars
      PROVE  fin' = fin
  BY <1>4 DEF SortConfigs, BeginRun, SetConfig, InitManager, StartRoutine, Wait, NextRun, Crash,
              HandlerReady, Routine, EnsureNamespace, CallCreate, Record, Collapse, vars
<1> QED
  BY <1>1, <1>2, <1>3, <1>4 DEF Next, Main, Handler

\* What Finalize has in hand it deletes, or dooms, before it comes to the report.
LEMMA HandMoves ==
  ASSUME TypeInv, MainAt, Begun, Made, [Next]_vars, NEW e \in {"main", "handler"},
         NEW g \in Routines, at[g] \in {"made", "done"}, InHand(e, g)
  PROVE  InHand(e, g)' \/ Doomed(g)'
<1> DEFINE f == fin[e]
           m == Mgr(g)
<1>0. /\ f \in FinRecord /\ fin \in [{"main", "handler"} -> FinRecord] /\ g[1] \in Runs
      /\ m \in ManagerNames /\ stage[g[1]][m] = "ready" /\ f.map = g[1]
      /\ f.at \in {"range", "delete", "home"}
      /\ home \in [Homed -> {"none", "active", "terminating"}]
  BY RoutineKinds DEF TypeInv, FinTypes, ClusterTypes, Begun, InHand
<1>c. CASE fin'[e] = fin[e]
  BY <1>c DEF InHand
<1>1. CASE VisitManager(e)
  <2>1. PICK n \in InMap(f.map) \ f.seen :
          fin' = [fin EXCEPT ![e] = [f EXCEPT !.at = "delete", !.mgr = n, !.must = @ \ {n},
                                              !.seen = @ \cup {n}]]
    BY <1>1 DEF VisitManager, MoveFin
  <2> DEFINE next == [f EXCEPT !.at = "delete", !.mgr = n, !.must = @ \ {n}, !.seen = @ \cup {n}]
  <2>2. fin'[e] = next
    BY <1>0, <2>1
  <2>3. f.at = "range"
    BY <1>1 DEF VisitManager, MoveFin
  <2>4. m \in f.must
    BY <2>3 DEF InHand
  <2> HIDE DEF f
  <2>5. next.at = "delete" /\ next.map = f.map /\ next.mgr = n /\ next.must = f.must \ {n}
    BY <1>0 DEF FinRecord
  <2> HIDE DEF next
  <2> QED
    BY <1>0, <2>2, <2>4, <2>5 DEF InHand
<1>2. CASE DeleteObjects(e)
  <2>1. f.at = "delete" /\ (m \in f.must \/ m = f.mgr)
    BY <1>2 DEF DeleteObjects, InHand
  <2>2. CASE Crash
    BY <2>2, <1>c DEF Crash
  <2>3. CASE ~Crash
    <3> DEFINE next == [f EXCEPT !.at = "home"]
               listed == {h \in objects : Mgr(h) = f.mgr /\ f.mgr \in ByLabel}
    <3>1. /\ fin' = [fin EXCEPT ![e] = next]
          /\ objects' = objects \ (IF f.mgr \in Informed THEN table[f.map][f.mgr] ELSE listed)
      BY <1>2, <2>3 DEF DeleteObjects, MoveFin
    <3>2. fin'[e] = next
      BY <1>0, <3>1
    <3>3. next.at = "home" /\ next.map = f.map /\ next.mgr = f.mgr /\ next.must = f.must
      BY <1>0 DEF FinRecord
    <3> HIDE DEF next
    <3>4. CASE m \in f.must \/ m \in Homed
      BY <1>0, <2>1, <3>2, <3>3, <3>4 DEF InHand
    <3>5. CASE m = f.mgr /\ m \notin Homed
      <4>1. m = "Namespace"
        BY <1>0, <3>5 DEF Homed
      <4>2. f.mgr \notin Informed /\ f.mgr \in ByLabel
        BY <3>5, <4>1 DEF Informed, Owners, ByLabel
      <4>3. g \notin objects'
        BY <3>1, <3>5, <4>2
      <4> QED
        BY <4>3 DEF Doomed
    <3> QED
      BY <2>1, <3>4, <3>5
  <2> QED
    BY <2>2, <2>3
<1>3. CASE DeleteHome(e)
  <2>1. f.at = "home" /\ (m \in f.must \/ (m = f.mgr /\ m \in Homed))
    BY <1>3 DEF DeleteHome, InHand
  <2>2. CASE Crash
    BY <2>2, <1>c DEF Crash
  <2>3. CASE ~Crash
    <3> DEFINE next == [f EXCEPT !.at = "range"]
    <3>1. /\ fin' = [fin EXCEPT ![e] = next] /\ objects' = objects
          /\ home' = IF f.mgr \in HomesDeleted /\ home[f.mgr] = "active"
                        /\ stage[f.map][f.mgr] # "added"
                     THEN [home EXCEPT ![f.mgr] = "terminating"] ELSE home
      BY <1>3, <2>3 DEF DeleteHome, MoveFin
    <3>2. fin'[e] = next
      BY <1>0, <3>1
    <3>3. next.at = "range" /\ next.map = f.map /\ next.must = f.must
      BY <1>0 DEF FinRecord
    <3> HIDE DEF next
    <3>4. CASE m \in f.must
      BY <1>0, <3>2, <3>3, <3>4 DEF InHand
    <3>5. CASE m = f.mgr /\ m \in Homed
      <4>1. g \in objects => home[m] \in {"active", "terminating"}
        BY <1>0, <3>5 DEF Made
      <4>2. g \in objects => home'[m] = "terminating"
        BY <1>0, <3>1, <3>5, <4>1 DEF HomesDeleted
      <4> QED
        BY <3>1, <3>5, <4>2 DEF Doomed
    <3> QED
      BY <2>1, <3>4, <3>5
  <2> QED
    BY <2>2, <2>3
<1>4. CASE EndRange(e)
  BY <1>0, <1>4 DEF EndRange, MoveFin, InHand
<1>5. CASE ReadCleanup(e) \/ BeginRange(e) \/ Report(e)
  <2>1. CASE Crash
    BY <2>1, <1>c DEF Crash
  <2> QED
    BY <1>0, <1>5, <2>1 DEF ReadCleanup, BeginRange, Report, MoveFin
<1> QED
  BY <1>0, <1>c, <1>1, <1>2, <1>3, <1>4, <1>5, FinMoves DEF Finalize

-----------------------------------------------------------------------------
(* Runs that clean up, and the handler *)

\* The configurations keep their places once they are sorted, before there are objects.
LEMMA SettingsStay ==
  ASSUME TypeInv, MainAt, Begun, [Next]_vars, NEW g \in Routines, at[g] # "unborn"
  PROVE  Cleans(g[1])' = Cleans(g[1])
<1>1. ~SortConfigs
  <2>1. g[1] \in Runs /\ g[1] > 0 /\ g[1] \in Nat /\ run \in Nat
    BY RoutineKinds, RunsAreNumbers DEF TypeInv, MainTypes, Runs
  <2> QED
    BY <2>1 DEF SortConfigs, Begun, MainAt
<1>2. ASSUME NEW e, Finalize(e) PROVE order' = order
  BY <1>2 DEF Finalize, ReadCleanup, BeginRange, VisitManager, DeleteObjects, DeleteHome, EndRange,
              Report, Crash, mainVars
<1>3. order' = order
  BY <1>1, <1>2 DEF Next, Main, Handler, BeginRun, SetConfig, InitManager, StartRoutine, Wait, EndOps,
              NextRun, HandlerReady, Signal, Routine, EnsureNamespace, CallCreate, Record, Collapse,
              Crash, vars, mainVars
<1> QED
  BY <1>3 DEF Cleans, Conf

\* How main goes on.
LEMMA MainMoves ==
  ASSUME TypeInv, MainAt, [Next]_vars
  PROVE  \/ UNCHANGED <<run, pc>>
         \/ run' = run /\ pc' \in {"begin", "conf", "op"} /\ pc \in {"sort", "begin", "conf"}
         \/ EndOps /\ run' = run /\ pc = "op" /\ pc' = "finalize"
         \/ Report("main") /\ run' = run /\ pc = "finalize" /\ pc' = "sleep"
         \/ run' = run + 1 /\ pc = "sleep" /\ pc' = "begin"
<1> USE DEF Goto
<1>1. ASSUME NEW e \in {"main", "handler"}, Finalize(e)
      PROVE  UNCHANGED <<run, pc>> \/ (Report("main") /\ run' = run /\ pc = "finalize" /\ pc' = "sleep")
  <2>1. CASE Report(e)
    <3>1. run' = run /\ (pc' = pc \/ (e = "main" /\ fin[e].at = "report" /\ pc' = "sleep"))
      BY <2>1 DEF Report, MoveFin, AfterFinalize, Crash, mainVars
    <3> QED
      BY <2>1, <3>1 DEF MainAt
  <2>2. CASE ~Report(e)
    BY <1>1, <2>2 DEF Finalize, ReadCleanup, BeginRange, VisitManager, DeleteObjects, DeleteHome,
                      EndRange, Crash, mainVars
  <2> QED
    BY <2>1, <2>2
<1>2. CASE SortConfigs \/ BeginRun \/ SetConfig \/ EndOps \/ NextRun
  BY <1>2 DEF SortConfigs, BeginRun, SetConfig, EndOps, NextRun
<1>3. ASSUME InitManager \/ StartRoutine \/ Wait \/ HandlerReady \/ Signal
             \/ (\E g \in Routines : Routine(g)) \/ (\E m \in Homed : Collapse(m)) \/ UNCHANGED vars
      PROVE  UNCHANGED <<run, pc>>
  BY <1>3 DEF InitManager, StartRoutine, Wait, HandlerReady, Signal, Routine, EnsureNamespace,
              CallCreate, Record, Collapse, Crash, vars, mainVars
<1> QED
  BY <1>1, <1>2, <1>3 DEF Next, Main, Handler

LEMMA RunsCleanStep ==
  ASSUME TypeInv, MainAt, Begun, Made, RunsClean, [Next]_vars
  PROVE  RunsClean'
<1> SUFFICES ASSUME NEW g \in objects', Cleans(g[1])'
             PROVE  /\ g[1] < run' \/ (g[1] = run' /\ pc' = "sleep") => Doomed(g)'
                    /\ g[1] = run' /\ pc' = "finalize" =>
                         Doomed(g)' \/ fin'["main"].at \in {"flag", "map"} \/ InHand("main", g)'
  BY DEF RunsClean
<1>0. /\ run \in Nat /\ run \in Runs
      /\ fin \in [{"main", "handler"} -> FinRecord]
  BY RunsAreNumbers DEF TypeInv, MainTypes, FinTypes
<1>1. CASE g \notin objects
  <2>1. g \in Routines /\ CallCreate(g) /\ at[g] = "call"
    BY <1>1, ObjectsAreMade
  <2>2. g[1] = run /\ pc = "op"
    BY <2>1 DEF Begun
  <2>3. UNCHANGED <<run, pc>>
    BY <2>1 DEF CallCreate, mainVars
  <2> QED
    BY <1>0, <2>2, <2>3
<1>2. CASE g \in objects
  <2>1. /\ g \in Routines /\ at[g] \in {"made", "done"}
        /\ g[1] \in Nat /\ g[1] \in Runs /\ Mgr(g) \in ManagerNames
        /\ g[1] < run \/ (g[1] = run /\ pc \in {"op", "finalize", "sleep"})
        /\ stage[g[1]][Mgr(g)] = "ready"
    BY <1>2, RoutineKinds DEF Made, Begun, TypeInv, ClusterTypes
  <2>2. Cleans(g[1])
    BY <2>1, SettingsStay
  <2>3. /\ g[1] < run \/ (g[1] = run /\ pc = "sleep") => Doomed(g)
        /\ g[1] = run /\ pc = "finalize" =>
             Doomed(g) \/ fin["main"].at \in {"flag", "map"} \/ InHand("main", g)
    BY <1>2, <2>2 DEF RunsClean
  <2>4. Doomed(g) => Doomed(g)'
    BY <2>1, DoomedStays
  <2>5. ASSUME g[1] < run' \/ (g[1] = run' /\ pc' = "sleep") PROVE Doomed(g)'
    <3>1. CASE Report("main") /\ run' = run /\ pc = "finalize" /\ pc' = "sleep"
      <4>1. fin["main"].at = "report" \/ Crash
        BY <3>1 DEF Report, MoveFin
      <4>2. fin["main"].at = "report"
        BY <3>1, <4>1 DEF Crash, mainVars
      <4> QED
        BY <2>1, <2>3, <2>4, <3>1, <4>2 DEF InHand
    <3>2. CASE run' = run + 1 /\ pc = "sleep"
      BY <2>1, <2>3, <2>4, <3>2
    <3> QED
      BY <1>0, <2>1, <2>3, <2>4, <2>5, <3>1, <3>2, MainMoves
  <2>6. ASSUME g[1] = run', pc' = "finalize"
        PROVE  Doomed(g)' \/ fin'["main"].at \in {"flag", "map"} \/ InHand("main", g)'
    <3>1. CASE EndOps
      <4>1. fin' = [fin EXCEPT !["main"].at = "flag"]
        BY <3>1 DEF EndOps
      <4>2. fin'["main"].at = "flag"
        BY <1>0, <4>1 DEF FinRecord
      <4> QED
        BY <4>2
    <3>2. CASE ~EndOps
      <4>1. g[1] = run /\ pc = "finalize" /\ mgrs = run /\ benchConfig = run /\ fin["main"].at # "off"
        BY <2>6, <3>2, MainMoves DEF MainAt
      <4>2. fin'["main"] = fin["main"] \/ Finalize("main")
        BY <4>1, FinMoves
      <4>3. CASE Doomed(g)
        BY <2>4, <4>3
      <4>4. CASE InHand("main", g)
        BY <2>1, <4>4, HandMoves
      <4>5. CASE fin["main"].at \in {"flag", "map"}
        <5> DEFINE f == fin["main"]
        <5>1. CASE fin'["main"] = fin["main"]
          BY <4>5, <5>1
        <5>2. CASE ReadCleanup("main")
          <6>1. fin' = [fin EXCEPT !["main"] = [f EXCEPT !.map = mgrs, !.at = "map"]]
            <7>1. benchConfig # 0 /\ Cleans(benchConfig)
              BY <1>0, <2>2, <4>1, MapOfManagers
            <7> QED
              BY <5>2, <7>1 DEF ReadCleanup, MoveFin
          <6>2. fin'["main"].at = "map"
            BY <1>0, <6>1 DEF FinRecord
          <6> QED
            BY <6>2
        <5>3. CASE BeginRange("main")
          <6> DEFINE next == [at |-> "range", map |-> mgrs, must |-> InMap(mgrs), seen |-> {},
                              mgr |-> "none"]
          <6>1. fin' = [fin EXCEPT !["main"] = next]
            BY <5>3 DEF BeginRange, MoveFin
          <6>2. fin'["main"] = next
            BY <1>0, <6>1
          <6>3. Mgr(g) \in InMap(mgrs)
            BY <1>0, <2>1, <4>1, MapOfManagers DEF InMap
          <6> QED
            BY <4>1, <6>2, <6>3 DEF InHand
        <5>4. CASE Crash
          BY <5>1, <5>4 DEF Crash
        <5> QED
          BY <4>2, <4>5, <5>1, <5>2, <5>3, <5>4
             DEF Finalize, VisitManager, DeleteObjects, DeleteHome, EndRange, Report, MoveFin
      <4> QED
        BY <2>3, <4>1, <4>3, <4>4, <4>5
    <3> QED
      BY <3>1, <3>2
  <2> QED
    BY <2>5, <2>6
<1> QED
  BY <1>1, <1>2

\* Only the handler ends the process with a failure, and only when it is through.
LEMMA ExitStep ==
  ASSUME TypeInv, proc = "exit1" => fin["handler"].at = "off", [Next]_vars
  PROVE  proc' = "exit1" => fin'["handler"].at = "off"
<1>0. fin \in [{"main", "handler"} -> FinRecord]
  BY DEF TypeInv, FinTypes
<1>1. CASE proc = "exit1"
  <2>1. ~Alive
    BY <1>1 DEF Alive
  <2>2. UNCHANGED vars
    BY <2>1 DEF Next, Main, Handler, SortConfigs, BeginRun, SetConfig, InitManager, Wanted, StartRoutine,
                Wait, EndOps, NextRun, HandlerReady, Signal, Routine, EnsureNamespace, CallCreate, Record,
                Step, Collapse, Finalize, ReadCleanup, BeginRange, VisitManager, DeleteObjects,
                DeleteHome, EndRange, Report, MoveFin
  <2> QED
    BY <1>1, <2>2 DEF vars
<1>2. CASE proc # "exit1"
  <2> SUFFICES ASSUME proc' = "exit1" PROVE fin'["handler"].at = "off"
    OBVIOUS
  <2>1. ASSUME NEW e \in {"main", "handler"}, Finalize(e)
        PROVE  e = "handler" /\ fin' = [fin EXCEPT ![e] = NotFinalizing]
    <3>1. CASE Report(e)
      BY <1>2, <3>1 DEF Report, MoveFin, AfterFinalize, Crash
    <3>2. CASE ~Report(e)
      BY <1>2, <2>1, <3>2 DEF Finalize, ReadCleanup, BeginRange, VisitManager, DeleteObjects, DeleteHome,
                              EndRange, Crash
    <3> QED
      BY <3>1, <3>2
  <2>2. PICK e \in {"main", "handler"} : Finalize(e)
    BY <1>2 DEF Next, Main, Handler, SortConfigs, BeginRun, SetConfig, InitManager, StartRoutine, Crash,
                Wait, EndOps, NextRun, HandlerReady, Signal, Routine, EnsureNamespace, CallCreate, Record,
                Collapse, vars
  <2>3. fin' = [fin EXCEPT !["handler"] = NotFinalizing]
    BY <2>1, <2>2
  <2> QED
    BY <1>0, <2>3 DEF NotFinalizing
<1> QED
  BY <1>1, <1>2

\* What was in the cluster when the signal was taken.
LEMMA OwedAtSignal ==
  ASSUME TypeInv, MainAt, Begun, Made, RunsClean, HandlerCleans, Signal, NEW g \in owed', [Next]_vars
  PROVE  /\ at'[g] \in {"made", "done"} /\ Cleans(g[1])'
         /\ Doomed(g)' \/ (fin'["handler"].at = "flag" /\ mgrs' = g[1] /\ benchConfig' = g[1])
<1>1. /\ g \in objects /\ g[1] = benchConfig /\ Cleans(benchConfig)
      /\ UNCHANGED <<order, at, mgrs, benchConfig>>
      /\ fin' = [fin EXCEPT !["handler"].at = "flag"]
  BY DEF Signal, Cleans, mainVars, routineVars, globals
<1>2. g \in Routines /\ at[g] \in {"made", "done"}
  BY <1>1 DEF Made, TypeInv, ClusterTypes
<1>3. g[1] < run \/ (g[1] = run /\ pc \in {"op", "finalize", "sleep"})
  BY <1>2 DEF Begun
<1>4. fin'["handler"].at = "flag"
  BY <1>1 DEF TypeInv, FinTypes, FinRecord
<1>5. CASE g[1] = run /\ pc \in {"op", "finalize", "sleep"}
  BY <1>1, <1>2, <1>4, <1>5 DEF MainAt, Cleans, Conf
<1>6. CASE g[1] < run
  <2>1. Doomed(g)
    BY <1>1, <1>6 DEF RunsClean
  <2> QED
    BY <1>1, <1>2, <2>1, DoomedStays DEF Cleans, Conf
<1> QED
  BY <1>3, <1>5, <1>6

\* What is owed when the signal was taken already.
LEMMA OwedGoesOn ==
  ASSUME TypeInv, MainAt, Begun, Made, RunsClean, HandlerCleans, NEW g \in owed, [Next]_vars
  PROVE  \/ Doomed(g)'
         \/ fin'["handler"].at = "flag" /\ mgrs' = g[1] /\ benchConfig' = g[1]
         \/ fin'["handler"].at = "map" /\ mgrs' = g[1]
         \/ InHand("handler", g)'
<1> DEFINE f == fin["handler"]
<1>0. /\ g \in Routines /\ g[1] \in Runs /\ Mgr(g) \in ManagerNames
      /\ at[g] \in {"made", "done"} /\ Cleans(g[1])
      /\ stage[g[1]][Mgr(g)] = "ready"
      /\ g[1] < run \/ (g[1] = run /\ pc \in {"op", "finalize", "sleep"})
      /\ run \in Nat /\ fin \in [{"main", "handler"} -> FinRecord]
  BY RoutineKinds, RunsAreNumbers DEF HandlerCleans, Begun, TypeInv, MainTypes, ClusterTypes, FinTypes
<1>1. CASE Doomed(g)
  BY <1>0, <1>1, DoomedStays
<1>2. CASE InHand("handler", g)
  BY <1>0, <1>2, HandMoves
<1>3. CASE f.at \in {"flag", "map"} /\ mgrs = g[1] /\ (f.at = "flag" => benchConfig = g[1])
  <2> SUFFICES ASSUME ~Doomed(g) PROVE
         \/ fin'["handler"].at = "flag" /\ mgrs' = g[1] /\ benchConfig' = g[1]
         \/ fin'["handler"].at = "map" /\ mgrs' = g[1]
         \/ InHand("handler", g)'
    BY <1>1
\* The run is the current one still: those before have left nothing.
  <2>1. g[1] = run /\ pc \in {"op", "finalize", "sleep"}
    <3>1. ~(g[1] < run)
      BY <1>0 DEF RunsClean, Doomed
    <3> QED
      BY <1>0, <3>1
  <2>2. mgrs' = mgrs /\ benchConfig' = benchConfig
    <3>1. ASSUME NEW e, Finalize(e) PROVE UNCHANGED globals
      BY <3>1 DEF Finalize, ReadCleanup, BeginRange, VisitManager, DeleteObjects, DeleteHome, EndRange,
                  Report, Crash
    <3>2. UNCHANGED globals
      BY <2>1, <3>1 DEF Next, Main, Handler, SortConfigs, BeginRun, SetConfig, InitManager, StartRoutine,
                        Wait, EndOps, NextRun, HandlerReady, Signal, Routine, EnsureNamespace, CallCreate,
                        Record, Collapse, Crash, vars
    <3> QED
      BY <3>2 DEF globals
  <2>3. fin'["handler"] = fin["handler"] \/ Finalize("handler")
    BY <1>3, FinMoves
  <2>4. CASE fin'["handler"] = fin["handler"]
    BY <1>3, <2>2, <2>4
  <2>5. CASE ReadCleanup("handler")
    <3>1. f.at = "flag" /\ benchConfig = g[1] /\ benchConfig # 0
      BY <1>0, <1>3, <2>5, MapOfManagers DEF ReadCleanup, MoveFin
    <3>2. fin' = [fin EXCEPT !["handler"] = [f EXCEPT !.map = mgrs, !.at = "map"]]
      BY <1>0, <2>5, <3>1 DEF ReadCleanup, MoveFin
    <3>3. fin'["handler"].at = "map"
      BY <1>0, <3>2 DEF FinRecord
    <3> QED
      BY <1>3, <2>2, <3>3
  <2>6. CASE BeginRange("handler")
    <3> DEFINE next == [at |-> "range", map |-> mgrs, must |-> InMap(mgrs), seen |-> {},
                        mgr |-> "none"]
    <3>1. fin' = [fin EXCEPT !["handler"] = next]
      BY <2>6 DEF BeginRange, MoveFin
    <3>2. fin'["handler"] = next
      BY <1>0, <3>1
    <3>3. Mgr(g) \in InMap(mgrs)
      BY <1>0, <1>3, MapOfManagers DEF InMap
    <3> QED
      BY <1>3, <3>2, <3>3 DEF InHand
  <2>7. CASE Crash
    BY <2>4, <2>7 DEF Crash
  <2> QED
    BY <1>3, <2>3, <2>4, <2>5, <2>6, <2>7
       DEF Finalize, VisitManager, DeleteObjects, DeleteHome, EndRange, Report, MoveFin
<1> QED
  BY <1>1, <1>2, <1>3 DEF HandlerCleans

LEMMA HandlerCleansStep ==
  ASSUME TypeInv, MainAt, Begun, Made, RunsClean, HandlerCleans, [Next]_vars
  PROVE  HandlerCleans'
<1>1. proc' = "exit1" => fin'["handler"].at = "off"
  BY ExitStep DEF HandlerCleans
<1>2. Signal \/ (owed' = owed /\ (handler' # "taken" => handler # "taken"))
  <2>1. ASSUME NEW e, Finalize(e) PROVE UNCHANGED <<owed, handler>>
    BY <2>1 DEF Finalize, ReadCleanup, BeginRange, VisitManager, DeleteObjects, DeleteHome, EndRange,
                Report, Crash
  <2>2. SortConfigs => owed' = owed /\ handler # "taken"
    BY DEF SortConfigs, MainAt
  <2> QED
    BY <2>1, <2>2 DEF Next, Main, Handler, BeginRun, SetConfig, InitManager, StartRoutine, Wait, EndOps,
                      NextRun, HandlerReady, Routine, EnsureNamespace, CallCreate, Record, Collapse,
                      Crash, vars
<1>3. CASE Signal
  <2>1. handler' = "taken"
    BY <1>3 DEF Signal
  <2> QED
    BY <1>1, <1>3, <2>1, OwedAtSignal DEF HandlerCleans
<1>4. CASE owed' = owed /\ (handler' # "taken" => handler # "taken")
  <2>1. ASSUME NEW g \in owed PROVE at'[g] \in {"made", "done"} /\ Cleans(g[1])'
    <3>1. g \in Routines /\ at[g] \in {"made", "done"} /\ Cleans(g[1])
      BY <2>1 DEF HandlerCleans, TypeInv, ClusterTypes
    <3> QED
      BY <3>1, RoutinesGoOn, SettingsStay
  <2> QED
    BY <1>1, <1>4, <2>1, OwedGoesOn DEF HandlerCleans
<1> QED
  BY <1>2, <1>3, <1>4

LEMMA InitCleanup == Init => Cleanup
<1> SUFFICES ASSUME Init PROVE Cleanup
  OBVIOUS
<1>1. MainAt
  BY InitTypes
<1> QED
  BY <1>1 DEF Init, Cleanup, Begun, Made, RunsClean, HandlerCleans

LEMMA Cleaned == Spec => [](TypeInv /\ Cleanup)
<1>1. TypeInv /\ Cleanup /\ [Next]_vars => Cleanup'
  BY MainAtStep, BegunStep, MadeStep, RunsCleanStep, HandlerCleansStep DEF Cleanup
<1>2. TypeInv /\ Cleanup /\ [](TypeInv /\ MainAt /\ Weighed) /\ [][Next]_vars => [](TypeInv /\ Cleanup)
  BY <1>1, PTL
<1>3. Init => TypeInv
  BY InitTypes
<1> QED
  BY <1>2, <1>3, InitCleanup, Typed, PTL DEF Spec

\* When the handler exits, what the run had in the cluster when the signal was taken is
\* deleted or goes with its namespace, for any configurations, whatever main and its
\* goroutines did meanwhile and wherever in the run the signal came.
THEOREM InterruptsClean == Spec => []InterruptCleans
<1>1. Cleanup => InterruptCleans
  <2> SUFFICES ASSUME Cleanup, proc = "exit1", NEW g \in owed, g \in objects
               PROVE  Mgr(g) \in Homed /\ home[Mgr(g)] = "terminating"
    BY DEF InterruptCleans
  <2>1. fin["handler"].at = "off"
    BY DEF Cleanup, HandlerCleans
  <2>2. Doomed(g)
    BY <2>1 DEF Cleanup, HandlerCleans, InHand
  <2> QED
    BY <2>2 DEF Doomed
<1> QED
  BY <1>1, Cleaned, PTL

-----------------------------------------------------------------------------
(* Why an object is refused, as long as no signal is taken *)

\* A goroutine of a run before r that cleaned up used the home namespace of m.
Reason(m, r) ==
  \E h \in Routines : at[h] = "done" /\ Mgr(h) = m /\ Cleans(h[1]) /\ h[1] < r

\* Runs to come know of no namespace.
HomesInTurn ==
  \A r \in Runs : r > run \/ (r = run /\ pc \in {"sort", "begin", "conf"}) => nsSet[r] = {}

\* Main is at a kind that the operation has.
KindInTurn == pc = "op" /\ kindIdx <= 8 => InOps(op) /\ Kind \in Conf(run).ops[op].kinds

\* The managers of a run have worked for a goroutine, but for the one main is at.
Worked ==
  pc \in {"op", "finalize"} =>
    \A m \in ManagerNames : stage[run][m] # "absent" =>
      \/ \E h \in Routines : h[1] = run /\ Mgr(h) = m /\ at[h] # "unborn"
      \/ pc = "op" /\ kindIdx <= 8 /\ m = ManagerOf(Kind)

\* A home namespace is terminated by a run that cleans up.
Terminated ==
  \A m \in Homed : home[m] = "terminating" =>
    Reason(m, run) \/ (pc \in {"finalize", "sleep"} /\ Reason(m, run + 1))

\* A home namespace that was ensured is there, or one that was terminating is gone since.
Ensured ==
  /\ pc = "op" => \A m \in Homed \cap nsSet[run] : home[m] = "active" \/ Reason(m, run)
  /\ \A g \in Routines : at[g] = "call" /\ Mgr(g) \in Homed =>
       home[Mgr(g)] = "active" \/ Reason(Mgr(g), run)

Blame == HomesInTurn /\ KindInTurn /\ Worked /\ Terminated /\ Ensured /\ RefusedByEarlierRuns

BlameInv == handler # "taken" => Blame

\* A reason once given stands.
LEMMA ReasonStays ==
  ASSUME TypeInv, MainAt, Begun, [Next]_vars, NEW m, NEW r, Reason(m, r)
  PROVE  \E h \in Routines : at'[h] = "done" /\ Mgr(h) = m /\ Cleans(h[1])' /\ h[1] < r
<1>1. PICK h \in Routines : at[h] = "done" /\ Mgr(h) = m /\ Cleans(h[1]) /\ h[1] < r
  BY DEF Reason
<1>2. at'[h] = "done" /\ Cleans(h[1])'
  BY <1>1, RoutinesGoOn, SettingsStay
<1> QED
  BY <1>1, <1>2

LEMMA ReasonGrows ==
  ASSUME TypeInv, NEW m, Reason(m, run)
  PROVE  Reason(m, run + 1)
<1>1. run \in Nat /\ \A h \in Routines : h[1] \in Nat
  BY RoutineKinds, RunsAreNumbers DEF TypeInv, MainTypes
<1> QED
  BY <1>1 DEF Reason

\* Before the signal, only main finalizes.
LEMMA MainFinalizes ==
  ASSUME MainAt, handler # "taken", NEW e \in {"main", "handler"}, Finalize(e)
  PROVE  e = "main" /\ pc = "finalize" /\ handler' = handler
<1>1. fin[e].at # "off"
  BY DEF Finalize, ReadCleanup, BeginRange, VisitManager, DeleteObjects, DeleteHome, EndRange, Report,
         MoveFin
<1>2. e = "main" /\ pc = "finalize"
  BY <1>1 DEF MainAt
<1>3. handler' = handler
  BY DEF Finalize, ReadCleanup, BeginRange, VisitManager, DeleteObjects, DeleteHome, EndRange, Report,
         Crash
<1> QED
  BY <1>2, <1>3

\* A step before the signal.
LEMMA NotTakenYet ==
  ASSUME [Next]_vars, handler' # "taken"
  PROVE  handler # "taken" \/ SortConfigs
<1>1. ASSUME NEW e, Finalize(e) PROVE handler' = handler
  BY <1>1 DEF Finalize, ReadCleanup, BeginRange, VisitManager, DeleteObjects, DeleteHome, EndRange, Report,
              Crash
<1> QED
  BY <1>1 DEF Next, Main, Handler, BeginRun, SetConfig, InitManager, StartRoutine, Wait, EndOps,
              NextRun, HandlerReady, Signal, Routine, EnsureNamespace, CallCreate, Record, Collapse,
              Crash, vars

\* Only an operation adds to what a run knows of namespaces.
LEMMA NsSetMoves ==
  ASSUME TypeInv, MainAt, Begun, [Next]_vars, NEW r \in Runs
  PROVE  nsSet'[r] \subseteq nsSet[r] \/ (r = run /\ UNCHANGED <<run, pc>> /\ pc = "op")
<1>0. nsSet \in [Runs -> SUBSET ManagerNames]
  BY DEF TypeInv, ManagerTypes
<1>1. CASE InitManager
  <2>1. pc = "op" /\ mgrs = run /\ UNCHANGED <<run, pc>>
    BY <1>1, InitAdvances DEF InitManager, Crash, mainVars
  <2> QED
    BY <1>0, <1>1, <2>1 DEF InitManager, Crash, managerVars
<1>2. ASSUME NEW g \in Routines, Routine(g)
      PROVE  nsSet'[r] \subseteq nsSet[r] \/ (r = run /\ UNCHANGED <<run, pc>> /\ pc = "op")
  <2>1. CASE EnsureNamespace(g)
    <3>1. pc = "op" /\ mgrs = run /\ UNCHANGED <<run, pc>>
      BY <2>1 DEF EnsureNamespace, Step, Begun, MainAt, mainVars
    <3> QED
      BY <1>0, <2>1, <3>1 DEF EnsureNamespace
  <2>2. CASE ~EnsureNamespace(g)
    BY <1>2, <2>2 DEF Routine, CallCreate, Record, Crash, managerVars
  <2> QED
    BY <2>1, <2>2
<1>3. ASSUME NEW e, Finalize(e) PROVE nsSet'[r] \subseteq nsSet[r]
  BY <1>0, <1>3 DEF Finalize, ReadCleanup, BeginRange, VisitManager, DeleteObjects, DeleteHome, EndRange,
                    Report, Crash, managerVars
<1>4. ASSUME SortConfigs \/ BeginRun \/ SetConfig \/ StartRoutine \/ Wait \/ EndOps \/ NextRun
             \/ HandlerReady \/ Signal \/ (\E m \in Homed : Collapse(m)) \/ UNCHANGED vars
      PROVE  nsSet' = nsSet
  BY <1>4 DEF SortConfigs, BeginRun, SetConfig, StartRoutine, Wait, EndOps, NextRun, HandlerReady, Signal,
              Collapse, vars, managerVars
<1> QED
  BY <1>1, <1>2, <1>3, <1>4 DEF Next, Main, Handler

LEMMA HomesInTurnStep ==
  ASSUME TypeInv, MainAt, Begun, HomesInTurn, [Next]_vars
  PROVE  HomesInTurn'
<1> SUFFICES ASSUME NEW r \in Runs, r > run' \/ (r = run' /\ pc' \in {"sort", "begin", "conf"})
             PROVE  nsSet'[r] = {}
  BY DEF HomesInTurn
<1>0. run \in Nat /\ r \in Nat
  BY RunsAreNumbers DEF TypeInv, MainTypes
<1>1. r > run \/ (r = run /\ pc \in {"sort", "begin", "conf"})
  BY <1>0, MainMoves
<1>2. ~(r = run /\ UNCHANGED <<run, pc>> /\ pc = "op")
  BY <1>0, <1>1
<1> QED
  BY <1>1, <1>2, NsSetMoves DEF HomesInTurn

LEMMA KindInTurnStep ==
  ASSUME TypeInv, MainAt, KindInTurn, [Next]_vars
  PROVE  KindInTurn'
<1>0. kindIdx \in 1 .. 9 /\ 0 \in Nat
  BY DEF TypeInv, MainTypes
<1>1. CASE SetConfig
  <2>1. UNCHANGED <<order, run>> /\ op' = 1 /\ kindIdx' = KindAfter(0, 1)
    BY <1>1 DEF SetConfig
  <2>2. KindAfter(0, 1) <= 8 =>
          InOps(1) /\ KindOrder[KindAfter(0, 1)] \in Conf(run).ops[1].kinds
    BY <1>0, KindAfterGrows
  <2> QED
    BY <2>1, <2>2 DEF KindInTurn, InOps, Conf, Kind
<1>2. CASE StartRoutine
  <2>1. UNCHANGED <<order, run, op>> /\ kindIdx <= 8 /\ kindIdx' = KindAfter(kindIdx, op)
    BY <1>2, EightKinds DEF StartRoutine, Wanted
  <2>2. kindIdx \in Nat
    BY <1>0
  <2> QED
    BY <2>1, <2>2, KindAfterGrows DEF KindInTurn, InOps, Conf, Kind
<1>3. CASE Wait
  <2>1. UNCHANGED <<order, run>> /\ op' = op + 1 /\ kindIdx' = KindAfter(0, op + 1)
    BY <1>3 DEF Wait
  <2>2. KindAfter(0, op + 1) <= 8 =>
          InOps(op + 1) /\ KindOrder[KindAfter(0, op + 1)] \in Conf(run).ops[op + 1].kinds
    BY <1>0, KindAfterGrows
  <2> QED
    BY <2>1, <2>2 DEF KindInTurn, InOps, Conf, Kind
<1>4. ASSUME UNCHANGED <<order, run, op, kindIdx>>, pc' = "op" => pc = "op"
      PROVE  KindInTurn'
  BY <1>4 DEF KindInTurn, InOps, Conf, Kind
<1>5. CASE SortConfigs \/ BeginRun \/ EndOps \/ NextRun
  BY <1>5 DEF SortConfigs, BeginRun, EndOps, NextRun, Goto, KindInTurn, InOps, Conf, Kind
<1>6. ASSUME NEW e, Finalize(e) PROVE KindInTurn'
  <2>1. UNCHANGED <<order, run, op, kindIdx>> /\ (pc' = pc \/ pc' = "sleep")
    BY <1>6 DEF Finalize, ReadCleanup, BeginRange, VisitManager, DeleteObjects, DeleteHome, EndRange,
                Report, AfterFinalize, Goto, Crash, mainVars
  <2> QED
    BY <1>4, <2>1
<1>7. ASSUME InitManager \/ HandlerReady \/ Signal \/ (\E g \in Routines : Routine(g))
             \/ (\E m \in Homed : Collapse(m)) \/ UNCHANGED vars
      PROVE  KindInTurn'
  <2>1. UNCHANGED <<order, run, op, kindIdx, pc>>
    BY <1>7 DEF InitManager, HandlerReady, Signal, Routine, EnsureNamespace, CallCreate, Record, Collapse,
                Crash, vars, mainVars
  <2> QED
    BY <1>4, <2>1
<1> QED
  BY <1>1, <1>2, <1>3, <1>5, <1>6, <1>7 DEF Next, Main, Handler

LEMMA StagesStay ==
  ASSUME [Next]_vars, ~InitManager
  PROVE  stage' = stage
<1>1. ASSUME NEW e, Finalize(e) PROVE stage' = stage
  BY <1>1 DEF Finalize, ReadCleanup, BeginRange, VisitManager, DeleteObjects, DeleteHome, EndRange, Report,
              Crash, managerVars
<1> QED
  BY <1>1 DEF Next, Main, Handler, SortConfigs, BeginRun, SetConfig, StartRoutine, Wait, EndOps,
              NextRun, HandlerReady, Signal, Routine, EnsureNamespace, CallCreate, Record, Collapse,
              Crash, vars, managerVars

LEMMA KindsStay ==
  ASSUME [Next]_vars, ~SetConfig, ~StartRoutine, ~Wait
  PROVE  kindIdx' = kindIdx
<1>1. ASSUME NEW e, Finalize(e) PROVE kindIdx' = kindIdx
  BY <1>1 DEF Finalize, ReadCleanup, BeginRange, VisitManager, DeleteObjects, DeleteHome, EndRange, Report,
              Crash, mainVars
<1> QED
  BY <1>1 DEF Next, Main, Handler, SortConfigs, BeginRun, InitManager, EndOps,
              NextRun, HandlerReady, Signal, Routine, EnsureNamespace, CallCreate, Record, Collapse,
              Crash, vars, mainVars

\* What an operation has is among the goroutines.
LEMMA StartedIsRoutine ==
  ASSUME TypeInv, KindInTurn, pc = "op", kindIdx <= 8
  PROVE  <<run, op, Kind>> \in Routines
<1> DEFINE c == order[run]
           ops == Setting[c].ops
<1>1. c \in Configs
  <2>1. order \in Seq(Configs) /\ Len(order) = Cardinality(Configs) /\ run \in Runs
    BY OrdersAreSeqs DEF TypeInv, MainTypes
  <2> QED
    BY <2>1, OrdersAreSeqs DEF Runs
<1>2. /\ ops \in Seq([kinds : SUBSET Kinds, pods : Nat])
      /\ op \in Nat \ {0} /\ op <= Len(ops) /\ Kind \in ops[op].kinds /\ run \in Runs
  BY <1>1, SettingAssumption DEF KindInTurn, InOps, Conf, TypeInv, MainTypes
<1> HIDE DEF ops
<1>3. op \in DOMAIN ops /\ Len(ops) \in Nat
  BY <1>2
<1>4. Kind \in UsedKinds
  BY <1>1, <1>2, <1>3 DEF UsedKinds, ops
<1>5. op <= MaxOps
  <2> DEFINE f == [d \in Configs |-> Len(Setting[d].ops)]
             S == {f[d] : d \in Configs} \cup {0}
  <2>1. \A d \in Configs : Len(Setting[d].ops) \in Nat
    BY SettingAssumption
  <2>2. S \in SUBSET Int /\ S # {} /\ Len(ops) \in S
    BY <1>1, <2>1 DEF ops
  <2>3. MaxOps = Max(S)
    <3>1. S = {Len(Setting[d].ops) : d \in Configs} \cup {0}
      OBVIOUS
    <3> QED
      BY <3>1 DEF MaxOps
  <2> HIDE DEF f
  <2>4. IsFiniteSet(S)
    <3>1. DOMAIN f = Configs
      BY DEF f
    <3>2. IsFiniteSet({f[d] : d \in Configs})
      BY <3>1, SettingAssumption, ImageFinite
    <3> QED
      BY <3>2, FS_AddElement
  <2> HIDE DEF S
  <2>5. Len(ops) <= Max(S)
    BY <2>2, <2>4, MaxIsLargest
  <2> QED
    BY <1>2, <1>3, <2>3, <2>5, MaxOpsType
<1>6. op \in 1 .. MaxOps
  BY <1>2, <1>5, MaxOpsType
<1> QED
  BY <1>2, <1>4, <1>6 DEF Routines

LEMMA WorkedStep ==
  ASSUME TypeInv, MainAt, Begun, Calm, KindInTurn, Worked, [Next]_vars
  PROVE  Worked'
<1> SUFFICES ASSUME pc' \in {"op", "finalize"}, NEW m \in ManagerNames, stage'[run'][m] # "absent"
             PROVE  \/ \E h \in Routines : h[1] = run' /\ Mgr(h) = m /\ at'[h] # "unborn"
                    \/ pc' = "op" /\ kindIdx' <= 8 /\ m = ManagerOf(Kind')
  BY DEF Worked
<1>0. /\ run \in Nat /\ run \in Runs /\ kindIdx \in 1 .. 9
      /\ at \in [Routines -> {"unborn", "start", "call", "made", "done"}]
      /\ stage \in [Runs -> [ManagerNames -> {"absent", "added", "named", "dialed", "ready"}]]
  BY RunsAreNumbers DEF TypeInv, MainTypes, ManagerTypes, ClusterTypes
\* Main begins the operations of a run.
<1>1. CASE run' = run /\ pc \in {"sort", "begin", "conf"}
  <2>1. stage' = stage
    BY <1>1, StagesStay, InitAdvances
  <2>2. stage[run][m] = "absent"
    BY <1>0, <1>1 DEF Calm, ManagersInTurn
  <2> QED
    BY <1>1, <2>1, <2>2
<1>2. CASE run' = run /\ pc \in {"op", "finalize"}
  <2>h. ASSUME NEW h \in Routines, h[1] = run, Mgr(h) = m, at[h] # "unborn"
        PROVE  \E g \in Routines : g[1] = run' /\ Mgr(g) = m /\ at'[g] # "unborn"
    BY <1>2, <2>h, RoutinesGoOn
  <2>1. CASE InitManager
    <3>1. /\ pc = "op" /\ kindIdx <= 8 /\ ManagerOf(Kind) \in ManagerNames
          /\ \/ stage' = stage
             \/ \E next \in {"added", "named", "dialed", "ready"} :
                  stage' = [stage EXCEPT ![run][ManagerOf(Kind)] = next]
      BY <2>1, InitAdvances, EightKinds
    <3>2. UNCHANGED <<run, pc, kindIdx>> /\ Kind' = Kind
      BY <2>1 DEF InitManager, Crash, mainVars, Kind
    <3>3. CASE m = ManagerOf(Kind)
      BY <3>1, <3>2, <3>3
    <3>4. CASE m # ManagerOf(Kind)
      <4>1. stage[run][m] # "absent"
        BY <1>0, <3>1, <3>2, <3>4
      <4> QED
        BY <1>2, <2>h, <3>4, <4>1 DEF Worked
    <3> QED
      BY <3>3, <3>4
  <2>2. CASE ~InitManager
    <3>1. stage[run][m] # "absent"
      BY <1>2, <2>2, StagesStay
    <3>2. \/ \E h \in Routines : h[1] = run /\ Mgr(h) = m /\ at[h] # "unborn"
          \/ pc = "op" /\ kindIdx <= 8 /\ m = ManagerOf(Kind)
      BY <1>2, <3>1 DEF Worked
    <3> SUFFICES ASSUME pc = "op", kindIdx <= 8, m = ManagerOf(Kind)
                 PROVE  \/ \E h \in Routines : h[1] = run' /\ Mgr(h) = m /\ at'[h] # "unborn"
                        \/ pc' = "op" /\ kindIdx' <= 8 /\ m = ManagerOf(Kind')
      BY <2>h, <3>2
    <3>3. CASE StartRoutine
      <4> DEFINE h == <<run, op, Kind>>
      <4>1. h \in Routines
        BY StartedIsRoutine
      <4>2. at'[h] = "start"
        BY <1>0, <3>3, <4>1, StartedOnce
      <4>3. h[1] = run /\ Mgr(h) = m
        BY DEF Mgr
      <4> QED
        BY <1>2, <4>1, <4>2, <4>3
    <3>4. CASE ~StartRoutine
      <4>1. ~SetConfig /\ ~Wait
        BY <1>0, EightKinds DEF SetConfig, Wait
      <4>2. kindIdx' = kindIdx /\ Kind' = Kind
        BY <3>4, <4>1, KindsStay DEF Kind
      <4>3. pc' = "op"
        <5>1. ~EndOps
          BY DEF EndOps, KindInTurn
        <5> QED
          BY <5>1, MainMoves
      <4> QED
        BY <4>2, <4>3
    <3> QED
      BY <3>3, <3>4
  <2> QED
    BY <2>1, <2>2
<1> QED
  BY <1>0, <1>1, <1>2, MainMoves

\* Before the signal, only main's Finalize leaves a namespace terminating: that of a
\* manager that its run, which cleans up, has initialised.
LEMMA HomesTerminate ==
  ASSUME TypeInv, MainAt, Calm, handler # "taken", [Next]_vars,
         NEW m \in Homed, home[m] = "active", home'[m] = "terminating"
  PROVE  pc = "finalize" /\ UNCHANGED <<run, pc>> /\ Cleans(run) /\ stage[run][m] = "ready"
<1>0. home \in [Homed -> {"none", "active", "terminating"}]
  BY DEF TypeInv, ClusterTypes
<1>1. ASSUME NEW e \in {"main", "handler"}, Finalize(e)
      PROVE  e = "main" /\ DeleteHome(e) /\ ~Crash /\ m = fin[e].mgr
  <2>1. e = "main"
    BY <1>1, MainFinalizes
  <2>2. DeleteHome(e) /\ ~Crash
    BY <1>1 DEF Finalize, ReadCleanup, BeginRange, VisitManager, DeleteObjects, EndRange, Report, Crash,
                clusterVars
  <2>3. home' = [home EXCEPT ![fin[e].mgr] = "terminating"] \/ home' = home
    BY <2>2 DEF DeleteHome
  <2> QED
    BY <1>0, <2>1, <2>2, <2>3
<1>2. ASSUME InitManager \/ (\E g \in Routines : Routine(g)) \/ (\E n \in Homed : Collapse(n))
      PROVE  FALSE
  BY <1>0, <1>2 DEF InitManager, Routine, EnsureNamespace, CallCreate, Record, Collapse, Crash, clusterVars
<1>3. ASSUME SortConfigs \/ BeginRun \/ SetConfig \/ StartRoutine \/ Wait \/ EndOps \/ NextRun
             \/ HandlerReady \/ Signal \/ UNCHANGED vars
      PROVE  FALSE
  BY <1>3 DEF SortConfigs, BeginRun, SetConfig, StartRoutine, Wait, EndOps, NextRun, HandlerReady, Signal,
              vars, clusterVars
<1>4. DeleteHome("main") /\ ~Crash /\ m = fin["main"].mgr
  BY <1>1, <1>2, <1>3 DEF Next, Main, Handler
<1>5. fin["main"].at = "home" /\ UNCHANGED <<run, pc>>
  BY <1>4 DEF DeleteHome, mainVars
<1> QED
  BY <1>4, <1>5 DEF MainAt, Calm, FinalizesOnce

LEMMA TerminatedStep ==
  ASSUME TypeInv, MainAt, Begun, Calm, Worked, Terminated, handler # "taken", [Next]_vars
  PROVE  Terminated'
<1> SUFFICES ASSUME NEW m \in Homed, home'[m] = "terminating"
             PROVE  \/ \E h \in Routines : at'[h] = "done" /\ Mgr(h) = m /\ Cleans(h[1])' /\ h[1] < run'
                    \/ /\ pc' \in {"finalize", "sleep"}
                       /\ \E h \in Routines :
                            at'[h] = "done" /\ Mgr(h) = m /\ Cleans(h[1])' /\ h[1] < run' + 1
  BY DEF Terminated, Reason
<1>0. run \in Nat
  BY RunsAreNumbers DEF TypeInv, MainTypes
<1>1. CASE home[m] = "terminating"
  <2>1. CASE Reason(m, run)
    <3>1. Reason(m, run + 1)
      BY <2>1, ReasonGrows
    <3>2. /\ \E h \in Routines : at'[h] = "done" /\ Mgr(h) = m /\ Cleans(h[1])' /\ h[1] < run
          /\ \E h \in Routines : at'[h] = "done" /\ Mgr(h) = m /\ Cleans(h[1])' /\ h[1] < run + 1
      BY <2>1, <3>1, ReasonStays
    <3>3. run' = run \/ run' = run + 1
      BY MainMoves
    <3> QED
      BY <3>2, <3>3
  <2>2. CASE pc \in {"finalize", "sleep"} /\ Reason(m, run + 1)
    <3>1. \E h \in Routines : at'[h] = "done" /\ Mgr(h) = m /\ Cleans(h[1])' /\ h[1] < run + 1
      BY <2>2, ReasonStays
    <3>2. run' = run + 1 \/ (run' = run /\ pc' \in {"finalize", "sleep"})
      BY <2>2, MainMoves
    <3> QED
      BY <3>1, <3>2
  <2> QED
    BY <1>1, <2>1, <2>2 DEF Terminated
<1>2. CASE home[m] = "active"
  <2>1. pc = "finalize" /\ UNCHANGED <<run, pc>> /\ Cleans(run) /\ stage[run][m] = "ready"
    BY <1>2, HomesTerminate
  <2>2. PICK h \in Routines : h[1] = run /\ Mgr(h) = m /\ at[h] # "unborn"
    <3>1. m \in ManagerNames
      BY DEF Homed
    <3> QED
      BY <2>1, <3>1 DEF Worked
  <2>3. at[h] = "done"
    BY <2>1, <2>2 DEF Begun
  <2>4. Reason(m, run + 1)
    BY <1>0, <2>1, <2>2, <2>3 DEF Reason
  <2>5. \E g \in Routines : at'[g] = "done" /\ Mgr(g) = m /\ Cleans(g[1])' /\ g[1] < run + 1
    BY <2>4, ReasonStays
  <2> QED
    BY <2>1, <2>5
<1> QED
  BY <1>1, <1>2, HomesLive

\* What was ensured is still there while operations run, or was gone for a reason.
LEMMA StaysEnsured ==
  ASSUME TypeInv, MainAt, Begun, Calm, handler # "taken", [Next]_vars, pc = "op", NEW m \in Homed,
         home[m] = "active" \/ Reason(m, run)
  PROVE  \/ home'[m] = "active"
         \/ \E h \in Routines : at'[h] = "done" /\ Mgr(h) = m /\ Cleans(h[1])' /\ h[1] < run'
<1>1. run' = run
  BY MainMoves
<1>2. CASE home[m] = "active"
  BY <1>2, HomesLive, HomesTerminate
<1>3. CASE Reason(m, run)
  BY <1>1, <1>3, ReasonStays
<1> QED
  BY <1>2, <1>3

\* EnsureNamespace leaves the home namespace there, unless it is terminating.
LEMMA EnsuresHome ==
  ASSUME TypeInv, MainAt, Begun, Calm, Terminated, Ensured, handler # "taken", [Next]_vars,
         NEW g \in Routines, EnsureNamespace(g), Mgr(g) \in Homed
  PROVE  /\ pc = "op"
         /\ \/ home'[Mgr(g)] = "active"
            \/ \E h \in Routines : at'[h] = "done" /\ Mgr(h) = Mgr(g) /\ Cleans(h[1])' /\ h[1] < run'
<1> DEFINE m == Mgr(g)
<1>1. pc = "op" /\ mgrs = run
  BY DEF EnsureNamespace, Step, Begun, MainAt
<1>0. home \in [Homed -> {"none", "active", "terminating"}]
  BY DEF TypeInv, ClusterTypes
<1>2. CASE home[m] = "active" \/ Reason(m, run)
  BY <1>1, <1>2, StaysEnsured
<1>3. CASE home[m] = "none" /\ ~Reason(m, run)
  <2>1. m \notin nsSet[run]
    BY <1>1, <1>3 DEF Ensured
  <2>2. home' = [home EXCEPT ![m] = "active"]
    BY <1>1, <1>3, <2>1 DEF EnsureNamespace
  <2> QED
    BY <1>0, <1>1, <2>2
<1>4. home[m] = "terminating" => Reason(m, run)
  BY <1>1 DEF Terminated
<1> QED
  BY <1>0, <1>2, <1>3, <1>4

LEMMA EnsuredStep ==
  ASSUME TypeInv, MainAt, Begun, Calm, HomesInTurn, Terminated, Ensured, handler # "taken", [Next]_vars
  PROVE  Ensured'
<1> DEFINE Good(m) ==
      \/ home'[m] = "active"
      \/ \E h \in Routines : at'[h] = "done" /\ Mgr(h) = m /\ Cleans(h[1])' /\ h[1] < run'
<1>0. /\ run \in Runs /\ nsSet \in [Runs -> SUBSET ManagerNames]
      /\ at \in [Routines -> {"unborn", "start", "call", "made", "done"}]
      /\ home \in [Homed -> {"none", "active", "terminating"}]
  BY DEF TypeInv, MainTypes, ManagerTypes, ClusterTypes
<1>1. ASSUME pc' = "op", NEW m \in Homed \cap nsSet'[run'] PROVE Good(m)
  <2>1. pc = "op" /\ run' = run
    <3>1. CASE run' = run /\ pc \in {"sort", "begin", "conf"}
      <4>1. nsSet[run] = {}
        BY <1>0, <3>1 DEF HomesInTurn
      <4>2. nsSet'[run] \subseteq nsSet[run]
        BY <1>0, <3>1, NsSetMoves
      <4> QED
        BY <1>1, <3>1, <4>1, <4>2
    <3> QED
      BY <1>1, <3>1, MainMoves
  <2>2. CASE m \in nsSet[run]
    <3>1. home[m] = "active" \/ Reason(m, run)
      BY <2>1, <2>2 DEF Ensured
    <3> HIDE DEF Good
    <3> QED
      BY <2>1, <3>1, StaysEnsured DEF Good
  <2>3. CASE m \notin nsSet[run]
    <3>1. nsSet'[run] # nsSet[run]
      BY <1>1, <2>1, <2>3
    <3>2. CASE InitManager
      <4>1. mgrs = run
        BY <2>1 DEF MainAt
      <4> QED
        BY <1>0, <1>1, <2>1, <2>3, <3>2, <4>1 DEF InitManager, Crash, managerVars
    <3>3. ASSUME NEW g \in Routines, Routine(g) PROVE Good(m)
      <4>1. EnsureNamespace(g)
        BY <3>1, <3>3 DEF Routine, CallCreate, Record, Crash, managerVars
      <4>2. m = Mgr(g)
        <5>1. mgrs = run
          BY <2>1 DEF MainAt
        <5> QED
          BY <1>0, <1>1, <2>1, <2>3, <4>1, <5>1 DEF EnsureNamespace
      <4> QED
        BY <4>1, <4>2, EnsuresHome
    <3>4. ASSUME NEW e \in {"main", "handler"}, Finalize(e) PROVE FALSE
      BY <2>1, <3>4, MainFinalizes
    <3>5. ASSUME SortConfigs \/ BeginRun \/ SetConfig \/ StartRoutine \/ Wait \/ EndOps \/ NextRun
                 \/ HandlerReady \/ Signal \/ (\E n \in Homed : Collapse(n)) \/ UNCHANGED vars
          PROVE  FALSE
      BY <3>1, <3>5 DEF SortConfigs, BeginRun, SetConfig, StartRoutine, Wait, EndOps, NextRun,
                        HandlerReady, Signal, Collapse, vars, managerVars
    <3> HIDE DEF Good
    <3> QED
      BY <3>2, <3>3, <3>4, <3>5 DEF Next, Main, Handler
  <2> QED
    BY <2>2, <2>3
<1>2. ASSUME NEW g \in Routines, at'[g] = "call", Mgr(g) \in Homed PROVE Good(Mgr(g))
  <2>1. CASE at[g] = "call"
    <3>1. pc = "op" /\ (home[Mgr(g)] = "active" \/ Reason(Mgr(g), run))
      BY <1>2, <2>1 DEF Begun, Ensured
    <3> HIDE DEF Good
    <3> QED
      BY <1>2, <3>1, StaysEnsured DEF Good
  <2>2. CASE at[g] # "call"
    <3>1. ~StartRoutine
      BY <1>0, <1>2, <2>2, StartedOnce
    <3>2. PICK h \in Routines : Routine(h)
      BY <1>2, <2>2, <3>1, OtherSteps DEF routineVars
    <3>3. EnsureNamespace(g)
      BY <1>0, <1>2, <2>2, <3>2 DEF Routine, EnsureNamespace, CallCreate, Record, Step, Crash, routineVars
    <3> HIDE DEF Good
    <3> QED
      BY <1>2, <3>3, EnsuresHome DEF Good
  <2> QED
    BY <2>1, <2>2
<1> QED
  BY <1>1, <1>2 DEF Ensured, Reason

\* What RefusedByEarlierRuns asks for one goroutine.
Excused(g) ==
  \E h \in Routines :
    /\ h[1] < g[1] /\ at[h] = "done" /\ Mgr(h) = Mgr(g)
    /\ Conf(h[1]).cleanup \/ SameName(g, h)

LEMMA RefusedStep ==
  ASSUME TypeInv, MainAt, Begun, Made, Ensured, RefusedByEarlierRuns, handler # "taken", [Next]_vars
  PROVE  RefusedByEarlierRuns'
<1> SUFFICES ASSUME NEW g \in refused' PROVE Excused(g)'
  BY DEF RefusedByEarlierRuns, Excused
<1>0. at \in [Routines -> {"unborn", "start", "call", "made", "done"}]
  BY DEF TypeInv, ClusterTypes
<1>1. Excused(g) => Excused(g)'
  <2> SUFFICES ASSUME Excused(g) PROVE Excused(g)'
    OBVIOUS
  <2>1. PICK h \in Routines :
          /\ h[1] < g[1] /\ at[h] = "done" /\ Mgr(h) = Mgr(g)
          /\ Conf(h[1]).cleanup \/ SameName(g, h)
    BY DEF Excused
  <2>2. at'[h] = "done" /\ Cleans(h[1])' = Cleans(h[1])
    BY <2>1, RoutinesGoOn, SettingsStay
  <2> QED
    BY <2>1, <2>2 DEF Excused, Cleans
<1>2. CASE g \in refused
  BY <1>1, <1>2 DEF RefusedByEarlierRuns, Excused
<1>3. CASE g \notin refused
  <2>1. refused' # refused
    BY <1>3
  <2>2. PICK h \in Routines : Routine(h)
    BY <2>1, OtherSteps DEF StartRoutine, routineVars
  <2>3. h = g /\ CallCreate(g)
    BY <1>3, <2>2 DEF Routine, EnsureNamespace, CallCreate, Record, Crash, routineVars
  <2>4. /\ at[g] = "call" /\ g \in Routines /\ g[1] = run
        /\ \/ Mgr(g) \in Homed /\ home[Mgr(g)] # "active"
           \/ \E k \in objects : SameName(g, k)
    BY <1>0, <1>3, <2>2, <2>3 DEF CallCreate, Step, Begun
  <2>5. CASE Mgr(g) \in Homed /\ home[Mgr(g)] # "active"
    <3>1. Reason(Mgr(g), run)
      BY <2>4, <2>5 DEF Ensured
    <3>2. Excused(g)
      BY <2>4, <3>1 DEF Reason, Excused, Cleans
    <3> QED
      BY <1>1, <3>2
  <2>6. ASSUME NEW k \in objects, SameName(g, k) PROVE Excused(g)'
    <3>1. k \in Routines /\ at[k] \in {"made", "done"} /\ k[2] = g[2] /\ k[3] = g[3] /\ Mgr(k) = Mgr(g)
      BY <2>6 DEF Made, TypeInv, ClusterTypes, SameName, Mgr
    <3>2. k[1] # g[1]
      BY <2>4, <3>1, RoutineKinds
    <3>3. k[1] < g[1] /\ at[k] = "done"
      BY <2>4, <3>1, <3>2 DEF Begun
    <3>4. Excused(g)
      BY <2>6, <3>1, <3>3 DEF Excused
    <3> QED
      BY <1>1, <3>4
  <2> QED
    BY <2>4, <2>5, <2>6
<1> QED
  BY <1>2, <1>3

LEMMA BlameStep ==
  ASSUME TypeInv, MainAt, Begun, Made, IInv, BlameInv, [Next]_vars
  PROVE  BlameInv'
<1> SUFFICES ASSUME handler' # "taken" PROVE Blame'
  BY DEF BlameInv
<1>1. handler # "taken"
  BY NotTakenYet DEF SortConfigs, MainAt
<1>2. Blame /\ Calm
  BY <1>1 DEF BlameInv, IInv
<1> QED
  BY <1>1, <1>2, HomesInTurnStep, KindInTurnStep, WorkedStep, TerminatedStep, EnsuredStep, RefusedStep
     DEF Blame

LEMMA InitBlame == Init => BlameInv
BY DEF Init, BlameInv, Blame, HomesInTurn, KindInTurn, Worked, Terminated, Ensured, RefusedByEarlierRuns

\* All that a run can be refused by an earlier one is by its cleanup, that left the
\* namespace terminating, or by an object of the same name; for any configurations.
THEOREM RefusedForAReason == Spec => []RefusedByEarlierRuns
<1>1. BlameInv => RefusedByEarlierRuns
  BY DEF BlameInv, Blame, RefusedByEarlierRuns
<1>2. TypeInv /\ Cleanup /\ IInv /\ BlameInv /\ [Next]_vars => BlameInv'
  BY BlameStep DEF Cleanup
<1>3. Spec => []IInv
  BY InitInv, InvStep, PTL DEF Spec
<1>4. Spec => []BlameInv
  BY <1>2, <1>3, Cleaned, InitBlame, PTL DEF Spec
<1> QED
  BY <1>1, <1>4, PTL

=============================================================================
