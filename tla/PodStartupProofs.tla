-------------------------- MODULE PodStartupProofs --------------------------
(***************************************************************************)
(* Theorems about the pod manager's startup statistics and what            *)
(* CalculateStats makes of them, for every set of pods, every set of API   *)
(* versions, every order of the handlers and every bound.                  *)
(***************************************************************************)
EXTENDS PodStartup, Metrics, FiniteSetTheorems, TLAPS

Acked == {p \in Pods : create[p] = "acked"}

\* TypeOK without the bound on the count, which CountOK explains.
Types ==
  /\ srv \in [Pods -> Versions \cup {"new", "absent", "gone"}]
  /\ create \in [Pods -> {"idle", "sent", "acked", "failed", "foreign"}]
  /\ apiCreates \in Nat
  /\ inflight \in [Pods -> [Versions -> 0 .. MaxInflight]]
  /\ delivered \in [Pods -> SUBSET Versions]
  /\ now \in 1 .. MaxTime
  /\ cFirstTimes \in [Pods -> Time] /\ cSchedTimes \in [Pods -> Time]
  /\ cInitedTimes \in [Pods -> Time] /\ cReadyTimes \in [Pods -> Time]
  /\ createTimes \subseteq Pods /\ startTimes \subseteq Pods /\ runTimes \subseteq Pods
  /\ scheduleTimes \subseteq Pods
  /\ pulledTimes \in [Pods -> {"none", "zero", "real"}]
  /\ updating \in [Pods -> Nat] /\ deleting \in [Pods -> Nat]
  /\ \A p \in Pods : updating[p] + deleting[p] <= MaxDeletes

CountOK == apiCreates = Cardinality(Acked)

\* No "first seen" stamp lies in the future, so a stamp taken now is not earlier.
FirstPast == \A p \in Pods : cFirstTimes[p] # ZeroTime /\ cFirstTimes[p] <= now

IInv == Types /\ CountOK /\ FirstPast /\ FirstSeenEarliest

-----------------------------------------------------------------------------

LEMMA AckedFinite == IsFiniteSet(Acked)
BY PodsAssumption, FS_Subset DEF Acked

\* What a handler of p can do to the stamps, whatever the version says: nothing
\* happens to other pods, and p's stamps stay or are taken from the clock, but
\* for the initialized stamp, which may be copied or be Go's zero time.
LEMMA HandlerStamps ==
  ASSUME NEW p \in Pods, NEW v \in Versions, Types, checkAndUpdate(p, v)
  PROVE  /\ cFirstTimes' \in [Pods -> Time] /\ cSchedTimes' \in [Pods -> Time]
         /\ cReadyTimes' \in [Pods -> Time] /\ cInitedTimes' \in [Pods -> Time]
         /\ \A q \in Pods \ {p} :
              /\ cFirstTimes'[q] = cFirstTimes[q] /\ cSchedTimes'[q] = cSchedTimes[q]
              /\ cReadyTimes'[q] = cReadyTimes[q] /\ cInitedTimes'[q] = cInitedTimes[q]
         /\ cFirstTimes'[p] = IF cFirstTimes[p] = NoTime THEN now ELSE cFirstTimes[p]
         /\ cSchedTimes'[p] = cSchedTimes[p] \/ (cSchedTimes[p] = NoTime /\ cSchedTimes'[p] = now)
         /\ cReadyTimes'[p] = cReadyTimes[p] \/ (cReadyTimes[p] = NoTime /\ cReadyTimes'[p] = now)
         /\ cInitedTimes'[p] \in {cInitedTimes[p], now, ZeroTime, cSchedTimes[p], cSchedTimes'[p]}
<1>0. /\ now \in Time /\ ZeroTime \in Time
      /\ cFirstTimes \in [Pods -> Time] /\ cSchedTimes \in [Pods -> Time]
      /\ cReadyTimes \in [Pods -> Time] /\ cInitedTimes \in [Pods -> Time]
  BY BoundsAssumption DEF Types, Time, ZeroTime
<1>1. cFirstTimes' = FirstWrite(cFirstTimes, p, now)
  BY DEF checkAndUpdate
<1>2. cSchedTimes' = cSchedTimes \/ cSchedTimes' = FirstWrite(cSchedTimes, p, now)
  BY DEF checkAndUpdate, SchedAfter
<1>3. cReadyTimes' = cReadyTimes \/ cReadyTimes' = FirstWrite(cReadyTimes, p, now)
  BY DEF checkAndUpdate
<1>4. \/ cInitedTimes' = cInitedTimes
      \/ cInitedTimes' = FirstWrite(cInitedTimes, p, now)
      \/ cInitedTimes' = FirstWrite(cInitedTimes, p, cSchedTimes[p])
      \/ cInitedTimes' = [cInitedTimes EXCEPT ![p] = ZeroTime]
      \/ cInitedTimes' = [cInitedTimes EXCEPT ![p] = cSchedTimes'[p]]
  BY DEF checkAndUpdate, InitedAfter
<1>5. /\ cFirstTimes' \in [Pods -> Time]
      /\ \A q \in Pods \ {p} : cFirstTimes'[q] = cFirstTimes[q]
      /\ cFirstTimes'[p] = IF cFirstTimes[p] = NoTime THEN now ELSE cFirstTimes[p]
  BY <1>0, <1>1 DEF FirstWrite
<1>6. /\ cSchedTimes' \in [Pods -> Time]
      /\ \A q \in Pods \ {p} : cSchedTimes'[q] = cSchedTimes[q]
      /\ cSchedTimes'[p] = cSchedTimes[p] \/ (cSchedTimes[p] = NoTime /\ cSchedTimes'[p] = now)
  <2>1. CASE cSchedTimes' = cSchedTimes
    BY <1>0, <2>1
  <2>2. CASE cSchedTimes' = FirstWrite(cSchedTimes, p, now)
    BY <1>0, <2>2 DEF FirstWrite
  <2> QED
    BY <1>2, <2>1, <2>2
<1>7. /\ cReadyTimes' \in [Pods -> Time]
      /\ \A q \in Pods \ {p} : cReadyTimes'[q] = cReadyTimes[q]
      /\ cReadyTimes'[p] = cReadyTimes[p] \/ (cReadyTimes[p] = NoTime /\ cReadyTimes'[p] = now)
  <2>1. CASE cReadyTimes' = cReadyTimes
    BY <1>0, <2>1
  <2>2. CASE cReadyTimes' = FirstWrite(cReadyTimes, p, now)
    BY <1>0, <2>2 DEF FirstWrite
  <2> QED
    BY <1>3, <2>1, <2>2
<1>8. /\ cInitedTimes' \in [Pods -> Time]
      /\ \A q \in Pods \ {p} : cInitedTimes'[q] = cInitedTimes[q]
      /\ cInitedTimes'[p] \in {cInitedTimes[p], now, ZeroTime, cSchedTimes[p], cSchedTimes'[p]}
  <2>1. cSchedTimes[p] \in Time /\ cSchedTimes'[p] \in Time
    BY <1>0, <1>6
  <2>2. CASE cInitedTimes' = cInitedTimes
    BY <1>0, <2>2
  <2>3. CASE cInitedTimes' = FirstWrite(cInitedTimes, p, now)
    BY <1>0, <2>3 DEF FirstWrite
  <2>4. CASE cInitedTimes' = FirstWrite(cInitedTimes, p, cSchedTimes[p])
    BY <1>0, <2>1, <2>4 DEF FirstWrite
  <2>5. CASE cInitedTimes' = [cInitedTimes EXCEPT ![p] = ZeroTime]
    BY <1>0, <2>5
  <2>6. CASE cInitedTimes' = [cInitedTimes EXCEPT ![p] = cSchedTimes'[p]]
    BY <1>0, <2>1, <2>6
  <2> QED
    BY <1>4, <2>2, <2>3, <2>4, <2>5, <2>6
<1> QED
  BY <1>5, <1>6, <1>7, <1>8

\* A handler keeps the types.
LEMMA HandlerTypes ==
  ASSUME NEW p \in Pods, NEW v \in Versions, IInv, checkAndUpdate(p, v)
  PROVE  Types'
<1> USE BoundsAssumption DEF IInv, Types
<1>1. /\ inflight' \in [Pods -> [Versions -> 0 .. MaxInflight]]
      /\ createTimes' \subseteq Pods /\ startTimes' \subseteq Pods /\ runTimes' \subseteq Pods
      /\ UNCHANGED <<srv, create, apiCreates, delivered, now, scheduleTimes, pulledTimes, updating, deleting>>
  BY DEF checkAndUpdate, eventTimes, deleteVars
<1> QED
  BY <1>1, HandlerStamps

\* Whichever handler runs, "first seen" stays the earliest stamp.
LEMMA HandlerFirst ==
  ASSUME NEW p \in Pods, NEW v \in Versions, IInv, checkAndUpdate(p, v)
  PROVE  FirstPast' /\ FirstSeenEarliest'
<1>t. /\ now \in Nat /\ now >= 1 /\ cFirstTimes \in [Pods -> Time] /\ cSchedTimes \in [Pods -> Time]
      /\ cInitedTimes \in [Pods -> Time] /\ cReadyTimes \in [Pods -> Time]
      /\ FirstPast /\ FirstSeenEarliest /\ Types
  BY BoundsAssumption DEF IInv, Types
<1> USE <1>t DEF NoTime, ZeroTime, Time
<1>0. now' = now /\ now >= 1
  BY DEF checkAndUpdate
<1>1. /\ cFirstTimes'[p] # NoTime /\ cFirstTimes'[p] # ZeroTime /\ cFirstTimes'[p] <= now
      /\ cFirstTimes[p] # NoTime => cFirstTimes'[p] = cFirstTimes[p]
  BY HandlerStamps, <1>0 DEF FirstPast
<1>2. \A q \in Pods \ {p} :
        /\ cFirstTimes'[q] = cFirstTimes[q] /\ cSchedTimes'[q] = cSchedTimes[q]
        /\ cReadyTimes'[q] = cReadyTimes[q] /\ cInitedTimes'[q] = cInitedTimes[q]
        /\ q \in startTimes' <=> q \in startTimes
  BY HandlerStamps DEF checkAndUpdate
<1>3. /\ cSchedTimes'[p] \in {cSchedTimes[p], now}
      /\ cReadyTimes'[p] \in {cReadyTimes[p], now}
      /\ cInitedTimes'[p] \in {cInitedTimes[p], now, ZeroTime, cSchedTimes[p], cSchedTimes'[p]}
  BY HandlerStamps
<1>4. /\ cSchedTimes[p] # ZeroTime /\ NotBefore(cFirstTimes'[p], cSchedTimes[p])
      /\ cReadyTimes[p] # ZeroTime /\ NotBefore(cFirstTimes'[p], cReadyTimes[p])
      /\ NotBefore(cFirstTimes'[p], cInitedTimes[p])
      /\ NotBefore(cFirstTimes'[p], now) /\ NotBefore(cFirstTimes'[p], ZeroTime)
  BY <1>0, <1>1 DEF NotBefore, FirstSeenEarliest
<1>5. FirstPast'
  BY <1>0, <1>1, <1>2 DEF FirstPast
<1>6. /\ NotBefore(cFirstTimes'[p], cSchedTimes'[p]) /\ cSchedTimes'[p] # ZeroTime
      /\ NotBefore(cFirstTimes'[p], cReadyTimes'[p]) /\ cReadyTimes'[p] # ZeroTime
      /\ NotBefore(cFirstTimes'[p], cInitedTimes'[p])
  BY <1>0, <1>3, <1>4
<1>7. FirstSeenEarliest'
  BY <1>1, <1>2, <1>6 DEF FirstSeenEarliest, NotBefore
<1> QED
  BY <1>5, <1>7

\* An acknowledged create adds one pod to Acked and one latency to the list.
LEMMA ReplyCounts ==
  ASSUME NEW p \in Pods, IInv, CreateReply(p)
  PROVE  CountOK'
<1> USE DEF IInv, Types
<1>1. CASE create' = [create EXCEPT ![p] = "acked"] /\ apiCreates' = apiCreates + 1
  <2>1. Acked' = Acked \cup {p} /\ p \notin Acked
    BY <1>1 DEF Acked, CreateReply
  <2>2. Cardinality(Acked') = Cardinality(Acked) + 1
    BY <2>1, AckedFinite, FS_AddElement
  <2> QED
    BY <1>1, <2>2 DEF CountOK
<1>2. CASE create' = [create EXCEPT ![p] = "failed"] /\ UNCHANGED apiCreates
  <2>1. Acked' = Acked
    BY <1>2 DEF Acked, CreateReply
  <2> QED
    BY <1>2, <2>1 DEF CountOK
<1> QED
  BY <1>1, <1>2 DEF CreateReply

LEMMA InitIInv == Init => IInv
<1> SUFFICES ASSUME Init PROVE IInv
  OBVIOUS
<1> USE BoundsAssumption, PodsAssumption DEF Init, NoTime, ZeroTime, Time
<1>1. Types
  BY DEF Types
<1>2. CountOK
  <2>1. Acked = {}
    BY DEF Acked
  <2> QED
    BY <2>1, FS_EmptySet DEF CountOK
<1>3. FirstPast /\ FirstSeenEarliest
  BY DEF FirstPast, FirstSeenEarliest, NotBefore
<1> QED
  BY <1>1, <1>2, <1>3 DEF IInv

LEMMA NextIInv == IInv /\ [Next]_vars => IInv'
<1> SUFFICES ASSUME IInv, [Next]_vars PROVE IInv'
  OBVIOUS
<1> USE BoundsAssumption DEF IInv
<1>1. CASE Tick
  <2>1. Types'
    BY <1>1 DEF Tick, Types, clientTimes, serverTimes, eventTimes, deleteVars
  <2>2. CountOK'
    BY <1>1 DEF Tick, CountOK, Acked
  <2>3. FirstPast' /\ FirstSeenEarliest'
    BY <1>1 DEF Tick, Types, Time, NoTime, FirstPast, FirstSeenEarliest, NotBefore, clientTimes, serverTimes
  <2> QED
    BY <2>1, <2>2, <2>3
<1>2. ASSUME NEW p \in Pods, ClusterStep(p) PROVE IInv'
  <2>1. Types'
    BY <1>2 DEF ClusterStep, Types, clientTimes, serverTimes, eventTimes, deleteVars
  <2> QED
    BY <1>2, <2>1 DEF ClusterStep, CountOK, Acked, FirstPast, FirstSeenEarliest, NotBefore, clientTimes, serverTimes
<1>3. ASSUME NEW p \in Pods, CreateSend(p) PROVE IInv'
  <2>1. Types'
    BY <1>3 DEF CreateSend, Types, clientTimes, serverTimes, eventTimes, deleteVars
  <2>2. Acked' = Acked
    BY <1>3 DEF CreateSend, Acked, Types
  <2> QED
    BY <1>3, <2>1, <2>2 DEF CreateSend, CountOK, FirstPast, FirstSeenEarliest, NotBefore, clientTimes, serverTimes
<1>4. ASSUME NEW p \in Pods, CreateReply(p) PROVE IInv'
  <2>1. Types'
    BY <1>4 DEF CreateReply, Types, clientTimes, serverTimes, eventTimes, deleteVars
  <2> QED
    BY <1>4, <2>1, ReplyCounts DEF CreateReply, FirstPast, FirstSeenEarliest, NotBefore, clientTimes, serverTimes
<1>5. ASSUME NEW p \in Pods, Notify(p) PROVE IInv'
  <2>1. Types'
    BY <1>5 DEF Notify, Types, clientTimes, serverTimes, eventTimes, deleteVars
  <2> QED
    BY <1>5, <2>1 DEF Notify, CountOK, Acked, FirstPast, FirstSeenEarliest, NotBefore, clientTimes, serverTimes
<1>6. ASSUME NEW p \in Pods, DeleteBegin(p) PROVE IInv'
  <2>1. Types'
    <3>1. /\ updating' \in [Pods -> Nat] /\ deleting' \in [Pods -> Nat]
          /\ \A q \in Pods : updating'[q] + deleting'[q] <= MaxDeletes
      <4>0. /\ updating \in [Pods -> Nat] /\ deleting \in [Pods -> Nat]
            /\ \A q \in Pods : updating[q] + deleting[q] <= MaxDeletes
            /\ updating[p] + deleting[p] < MaxDeletes
        BY <1>6 DEF DeleteBegin, Types
      <4>1. CASE deleting' = [deleting EXCEPT ![p] = @ + 1] /\ updating' = updating
        BY <4>0, <4>1
      <4>2. CASE updating' = [updating EXCEPT ![p] = @ + 1] /\ deleting' = deleting
        BY <4>0, <4>2
      <4> QED
        BY <1>6, <4>1, <4>2 DEF DeleteBegin
    <3> QED
      BY <1>6, <3>1 DEF DeleteBegin, Types, clientTimes, serverTimes, eventTimes
  <2> QED
    BY <1>6, <2>1 DEF DeleteBegin, CountOK, Acked, FirstPast, FirstSeenEarliest, NotBefore, clientTimes, serverTimes
<1>7. ASSUME NEW p \in Pods, UpdateBeforeDeletion(p) PROVE IInv'
  <2>1. Types'
    <3>1. scheduleTimes' \subseteq Pods /\ pulledTimes' \in [Pods -> {"none", "zero", "real"}]
      BY <1>7 DEF UpdateBeforeDeletion, UpdateTimes, Types, eventTimes
    <3>2. /\ updating' \in [Pods -> Nat] /\ deleting' \in [Pods -> Nat]
          /\ \A q \in Pods : updating'[q] + deleting'[q] <= MaxDeletes
      BY <1>7 DEF UpdateBeforeDeletion, Types
    <3> QED
      BY <1>7, <3>1, <3>2 DEF UpdateBeforeDeletion, Types, clientTimes, serverTimes
  <2> QED
    BY <1>7, <2>1 DEF UpdateBeforeDeletion, CountOK, Acked, FirstPast, FirstSeenEarliest, NotBefore, clientTimes, serverTimes
<1>10. ASSUME NEW p \in Pods, DeleteCall(p) PROVE IInv'
  <2>1. Types'
    BY <1>10 DEF DeleteCall, Types, clientTimes, serverTimes, eventTimes
  <2> QED
    BY <1>10, <2>1 DEF DeleteCall, CountOK, Acked, FirstPast, FirstSeenEarliest, NotBefore, clientTimes, serverTimes
<1>8. ASSUME NEW p \in Pods, NEW v \in Versions, checkAndUpdate(p, v) PROVE IInv'
  BY <1>8, HandlerTypes, HandlerFirst DEF checkAndUpdate, CountOK, Acked
<1>9. CASE UNCHANGED vars
  BY <1>9 DEF vars, deleteVars, Types, CountOK, Acked, FirstPast, FirstSeenEarliest, NotBefore, clientTimes, serverTimes, eventTimes
<1> QED
  BY <1>1, <1>2, <1>3, <1>4, <1>5, <1>6, <1>7, <1>8, <1>9, <1>10 DEF Next

THEOREM Invariance == Spec => []IInv
BY InitIInv, NextIInv, PTL DEF Spec

-----------------------------------------------------------------------------

\* Every map keeps its type, and at most one latency is appended per pod.
THEOREM TypeCorrect == Spec => []TypeOK
<1>1. IInv => TypeOK
  <2> SUFFICES ASSUME IInv PROVE TypeOK
    OBVIOUS
  <2>1. Cardinality(Acked) <= Cardinality(Pods) /\ Cardinality(Pods) \in Nat
    BY PodsAssumption, FS_Subset, FS_CardinalityType DEF Acked
  <2>2. updating \in [Pods -> 0 .. MaxDeletes] /\ deleting \in [Pods -> 0 .. MaxDeletes]
    BY BoundsAssumption DEF IInv, Types
  <2>3. apiCreates \in 0 .. Cardinality(Pods)
    BY <2>1 DEF IInv, Types, CountOK
  <2> QED
    BY <2>2, <2>3 DEF IInv, Types, TypeOK
<1> QED
  BY <1>1, Invariance, PTL

\* Whatever the order of the handlers, no client-side stamp of a pod is earlier
\* than its "first seen" stamp.
THEOREM FirstSeenFirst == Spec => []FirstSeenEarliest
<1>1. IInv => FirstSeenEarliest
  BY DEF IInv
<1> QED
  BY <1>1, Invariance, PTL

-----------------------------------------------------------------------------
(* The stamps implement the abstract specification *)

\* A handler looks at its pod once: abstractly, it observes it.
LEMMA HandlerObserves ==
  ASSUME NEW p \in Pods, NEW v \in Versions, checkAndUpdate(p, v)
  PROVE  Abstract!Observe(p)
<1>1. Abstract!Stamped(cFirstTimes, cFirstTimes', p) \/ (cFirstTimes[p] # NoTime /\ cFirstTimes' = cFirstTimes)
  BY DEF checkAndUpdate, FirstWrite, Abstract!Stamped
<1>2. Abstract!Stamped(cSchedTimes, cSchedTimes', p) \/ cSchedTimes' = cSchedTimes
  BY DEF checkAndUpdate, SchedAfter, FirstWrite, Abstract!Stamped
<1>3. Abstract!Stamped(cReadyTimes, cReadyTimes', p) \/ cReadyTimes' = cReadyTimes
  BY DEF checkAndUpdate, FirstWrite, Abstract!Stamped
<1> QED
  BY <1>1, <1>2, <1>3 DEF checkAndUpdate, Abstract!Observe

\* Every step is an abstract step or leaves the stamps and the clock alone.
LEMMA StepsMap == IInv /\ [Next]_vars => [Abstract!Next]_(Abstract!vars)
<1> SUFFICES ASSUME IInv, [Next]_vars PROVE [Abstract!Next]_(Abstract!vars)
  OBVIOUS
<1>1. CASE Tick
  BY <1>1 DEF Tick, clientTimes, IInv, Types, Abstract!Next, Abstract!Advance
<1>2. ASSUME NEW p \in Pods, NEW v \in Versions, checkAndUpdate(p, v)
      PROVE  Abstract!Next
  BY <1>2, HandlerObserves DEF Abstract!Next
<1>3. ASSUME NEW p \in Pods,
             \/ ClusterStep(p) \/ CreateSend(p) \/ CreateReply(p) \/ Notify(p)
             \/ DeleteBegin(p) \/ UpdateBeforeDeletion(p) \/ DeleteCall(p)
      PROVE  UNCHANGED Abstract!vars
  BY <1>3 DEF ClusterStep, CreateSend, CreateReply, Notify, DeleteBegin,
              UpdateBeforeDeletion, DeleteCall, clientTimes, Abstract!vars
<1>4. CASE UNCHANGED vars
  BY <1>4 DEF vars, clientTimes, Abstract!vars
<1> QED
  BY <1>1, <1>2, <1>3, <1>4 DEF Next

\* The stamps of PodStartup implement Milestones: each is taken once, from the
\* clock, and "first seen" no later than the others, in every interleaving.
THEOREM StampsImplementMilestones == Spec => MilestonesSpec
<1>1. Init => Abstract!Init
  BY DEF Init, Abstract!Init
<1> QED
  BY <1>1, StepsMap, Invariance, PTL DEF Spec, MilestonesSpec, Abstract!Spec

-----------------------------------------------------------------------------
(* The maps agree, and a stable manager has all its pods ready *)

\* StatsAgree is inductive together with the types.
LEMMA StatsAgreeInductive == IInv /\ StatsAgree /\ [Next]_vars => StatsAgree'
<1> SUFFICES ASSUME IInv, StatsAgree, [Next]_vars PROVE StatsAgree'
  OBVIOUS
<1>0. CountOK'
  BY NextIInv DEF IInv
<1> DEFINE Maps == /\ createTimes = Ready
                   /\ runTimes \subseteq createTimes /\ runTimes \subseteq startTimes
                   /\ scheduleTimes \subseteq createTimes
                   /\ scheduleTimes = {p \in Pods : pulledTimes[p] # "none"}
<1>1. Maps
  BY DEF StatsAgree
<1>2. ASSUME NEW p \in Pods, NEW v \in Versions, checkAndUpdate(p, v) PROVE Maps'
  <2>1. /\ scheduleTimes' = scheduleTimes /\ pulledTimes' = pulledTimes
        /\ startTimes' = IF HasStartTime(v) THEN startTimes \cup {p} ELSE startTimes
    BY <1>2 DEF checkAndUpdate, eventTimes
  <2>2. CASE FirstRunning(p, v)
    <3>1. Ready' = Ready \cup {p} /\ createTimes' = createTimes \cup {p}
      BY <1>2, <2>2, BoundsAssumption
         DEF checkAndUpdate, FirstRunning, FirstWrite, Ready, IInv, Types, Time, NoTime
    <3>2. runTimes' \subseteq createTimes' /\ runTimes' \subseteq startTimes'
      BY <1>1, <1>2, <2>1, <2>2, <3>1 DEF checkAndUpdate, ContainerRunning, HasStartTime
    <3> QED
      BY <1>1, <2>1, <3>1, <3>2
  <2>3. CASE ~FirstRunning(p, v)
    <3>1. cReadyTimes' = cReadyTimes /\ createTimes' = createTimes /\ runTimes' = runTimes
      BY <1>2, <2>3 DEF checkAndUpdate
    <3> QED
      BY <1>1, <2>1, <3>1 DEF Ready
  <2> QED
    BY <2>2, <2>3
<1>3. ASSUME NEW p \in Pods, UpdateBeforeDeletion(p) PROVE Maps'
  <2>1. cReadyTimes' = cReadyTimes /\ createTimes' = createTimes /\ runTimes' = runTimes
        /\ startTimes' = startTimes
    BY <1>3 DEF UpdateBeforeDeletion, clientTimes, serverTimes
  <2>2. CASE UNCHANGED eventTimes
    BY <1>1, <2>1, <2>2 DEF eventTimes, Ready
  <2>3. ASSUME NEW sche \in SUBSET Pods, NEW pulled \in SUBSET Pods,
               UpdateTimes(sche, pulled)
        PROVE  Maps'
    <3>1. /\ scheduleTimes' \subseteq createTimes
          /\ scheduleTimes' = {k \in Pods : pulledTimes'[k] # "none"}
      BY <1>1, <2>3 DEF UpdateTimes, IInv, Types
    <3> QED
      BY <1>1, <2>1, <3>1 DEF Ready
  <2> QED
    BY <1>3, <2>2, <2>3 DEF UpdateBeforeDeletion
<1>4. ASSUME UNCHANGED <<clientTimes, serverTimes, eventTimes>> PROVE Maps'
  <2>1. /\ cReadyTimes' = cReadyTimes /\ createTimes' = createTimes
        /\ startTimes' = startTimes /\ runTimes' = runTimes
        /\ scheduleTimes' = scheduleTimes /\ pulledTimes' = pulledTimes
    BY <1>4 DEF clientTimes, serverTimes, eventTimes
  <2>2. Ready' = Ready
    BY <2>1 DEF Ready
  <2> QED
    BY <1>1, <2>1, <2>2
<1>5. ASSUME NEW p \in Pods,
             \/ ClusterStep(p) \/ CreateSend(p) \/ CreateReply(p) \/ Notify(p)
             \/ DeleteBegin(p) \/ DeleteCall(p)
      PROVE  Maps'
  BY <1>4, <1>5 DEF ClusterStep, CreateSend, CreateReply, Notify, DeleteBegin, DeleteCall
<1>6. ASSUME Tick \/ UNCHANGED vars PROVE Maps'
  BY <1>4, <1>6 DEF Tick, vars
<1>7. Maps'
  <2> HIDE DEF Maps
  <2> QED
    BY <1>2, <1>3, <1>5, <1>6 DEF Next
<1> QED
  BY <1>0, <1>7 DEF StatsAgree, CountOK, Acked

\* Creation times, ready stamps and event times are recorded for the same pods,
\* and the latencies counted are those of the acknowledged creates.
THEOREM StatsAlwaysAgree == Spec => []StatsAgree
<1>1. Init => StatsAgree
  <2> SUFFICES ASSUME Init PROVE StatsAgree
    OBVIOUS
  <2>1. Ready = {} /\ scheduleTimes = {p \in Pods : pulledTimes[p] # "none"}
    BY DEF Init, Ready
  <2>2. CountOK
    BY InitIInv DEF IInv
  <2> QED
    BY <2>1, <2>2 DEF Init, StatsAgree, CountOK, Acked
<1> QED
  BY <1>1, StatsAgreeInductive, Invariance, PTL DEF Spec

\* Nothing of a pod is seen before its create request was sent.
OwnPods ==
  \A p \in Pods :
    (\/ srv[p] # "absent" \/ updating[p] + deleting[p] # 0 \/ p \in Ready
     \/ \E v \in Versions : inflight[p][v] # 0)
      => create[p] \in {"sent", "acked"}

LEMMA OwnPodsInductive ==
  ASSUME LostReplies = FALSE
  PROVE  IInv /\ OwnPods /\ [Next]_vars => OwnPods'
<1> SUFFICES ASSUME IInv, OwnPods, [Next]_vars PROVE OwnPods'
  OBVIOUS
<1> USE DEF IInv, Types, OwnPods, Ready
<1>1. CASE Tick \/ UNCHANGED vars
  BY <1>1 DEF Tick, vars, clientTimes, deleteVars
<1>2. ASSUME NEW p \in Pods, ClusterStep(p) PROVE OwnPods'
  <2>1. srv[p] # "absent"
    BY <1>2 DEF ClusterStep, Follows
  <2> QED
    BY <1>2, <2>1 DEF ClusterStep, clientTimes, deleteVars
<1>3. ASSUME NEW p \in Pods, CreateSend(p) PROVE OwnPods'
  BY <1>3 DEF CreateSend, clientTimes, deleteVars
<1>4. ASSUME NEW p \in Pods, CreateReply(p) PROVE OwnPods'
  BY <1>4 DEF CreateReply, clientTimes, deleteVars
<1>5. ASSUME NEW p \in Pods, Notify(p) PROVE OwnPods'
  <2>1. srv[p] # "absent"
    BY <1>5, VersionsAssumption DEF Notify, AllVersions
  <2> QED
    BY <1>5, <2>1 DEF Notify, clientTimes, deleteVars
<1>6. ASSUME NEW p \in Pods, DeleteBegin(p) PROVE OwnPods'
  <2>1. \A q \in Pods \ {p} : updating'[q] = updating[q] /\ deleting'[q] = deleting[q]
    BY <1>6 DEF DeleteBegin
  <2> QED
    BY <1>6, <2>1 DEF DeleteBegin, clientTimes
<1>7. ASSUME NEW p \in Pods, UpdateBeforeDeletion(p) \/ DeleteCall(p) PROVE OwnPods'
  <2>1. create[p] \in {"sent", "acked"}
    BY <1>7 DEF UpdateBeforeDeletion, DeleteCall
  <2>2. \A q \in Pods \ {p} : /\ srv'[q] = srv[q]
                             /\ updating'[q] = updating[q] /\ deleting'[q] = deleting[q]
    BY <1>7 DEF UpdateBeforeDeletion, DeleteCall
  <2> QED
    BY <1>7, <2>1, <2>2 DEF UpdateBeforeDeletion, DeleteCall, clientTimes
<1>8. ASSUME NEW p \in Pods, NEW v \in Versions, checkAndUpdate(p, v) PROVE OwnPods'
  <2>1. create[p] \in {"sent", "acked"} /\ create' = create /\ srv' = srv /\ updating' = updating /\ deleting' = deleting
    BY <1>8 DEF checkAndUpdate, deleteVars
  <2>2. \A q \in Pods \ {p} : inflight'[q] = inflight[q] /\ cReadyTimes'[q] = cReadyTimes[q]
    BY <1>8, HandlerStamps DEF checkAndUpdate
  <2>3. \A q \in Pods \ {p} : q \in Ready' => q \in Ready
    BY <2>2
  <2> HIDE DEF Ready, Types, IInv
  <2>4. ASSUME NEW q \in Pods \ {p},
               \/ srv[q] # "absent" \/ updating[q] + deleting[q] # 0 \/ q \in Ready
               \/ \E w \in Versions : inflight[q][w] # 0
        PROVE  create[q] \in {"sent", "acked"}
    BY <2>4
  <2> QED
    BY <2>1, <2>2, <2>3, <2>4
<1> QED
  BY <1>1, <1>2, <1>3, <1>4, <1>5, <1>6, <1>7, <1>8 DEF Next

\* With no pods left by earlier runs and no create that fails after it worked,
\* a stable manager has seen every acknowledged pod become ready: as many pods
\* are ready as were acknowledged, and the ready ones are among those.
THEOREM StableIsReady ==
  ASSUME Leftovers = {}, LostReplies = FALSE
  PROVE  Spec => []StableMeansReady
<1>1. Init => OwnPods
  BY DEF Init, OwnPods, Ready
<1>2. IInv /\ OwnPods => StableMeansReady
  <2> SUFFICES ASSUME IInv, OwnPods, CreatesReturned, IsStable PROVE Acked \subseteq Ready
    BY DEF StableMeansReady, Acked
  <2>1. Ready \subseteq Acked
    BY DEF OwnPods, CreatesReturned, Ready, Acked
  <2>2. Cardinality(Ready) = Cardinality(Acked)
    BY DEF IInv, CountOK, IsStable
  <2> QED
    BY <2>1, <2>2, AckedFinite, FS_Subset
<1> QED
  BY <1>1, <1>2, OwnPodsInductive, Invariance, PTL DEF Spec

-----------------------------------------------------------------------------
(* The statistics: the positions CalculateStats reads are in every non-empty
   list, in the order the names of the statistics promise, and the lists hold
   what they are to hold. *)

IsAscending(s) == \A i, j \in 1 .. Len(s) : i <= j => s[i] <= s[j]

\* The four positions CalculateStats indexes a list with.
LEMMA Positions ==
  ASSUME NEW n \in Nat \ {0}
  PROVE  /\ n \div 2 + 1 \in 1 .. n /\ n - n \div 100 \in 1 .. n
         /\ n \div 2 + 1 <= n - n \div 100
         /\ (n + 1) \div 2 \in 1 .. n \div 2 + 1
<1>1. /\ n \div 2 \in Nat /\ n \div 100 \in Nat /\ (n + 1) \div 2 \in Nat
      /\ 2 * (n \div 2) <= n /\ n < 2 * (n \div 2) + 2
      /\ 100 * (n \div 100) <= n /\ n < 100 * (n \div 100) + 100
      /\ 2 * ((n + 1) \div 2) <= n + 1 /\ n + 1 < 2 * ((n + 1) \div 2) + 2
  OBVIOUS
<1> DEFINE h == n \div 2  c == n \div 100  k == (n + 1) \div 2
<1>2. h \in Nat /\ c \in Nat /\ k \in Nat /\ 2 * h <= n /\ n < 2 * h + 2 /\ 100 * c <= n
      /\ 2 * k <= n + 1 /\ n + 1 < 2 * k + 2
  BY <1>1
<1> HIDE DEF h, c, k
<1>3. h + 1 \in 1 .. n /\ n - c \in 1 .. n /\ h + 1 <= n - c /\ k \in 1 .. h + 1
  BY <1>2
<1> QED
  BY <1>3 DEF h, c, k

\* For every non-empty list of samples in ascending order, the median and the 99th
\* percentile are samples, and minimum, median, 99th percentile and maximum do not
\* decrease.
THEOREM StatisticsInOrder ==
  ASSUME NEW s \in Seq(Int), s # << >>, IsAscending(s)
  PROVE  /\ \E i \in DOMAIN s : MidOf(s) = s[i]
         /\ \E i \in DOMAIN s : P99Of(s) = s[i]
         /\ MinOf(s) <= MidOf(s) /\ MidOf(s) <= P99Of(s) /\ P99Of(s) <= MaxOf(s)
<1> DEFINE n == Len(s)  mid == n \div 2 + 1  p99 == n - n \div 100
<1>1. n \in Nat \ {0} /\ DOMAIN s = 1 .. n
  OBVIOUS
<1>2. mid \in 1 .. n /\ p99 \in 1 .. n /\ mid <= p99
  BY <1>1, Positions
<1>3. MidOf(s) = s[mid] /\ P99Of(s) = s[p99] /\ MinOf(s) = s[1] /\ MaxOf(s) = s[n]
  BY DEF MidOf, P99Of, MinOf, MaxOf
<1> HIDE DEF n, mid, p99
<1>4. 1 \in 1 .. n /\ n \in 1 .. n /\ 1 <= mid /\ p99 <= n
  BY <1>1, <1>2
<1>5. \A i, j \in 1 .. n : i <= j => s[i] <= s[j]
  BY DEF IsAscending, n
<1> QED
  BY <1>1, <1>2, <1>3, <1>4, <1>5

\* The pods that an operation contributes to the throughput had all become ready
\* within the median latency it contributes: the throughput is not overstated.
THEOREM ThroughputNotOverstated ==
  ASSUME NEW s \in Seq(Int), s # << >>, IsAscending(s)
  PROVE  AccPods(s) \in 1 .. Len(s) /\ \A i \in 1 .. AccPods(s) : s[i] <= AccStartTime(s)
<1> DEFINE n == Len(s)  mid == n \div 2 + 1  k == (n + 1) \div 2
<1>1. n \in Nat \ {0} /\ DOMAIN s = 1 .. n
  OBVIOUS
<1>2. mid \in 1 .. n /\ k \in 1 .. mid
  BY <1>1, Positions
<1>3. AccPods(s) = k /\ AccStartTime(s) = s[mid]
  BY DEF AccPods, AccStartTime, MidOf
<1>4. \A i, j \in 1 .. n : i <= j => s[i] <= s[j]
  BY DEF IsAscending
<1> HIDE DEF n, mid, k
<1>5. \A i \in 1 .. k : i \in 1 .. n /\ i <= mid
  BY <1>1, <1>2
<1>6. k \in 1 .. n
  BY <1>1, <1>2
<1> QED
  BY <1>2, <1>3, <1>4, <1>5, <1>6 DEF n

-----------------------------------------------------------------------------
(* No notification is lost to the order of the handlers *)

\* The conditions the loop looks at, of a pending version.
LEMMA SeenOf ==
  ASSUME NEW v \in AllVersions, Pending(v)
  PROVE  /\ "PodScheduled" \in Seen(v) <=> v \in {"unschedulable", "scheduled"}
         /\ "Initialized" \in Seen(v) <=> v \in {"initing", "accepted"}
<1> DEFINE c == Conditions(v)
<1>s. Seen(v) = {c[i].type : i \in {i \in DOMAIN c : \A j \in 1 .. i - 1 : c[j].type # "Initialized"}}
  BY DEF Seen
<1>1. CASE v = "new"
  <2>1. c = << >>
    BY <1>1 DEF Conditions
  <2> HIDE DEF c
  <2> QED
    BY <1>s, <1>1, <2>1
<1>2. CASE v \in {"unschedulable", "scheduled"}
  <2>1. /\ DOMAIN c = {1} /\ c[1].type = "PodScheduled"
    BY <1>2 DEF Conditions, Cond
  <2> HIDE DEF c
  <2> QED
    BY <1>s, <1>2, <2>1
<1>3. CASE v \in {"initing", "accepted"}
  <2>1. DOMAIN c = {1, 2} /\ c[1].type = "Initialized" /\ c[2].type = "PodScheduled"
    BY <1>3 DEF Conditions, Cond
  <2> HIDE DEF c
  <2>2. {i \in DOMAIN c : \A j \in 1 .. i - 1 : c[j].type # "Initialized"} = {1}
    BY <2>1
  <2> QED
    BY <1>s, <1>3, <2>1, <2>2
<1> QED
  BY <1>1, <1>2, <1>3 DEF Pending

\* The stamps of a pod that a version calls for.
Stamped(p, v) ==
  /\ cFirstTimes[p] # NoTime
  /\ Running(v) => cReadyTimes[p] # NoTime
  /\ v = "scheduled" => cSchedTimes[p] # NoTime
  /\ v = "accepted" => cInitedTimes[p] # NoTime

\* Handlers and stamps come from versions that were notified, and a version none of
\* whose handlers is in flight has left its stamps.
Handled ==
  \A p \in Pods :
    /\ \A v \in Versions : inflight[p][v] # 0 => v \in delivered[p]
    /\ cFirstTimes[p] # NoTime => delivered[p] # {}
    /\ cReadyTimes[p] # NoTime => delivered[p] \cap {"running", "restarting"} # {}
    /\ \A v \in delivered[p] : inflight[p][v] = 0 => Stamped(p, v)

\* A handler leaves the stamps of its version, and takes none back.
LEMMA HandlerLeaves ==
  ASSUME NEW p \in Pods, NEW v \in Versions, Types, checkAndUpdate(p, v)
  PROVE  /\ Stamped(p, v)'
         /\ \A w : Stamped(p, w) => Stamped(p, w)'
         /\ cReadyTimes'[p] # cReadyTimes[p] => v \in {"running", "restarting"}
<1> DEFINE sched == cSchedTimes'
<1>0. /\ now \in Nat /\ now # NoTime /\ ZeroTime # NoTime
      /\ cFirstTimes \in [Pods -> Time] /\ cSchedTimes \in [Pods -> Time]
      /\ cReadyTimes \in [Pods -> Time] /\ cInitedTimes \in [Pods -> Time]
      /\ v \in AllVersions
  BY VersionsAssumption, BoundsAssumption DEF Types, NoTime, ZeroTime
<1>1. cFirstTimes'[p] # NoTime /\ (cFirstTimes[p] # NoTime => cFirstTimes'[p] # NoTime)
  BY <1>0, HandlerStamps
<1>2. /\ cReadyTimes[p] # NoTime => cReadyTimes'[p] # NoTime
      /\ Running(v) => cReadyTimes'[p] # NoTime
      /\ cReadyTimes'[p] # cReadyTimes[p] => Running(v)
  BY <1>0 DEF checkAndUpdate, FirstRunning, FirstWrite
<1>3. /\ cSchedTimes[p] # NoTime => cSchedTimes'[p] # NoTime
      /\ v \in {"unschedulable", "scheduled"} => cSchedTimes'[p] # NoTime
  <2>1. Pending(v) /\ "PodScheduled" \in Seen(v) <=> v \in {"unschedulable", "scheduled"}
    BY <1>0, SeenOf DEF Pending
  <2>2. cSchedTimes' = IF v \in {"unschedulable", "scheduled"}
                       THEN FirstWrite(cSchedTimes, p, now) ELSE cSchedTimes
    BY <2>1 DEF checkAndUpdate, SchedAfter
  <2> QED
    BY <1>0, <2>2 DEF FirstWrite
<1>4. /\ cInitedTimes[p] # NoTime => cInitedTimes'[p] # NoTime
      /\ v \in {"initing", "accepted"} => cInitedTimes'[p] # NoTime
  <2>1. Pending(v) /\ "Initialized" \in Seen(v) <=> v \in {"initing", "accepted"}
    BY <1>0, SeenOf DEF Pending
  <2>2. v \in {"initing", "accepted"} => ~FirstRunning(p, v)
    BY DEF FirstRunning, Running
  <2>3. cInitedTimes' =
          IF FirstRunning(p, v) /\ ContainerRunning(v) /\ cSchedTimes[p] # NoTime
          THEN FirstWrite(cInitedTimes, p, cSchedTimes[p])
          ELSE IF v \in {"initing", "accepted"} /\ cReadyTimes[p] # NoTime
          THEN [cInitedTimes EXCEPT ![p] = IF sched[p] = NoTime THEN ZeroTime ELSE sched[p]]
          ELSE IF v \in {"initing", "accepted"}
          THEN FirstWrite(cInitedTimes, p, now)
          ELSE cInitedTimes
    BY <2>1 DEF checkAndUpdate, InitedAfter
  <2> HIDE DEF sched
  <2> QED
    BY <1>0, <2>2, <2>3 DEF FirstWrite
<1> QED
  BY <1>1, <1>2, <1>3, <1>4 DEF Stamped, Running

LEMMA HandledStep == IInv /\ Handled /\ [Next]_vars => Handled'
<1> SUFFICES ASSUME IInv, Handled, [Next]_vars PROVE Handled'
  OBVIOUS
<1> USE DEF IInv
<1>0. /\ inflight \in [Pods -> [Versions -> 0 .. MaxInflight]]
      /\ delivered \in [Pods -> SUBSET Versions] /\ MaxInflight \in Nat
  BY BoundsAssumption DEF Types
<1>1. ASSUME UNCHANGED <<inflight, delivered, clientTimes>> PROVE Handled'
  BY <1>1 DEF Handled, Stamped, clientTimes
<1>2. ASSUME NEW p \in Pods, Notify(p) PROVE Handled'
  <2> DEFINE v == srv[p]
  <2>1. /\ v \in Versions /\ UNCHANGED clientTimes
        /\ inflight' = [inflight EXCEPT ![p][v] = @ + 1]
        /\ delivered' = [delivered EXCEPT ![p] = @ \cup {v}]
    BY <1>2 DEF Notify
  <2>2. \A q \in Pods : \A w : Stamped(q, w)' <=> Stamped(q, w)
    BY <2>1 DEF Stamped, clientTimes
  <2>3. /\ \A q \in Pods \ {p} : inflight'[q] = inflight[q] /\ delivered'[q] = delivered[q]
        /\ \A w \in Versions \ {v} : inflight'[p][w] = inflight[p][w]
        /\ inflight'[p][v] # 0 /\ delivered'[p] = delivered[p] \cup {v}
    BY <1>0, <2>1
  <2>4. UNCHANGED <<cFirstTimes, cSchedTimes, cReadyTimes>>
    BY <2>1 DEF clientTimes
  <2> HIDE DEF v
  <2>5. ASSUME NEW q \in Pods
        PROVE  /\ \A w \in Versions : inflight'[q][w] # 0 => w \in delivered'[q]
               /\ delivered[q] \subseteq delivered'[q]
               /\ \A w \in delivered'[q] : inflight'[q][w] = 0 => Stamped(q, w)
    BY <1>0, <2>1, <2>3 DEF Handled
  <2> QED
    BY <2>2, <2>4, <2>5 DEF Handled
<1>3. ASSUME NEW p \in Pods, NEW v \in Versions, checkAndUpdate(p, v) PROVE Handled'
  <2>1. /\ inflight[p][v] > 0 /\ inflight' = [inflight EXCEPT ![p][v] = @ - 1] /\ delivered' = delivered
    BY <1>3 DEF checkAndUpdate
  <2>2. v \in delivered[p]
    BY <1>0, <2>1 DEF Handled
  <2>3. ASSUME NEW q \in Pods \ {p}
        PROVE  /\ cFirstTimes'[q] = cFirstTimes[q] /\ cSchedTimes'[q] = cSchedTimes[q]
               /\ cReadyTimes'[q] = cReadyTimes[q] /\ cInitedTimes'[q] = cInitedTimes[q]
               /\ inflight'[q] = inflight[q]
    BY <1>0, <1>3, <2>1, HandlerStamps
  <2>4. /\ \A w \in Versions \ {v} : inflight'[p][w] = inflight[p][w]
        /\ inflight'[p][v] # 0 => inflight[p][v] # 0
    BY <1>0, <2>1
  <2>5. ASSUME NEW w \in delivered[p], inflight'[p][w] = 0 PROVE Stamped(p, w)'
    <3>1. w = v \/ Stamped(p, w)
      BY <1>0, <2>4, <2>5 DEF Handled
    <3> QED
      BY <1>3, <3>1, HandlerLeaves
  <2>6. cReadyTimes'[p] # NoTime => delivered[p] \cap {"running", "restarting"} # {}
    BY <1>3, <2>2, HandlerLeaves DEF Handled
  <2>7. ASSUME NEW q \in Pods \ {p}
        PROVE  /\ \A w \in Versions : inflight'[q][w] # 0 => w \in delivered'[q]
               /\ cFirstTimes'[q] # NoTime => delivered'[q] # {}
               /\ cReadyTimes'[q] # NoTime => delivered'[q] \cap {"running", "restarting"} # {}
               /\ \A w \in delivered'[q] : inflight'[q][w] = 0 => Stamped(q, w)'
    BY <2>1, <2>3 DEF Handled, Stamped
  <2>8. \A w \in Versions : inflight'[p][w] # 0 => w \in delivered'[p]
    BY <2>1, <2>2, <2>4 DEF Handled
  <2> QED
    BY <2>1, <2>2, <2>5, <2>6, <2>7, <2>8 DEF Handled
<1>4. ASSUME NEW p \in Pods,
             \/ ClusterStep(p) \/ CreateSend(p) \/ CreateReply(p)
             \/ DeleteBegin(p) \/ UpdateBeforeDeletion(p) \/ DeleteCall(p)
      PROVE  Handled'
  BY <1>1, <1>4 DEF ClusterStep, CreateSend, CreateReply, DeleteBegin,
                   UpdateBeforeDeletion, DeleteCall
<1>5. ASSUME Tick \/ UNCHANGED vars PROVE Handled'
  BY <1>1, <1>5 DEF Tick, vars
<1> QED
  BY <1>2, <1>3, <1>4, <1>5 DEF Next

\* Once all the handlers of a pod have run, in whatever order, it has the stamps of what
\* it was shown to be, and none if it was never seen or never seen running.
THEOREM NoMilestoneLost == Spec => []MilestonesComplete
<1>1. Init => Handled
  BY DEF Init, Handled, NoTime
<1>2. IInv /\ Handled => MilestonesComplete
  <2> SUFFICES ASSUME IInv, Handled, NEW p \in Pods, \A v \in Versions : inflight[p][v] = 0
               PROVE  /\ cFirstTimes[p] # NoTime <=> delivered[p] # {}
                      /\ cReadyTimes[p] # NoTime <=> delivered[p] \cap {"running", "restarting"} # {}
                      /\ "scheduled" \in delivered[p] => cSchedTimes[p] # NoTime
                      /\ "accepted" \in delivered[p] => cInitedTimes[p] # NoTime
    BY DEF MilestonesComplete
  <2>1. \A v \in delivered[p] : Stamped(p, v)
    BY DEF Handled, IInv, Types
  <2> QED
    BY <2>1 DEF Handled, Stamped, Running
<1> QED
  BY <1>1, <1>2, HandledStep, Invariance, PTL DEF Spec

=============================================================================
