----------------------------- MODULE PodStartup -----------------------------
(***************************************************************************)
(* The pod manager's startup statistics (manager/pod_manager.go).          *)
(*                                                                         *)
(* Goroutines of an operation create pods; the cluster moves every pod     *)
(* through a sequence of API versions; the informer hands each version it  *)
(* sees to a goroutine of its own (initCache: "go mgr.checkAndUpdate(p)"), *)
(* so versions are processed in any order.  checkAndUpdate runs under      *)
(* statsMutex and is one action here.  The maps of the manager are         *)
(*   - functions from pod names to times for the client-side stamps, with  *)
(*     NoTime for "no entry" and ZeroTime for Go's time.Time{};            *)
(*   - sets of pod names for the server-side stamps, whose values no       *)
(*     property tells apart (pulledTimes keeps "zero" apart from "real").  *)
(* The cluster (srv, the versions and their conditions, the events) is     *)
(* external and modelled from what the code reads of it.                   *)
(***************************************************************************)
EXTENDS Integers, FiniteSets

CONSTANTS
  Pods,         \* names of pods the informer's label selector matches
  Leftovers,    \* the pods an earlier run left in the cluster
  Versions,     \* the API versions the cluster puts pods through
  LostReplies,  \* may a create succeed in the cluster and yet report an error?
  MaxTime,      \* bound on the client's clock
  MaxInflight,  \* bound on handlers of one pod and version that are in flight
  MaxDeletes    \* bound on deletes of one pod that are in progress

\* The versions of a pod object that checkAndUpdate tells apart.
AllVersions == {"new", "unschedulable", "scheduled", "initing", "accepted",
                "running", "restarting", "finished"}

ASSUME PodsAssumption == IsFiniteSet(Pods) /\ Leftovers \subseteq Pods
ASSUME VersionsAssumption == Versions \subseteq AllVersions
ASSUME BoundsAssumption ==
  /\ LostReplies \in BOOLEAN
  /\ MaxTime \in Nat \ {0}
  /\ MaxInflight \in Nat \ {0}
  /\ MaxDeletes \in Nat

NoTime   == -1
ZeroTime == 0
Time     == Nat \cup {NoTime}

VARIABLES
  srv,           \* the version of each pod in the cluster
  create,        \* how far the Create call of each pod is
  apiCreates,    \* len(apiTimes[CREATE_ACTION])
  inflight,      \* checkAndUpdate goroutines that have not taken the lock yet
  delivered,     \* history: the versions the informer has handed out
  now,           \* the client's clock
  cFirstTimes, cSchedTimes, cInitedTimes, cReadyTimes,
  createTimes, startTimes, runTimes,
  scheduleTimes, pulledTimes,
  updating,      \* deletes of each pod that missed its schedule time, not yet locked
  deleting       \* deletes of each pod that are about to call the API

clientTimes == <<cFirstTimes, cSchedTimes, cInitedTimes, cReadyTimes>>
serverTimes == <<createTimes, startTimes, runTimes>>
eventTimes  == <<scheduleTimes, pulledTimes>>
deleteVars  == <<updating, deleting>>
vars == <<srv, create, apiCreates, inflight, delivered, now, clientTimes,
          serverTimes, eventTimes, deleteVars>>

-----------------------------------------------------------------------------
(* What the cluster shows of a pod *)

Running(v) == v \in {"running", "restarting"}
Pending(v) == v \in {"new", "unschedulable", "scheduled", "initing", "accepted"}

\* The kubelet sets Status.StartTime when it accepts the pod.
HasStartTime(v) == v \in {"initing", "accepted", "running", "restarting", "finished"}

\* Whether some container status of the version is Running.
ContainerRunning(v) == v = "running"

Cond(t, s) == [type |-> t, status |-> s]

\* Status.Conditions, in the order of the list: the scheduler writes
\* PodScheduled, the kubelet later puts Initialized in front of it.
Conditions(v) ==
  CASE v = "unschedulable" -> <<Cond("PodScheduled", FALSE)>>
    [] v = "scheduled" -> <<Cond("PodScheduled", TRUE)>>
    [] v = "initing" -> <<Cond("Initialized", FALSE), Cond("PodScheduled", TRUE)>>
    [] v \in {"accepted", "running", "restarting"} ->
         <<Cond("Initialized", TRUE), Cond("PodScheduled", TRUE)>>
    [] OTHER -> << >>

\* The version a pod in version v can have next.
Follows(v, w) ==
  \/ v = "new" /\ w \in {"unschedulable", "scheduled"}
  \/ v = "unschedulable" /\ w = "scheduled"
  \/ v = "scheduled" /\ w \in {"initing", "accepted", "running"}
  \/ v = "initing" /\ w = "accepted"
  \/ v = "accepted" /\ w = "running"
  \/ v = "running" /\ w \in {"restarting", "finished"}
  \/ v = "restarting" /\ w \in {"running", "finished"}

\* The cluster changes the pod.
ClusterStep(p) ==
  /\ \E w \in Versions : Follows(srv[p], w) /\ srv' = [srv EXCEPT ![p] = w]
  /\ UNCHANGED <<create, apiCreates, inflight, delivered, now, clientTimes,
                 serverTimes, eventTimes, deleteVars>>

\* The client's clock moves.
Tick ==
  /\ now < MaxTime
  /\ now' = now + 1
  /\ UNCHANGED <<srv, create, apiCreates, inflight, delivered, clientTimes,
                 serverTimes, eventTimes, deleteVars>>

-----------------------------------------------------------------------------
(* Create: the API call and what follows its answer *)

\* The create request reaches the API server, which makes the pod or refuses.
CreateSend(p) ==
  /\ create[p] = "idle"
  /\ \/ create' = [create EXCEPT ![p] = "sent"] /\ srv' = [srv EXCEPT ![p] = "new"]
     \/ create' = [create EXCEPT ![p] = "failed"] /\ UNCHANGED srv
  /\ UNCHANGED <<apiCreates, inflight, delivered, now, clientTimes,
                 serverTimes, eventTimes, deleteVars>>

\* Mutant: the call is retried after its latency was appended.
CreateReplyRetried(p) ==
  /\ create[p] = "sent"
  /\ apiCreates' = apiCreates + 1
  /\ UNCHANGED <<srv, create, inflight, delivered, now, clientTimes, serverTimes,
                 eventTimes, deleteVars>>

\* The answer arrives: an error returns before the latency is appended, so the
\* pod is not counted even if the cluster has it.
CreateReply(p) ==
  /\ create[p] = "sent"
  /\ \/ /\ create' = [create EXCEPT ![p] = "acked"]
        /\ apiCreates' = apiCreates + 1
     \/ /\ LostReplies
        /\ create' = [create EXCEPT ![p] = "failed"]
        /\ UNCHANGED apiCreates
  /\ UNCHANGED <<srv, inflight, delivered, now, clientTimes, serverTimes,
                 eventTimes, deleteVars>>

-----------------------------------------------------------------------------
(* The informer and its handlers *)

\* AddFunc or UpdateFunc starts a goroutine with the version it was given.
\* Versions between two notifications are coalesced; one version may be
\* notified several times.
Notify(p) ==
  LET v == srv[p] IN
  /\ v \in Versions
  /\ inflight[p][v] < MaxInflight
  /\ inflight' = [inflight EXCEPT ![p][v] = @ + 1]
  /\ delivered' = [delivered EXCEPT ![p] = @ \cup {v}]
  /\ UNCHANGED <<srv, create, apiCreates, now, clientTimes, serverTimes,
                 eventTimes, deleteVars>>

\* The condition types the loop over Status.Conditions looks at: it breaks
\* after Initialized, and reads no condition's Status.
Seen(v) ==
  LET c == Conditions(v) IN
  {c[i].type : i \in {i \in DOMAIN c : \A j \in 1 .. i - 1 : c[j].type # "Initialized"}}

\* Mutant: the test for an existing entry is dropped.
OverWrite(m, p, t) == [m EXCEPT ![p] = t]

\* A map that gets entry t for p unless it has one.
FirstWrite(m, p, t) == IF m[p] = NoTime THEN [m EXCEPT ![p] = t] ELSE m

\* Mutant: readiness is recorded only with a running container.
FirstContainerRunning(p, v) == Running(v) /\ ContainerRunning(v) /\ cReadyTimes[p] = NoTime

\* The handler sees p in phase Running for the first time.
FirstRunning(p, v) == Running(v) /\ cReadyTimes[p] = NoTime

\* Mutant: notifications about a ready pod are taken for stale and ignored.
SchedUnlessReady(p, v) ==
  IF Pending(v) /\ "PodScheduled" \in Seen(v) /\ cReadyTimes[p] = NoTime
  THEN FirstWrite(cSchedTimes, p, now) ELSE cSchedTimes

\* cSchedTimes after a handler.
SchedAfter(p, v) ==
  IF Pending(v) /\ "PodScheduled" \in Seen(v)
  THEN FirstWrite(cSchedTimes, p, now) ELSE cSchedTimes

\* cInitedTimes after a handler, given cSchedTimes after it: the first running
\* version stands in cSchedTimes for a missing entry; a pending version that
\* is Initialized copies cSchedTimes (Go's zero time if there is none) once the
\* pod is ready, and is a first write before.
InitedAfter(p, v, sched) ==
  IF FirstRunning(p, v) /\ ContainerRunning(v) /\ cSchedTimes[p] # NoTime
  THEN FirstWrite(cInitedTimes, p, cSchedTimes[p])
  ELSE IF Pending(v) /\ "Initialized" \in Seen(v) /\ cReadyTimes[p] # NoTime
  THEN [cInitedTimes EXCEPT ![p] = IF sched[p] = NoTime THEN ZeroTime ELSE sched[p]]
  ELSE IF Pending(v) /\ "Initialized" \in Seen(v)
  THEN FirstWrite(cInitedTimes, p, now)
  ELSE cInitedTimes

\* One handler, from taking statsMutex to releasing it.
checkAndUpdate(p, v) ==
  /\ inflight[p][v] > 0
  /\ inflight' = [inflight EXCEPT ![p][v] = @ - 1]
  /\ startTimes' = IF HasStartTime(v) THEN startTimes \cup {p} ELSE startTimes
  /\ cFirstTimes' = FirstWrite(cFirstTimes, p, now)
  /\ createTimes' = IF FirstRunning(p, v) THEN createTimes \cup {p} ELSE createTimes
  /\ cReadyTimes' = IF FirstRunning(p, v) THEN FirstWrite(cReadyTimes, p, now) ELSE cReadyTimes
  /\ runTimes' = IF FirstRunning(p, v) /\ ContainerRunning(v) THEN runTimes \cup {p} ELSE runTimes
  /\ cSchedTimes' = SchedAfter(p, v)
  /\ cInitedTimes' = InitedAfter(p, v, cSchedTimes')
  /\ UNCHANGED <<srv, create, apiCreates, delivered, now, eventTimes, deleteVars>>

-----------------------------------------------------------------------------
(* Delete *)

\* Mutant: the loop visits the names in scheEvents.
UpdateAllScheduled(sche, pulled) ==
  /\ scheduleTimes' = scheduleTimes \cup sche
  /\ pulledTimes' = [k \in Pods |-> IF k \in sche
                                    THEN IF k \in pulled THEN "real" ELSE "zero"
                                    ELSE pulledTimes[k]]

\* The events API lists scheduler events of sche and "Pulled" events of pulled
\* (both may be missing: events are best effort and expire); the loop visits
\* the names in createTimes, and asks scheEvents about both maps.
UpdateTimes(sche, pulled) ==
  /\ scheduleTimes' = scheduleTimes \cup (createTimes \cap sche)
  /\ pulledTimes' = [k \in Pods |-> IF k \in createTimes \cap sche
                                    THEN IF k \in pulled THEN "real" ELSE "zero"
                                    ELSE pulledTimes[k]]

\* A goroutine in Delete comes to a pod it has listed, which other goroutines may
\* delete too and which may be gone by now. It looks, without statsMutex, for the
\* pod's schedule time, and goes on to update it or to the API call.
DeleteBegin(p) ==
  /\ srv[p] # "absent"
  /\ updating[p] + deleting[p] < MaxDeletes
  /\ \/ /\ p \in scheduleTimes
        /\ deleting' = [deleting EXCEPT ![p] = @ + 1]
        /\ UNCHANGED updating
     \/ /\ p \notin scheduleTimes
        /\ updating' = [updating EXCEPT ![p] = @ + 1]
        /\ UNCHANGED deleting
  /\ UNCHANGED <<srv, create, apiCreates, inflight, delivered, now, clientTimes,
                 serverTimes, eventTimes>>

\* Under statsMutex the schedule time is looked for again: another delete, of this pod
\* or of any other, may have brought it in meanwhile. A failed list changes nothing.
UpdateBeforeDeletion(p) ==
  /\ updating[p] > 0
  /\ updating' = [updating EXCEPT ![p] = @ - 1]
  /\ deleting' = [deleting EXCEPT ![p] = @ + 1]
  /\ \/ p \in scheduleTimes /\ UNCHANGED eventTimes
     \/ /\ p \notin scheduleTimes
        /\ \E sche, pulled \in SUBSET Pods : UpdateTimes(sche, pulled)
  /\ UNCHANGED <<srv, create, apiCreates, inflight, delivered, now, clientTimes,
                 serverTimes>>

\* Delete's API call; its error is ignored and the statistics are kept.
DeleteCall(p) ==
  /\ deleting[p] > 0
  /\ deleting' = [deleting EXCEPT ![p] = @ - 1]
  /\ \/ srv' = [srv EXCEPT ![p] = "gone"]
     \/ UNCHANGED srv
  /\ UNCHANGED <<create, apiCreates, inflight, delivered, now, clientTimes,
                 serverTimes, eventTimes, updating>>

-----------------------------------------------------------------------------

\* NewPodManager makes every map empty. A pod an earlier run left may be in any
\* version; the manager's own pods do not exist yet.
Init ==
  /\ srv \in [Pods -> Versions \cup {"absent"}]
  /\ \A p \in Pods : srv[p] = "absent" <=> p \notin Leftovers
  /\ create = [p \in Pods |-> IF p \in Leftovers THEN "foreign" ELSE "idle"]
  /\ apiCreates = 0
  /\ inflight = [p \in Pods |-> [v \in Versions |-> 0]]
  /\ delivered = [p \in Pods |-> {}]
  /\ now = 1
  /\ cFirstTimes = [p \in Pods |-> NoTime]
  /\ cSchedTimes = [p \in Pods |-> NoTime]
  /\ cInitedTimes = [p \in Pods |-> NoTime]
  /\ cReadyTimes = [p \in Pods |-> NoTime]
  /\ createTimes = {} /\ startTimes = {} /\ runTimes = {}
  /\ scheduleTimes = {}
  /\ pulledTimes = [p \in Pods |-> "none"]
  /\ updating = [p \in Pods |-> 0] /\ deleting = [p \in Pods |-> 0]

Next ==
  \/ Tick
  \/ \E p \in Pods :
       \/ ClusterStep(p) \/ CreateSend(p) \/ CreateReply(p) \/ Notify(p)
       \/ DeleteBegin(p) \/ UpdateBeforeDeletion(p) \/ DeleteCall(p)
       \/ \E v \in Versions : checkAndUpdate(p, v)

Spec == Init /\ [][Next]_vars

\* A started goroutine eventually gets the lock and runs: Go's scheduler and
\* sync.Mutex starve nobody forever.
Fairness == \A p \in Pods, v \in Versions : WF_vars(checkAndUpdate(p, v))

FairSpec == Spec /\ Fairness

-----------------------------------------------------------------------------
(* The manager's questions about its maps *)

Ready == {p \in Pods : cReadyTimes[p] # NoTime}

\* Mutant: stable is "every pod seen is ready", as in the deployment manager.
IsStableSeen ==
  Cardinality(Ready) # 0 /\ Cardinality(Ready) = Cardinality({p \in Pods : cFirstTimes[p] # NoTime})

IsStable == Cardinality(Ready) = apiCreates

\* Every Create call of the operation has returned (wg.Wait in Run).
CreatesReturned == \A p \in Pods : create[p] # "sent"

-----------------------------------------------------------------------------
(* Properties *)

\* Every map holds what its Go type holds; at most one latency is appended per
\* Create call.
TypeOK ==
  /\ srv \in [Pods -> Versions \cup {"new", "absent", "gone"}]
  /\ create \in [Pods -> {"idle", "sent", "acked", "failed", "foreign"}]
  /\ apiCreates \in 0 .. Cardinality(Pods)
  /\ inflight \in [Pods -> [Versions -> 0 .. MaxInflight]]
  /\ delivered \in [Pods -> SUBSET Versions]
  /\ now \in 1 .. MaxTime
  /\ cFirstTimes \in [Pods -> Time] /\ cSchedTimes \in [Pods -> Time]
  /\ cInitedTimes \in [Pods -> Time] /\ cReadyTimes \in [Pods -> Time]
  /\ createTimes \subseteq Pods /\ startTimes \subseteq Pods /\ runTimes \subseteq Pods
  /\ scheduleTimes \subseteq Pods
  /\ pulledTimes \in [Pods -> {"none", "zero", "real"}]
  /\ updating \in [Pods -> 0 .. MaxDeletes] /\ deleting \in [Pods -> 0 .. MaxDeletes]

\* t is a stamp taken when the pod had been seen, or no stamp of its own.
NotBefore(first, t) == t \in {NoTime, ZeroTime} \/ (first # NoTime /\ first <= t)

\* The first-to-scheduled and first-to-ready latencies that CalculateStats
\* subtracts are never negative: whichever handler runs first, the "first seen"
\* stamp exists as soon as any other does and is not later.
FirstSeenEarliest ==
  \A p \in Pods :
    /\ NotBefore(cFirstTimes[p], cSchedTimes[p]) /\ cSchedTimes[p] # ZeroTime
    /\ NotBefore(cFirstTimes[p], cReadyTimes[p]) /\ cReadyTimes[p] # ZeroTime
    /\ NotBefore(cFirstTimes[p], cInitedTimes[p])
    /\ p \in startTimes => cFirstTimes[p] # NoTime

\* The maps agree with each other: creation time and ready stamp are recorded
\* together, event times only for pods that became ready, schedule and pulled
\* times together, and a latency is counted exactly for acknowledged creates.
StatsAgree ==
  /\ createTimes = Ready
  /\ runTimes \subseteq createTimes /\ runTimes \subseteq startTimes
  /\ scheduleTimes \subseteq createTimes
  /\ scheduleTimes = {p \in Pods : pulledTimes[p] # "none"}
  /\ apiCreates = Cardinality({p \in Pods : create[p] = "acked"})

\* No notification is lost to the order of the handlers: once all the handlers
\* of a pod have run, it has the stamps of what it was shown to be (scheduled,
\* initialized, running), and none if it was never seen or never seen running.
MilestonesComplete ==
  \A p \in Pods : (\A v \in Versions : inflight[p][v] = 0) =>
    /\ cFirstTimes[p] # NoTime <=> delivered[p] # {}
    /\ cReadyTimes[p] # NoTime <=> delivered[p] \cap {"running", "restarting"} # {}
    /\ "scheduled" \in delivered[p] => cSchedTimes[p] # NoTime
    /\ "accepted" \in delivered[p] => cInitedTimes[p] # NoTime

\* IsStable, asked when the operation's Create calls have returned, is true only
\* when every pod whose creation was acknowledged has become ready ("returns
\* whether all the created pods become ready").
StableMeansReady ==
  CreatesReturned /\ IsStable => {p \in Pods : create[p] = "acked"} \subseteq Ready

\* A pod that the informer has shown in phase Running gets its ready stamp, with
\* or without a running container (what blocking on pod creation waits for).
RunningIsRecorded ==
  \A p \in Pods :
    (delivered[p] \cap {"running", "restarting"} # {}) ~> (cReadyTimes[p] # NoTime)

\* The client-side stamps implement the abstract specification.
Abstract == INSTANCE Milestones WITH
  clock <- now, first <- cFirstTimes, sched <- cSchedTimes, ready <- cReadyTimes

MilestonesSpec == Abstract!Spec

\* A delayed Initialized notification is documented to "use cSchedTime as an
\* approximation": the value stored is the time of some stamp.
InitedIsATime == \A p \in Pods : cInitedTimes[p] # ZeroTime

=============================================================================
