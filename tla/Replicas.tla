------------------------------ MODULE Replicas ------------------------------
(***************************************************************************)
(* Deployments, stateful sets and replication controllers under the        *)
(* actions of several goroutines, the pods the cluster makes for them, and *)
(* what the managers' informers make of these pods: Create, Get, List,     *)
(* Update, Scale, Delete and IsStable of deployment_manager.go,            *)
(* statefulset_manager.go and replicationcontroller_manager.go.            *)
(*                                                                         *)
(* A goroutine has one controller at most, named after it.  An API call is *)
(* a step of its own.  What the API server checks of a write is that it is *)
(* made from the current version of the object: fresh[a] are the           *)
(* controllers of which goroutine a holds the current version.             *)
(*                                                                         *)
(* A manager of every kind exists; a pod manager's goroutine only creates  *)
(* its pod (PodStartup and Lifecycle have the rest).                       *)
(***************************************************************************)
EXTENDS Selectors, FiniteSets, FiniteSetsExt

CONSTANTS
  Works,       \* what the goroutines are configured to do: one of these
  MaxPods,     \* bound on the pods there ever are
  MaxFailures  \* bound on the API calls that fail and the pods that are evicted

PodKinds == {"Pod", "Deployment", "StatefulSet", "ReplicationController"}

\* The action of an operation and what it selects by.
ActionConfig == [act : {"create", "get", "list", "update", "scale", "delete"},
                 MatchOperation : {"none", "current", "all"}, MatchGoroutine : BOOLEAN,
                 LabelKey : STRING, LabelValue : STRING]

Goroutine == [kind : PodKinds, op : Nat, tid : Nat, ns : STRING, key : STRING, value : STRING,
              replicas : Nat, actions : Seq(ActionConfig)]

None == "none"

ASSUME WorksAssumption ==
  \A w \in Works : None \notin DOMAIN w /\ \A a \in DOMAIN w : w[a] \in Goroutine

\* Different numbers are written differently.
ASSUME ItoaAssumption ==
  \A w \in Works : \A a, b \in DOMAIN w :
    /\ Itoa(w[a].op) = Itoa(w[b].op) => w[a].op = w[b].op
    /\ Itoa(w[a].tid) = Itoa(w[b].tid) => w[a].tid = w[b].tid

ASSUME BoundsAssumption == MaxPods \in Nat /\ MaxFailures \in Nat

Pods == 1 .. MaxPods

VARIABLES
  work,                 \* what the goroutines do
  at, step,             \* per goroutine: its action, and how far it is in it
  listed, fresh, scale, \* what it listed, the versions it holds, the Scale it read
  there, replicas,      \* the controllers in the cluster and their specified replicas
  phase, maker, owner,  \* of each pod: its phase, whose labels it has, who controls it
  told, inflight,       \* the versions handed out, and those whose handlers have not run
  first, ready,         \* per manager: the keys of cFirstTimes and cReadyTimes
  scaleTimes,           \* per manager: len(apiTimes[SCALE_ACTION])
  failures

goVars == <<at, step, listed, fresh, scale>>
ctlVars == <<there, replicas>>
podVars == <<phase, maker, owner>>
mgrVars == <<told, inflight, first, ready>>
vars == <<work, goVars, ctlVars, podVars, mgrVars, scaleTimes, failures>>

Actors == DOMAIN work
Kind(a) == work[a].kind
Controllers == {a \in Actors : Kind(a) # "Pod"}

-----------------------------------------------------------------------------
(* The cluster *)

LabelsOf(a) == GenLabels(Kind(a), work[a].op, work[a].tid, work[a].key, work[a].value)
Object(a) == [name |-> a, labels |-> LabelsOf(a)]

Fail(k) == failures + k <= MaxFailures /\ failures' = failures + k

Alive(p) == phase[p] \in {"pending", "running"}
PodsOf(c) == {p \in Pods : Alive(p) /\ owner[p] = c}
Unused == {p \in Pods : phase[p] = "unused"}

NewPod(m, o) ==
  LET p == Min(Unused) IN
  /\ Unused # {}
  /\ phase' = [phase EXCEPT ![p] = "pending"]
  /\ maker' = [maker EXCEPT ![p] = m] /\ owner' = [owner EXCEPT ![p] = o]

\* A controller makes the pods it lacks, from its template.
MakePod(c) ==
  /\ c \in there /\ Cardinality(PodsOf(c)) < replicas[c]
  /\ NewPod(c, c)
  /\ UNCHANGED <<work, goVars, ctlVars, mgrVars, scaleTimes, failures>>

\* A replication controller takes a pod without a controller that its selector
\* matches. The other kinds look for more than the labels K-Bench chooses (a hash
\* of the template, a name of their own).
Adopt(c, p) ==
  /\ c \in there /\ Kind(c) = "ReplicationController"
  /\ Alive(p) /\ owner[p] = None /\ work[maker[p]].ns = work[c].ns
  /\ Matches(MatchLabels(work[c].op, work[c].tid), LabelsOf(maker[p]))
  /\ owner' = [owner EXCEPT ![p] = c]
  /\ UNCHANGED <<work, goVars, ctlVars, phase, maker, mgrVars, scaleTimes, failures>>

StartPod(p) ==
  /\ phase[p] = "pending"
  /\ phase' = [phase EXCEPT ![p] = "running"]
  /\ UNCHANGED <<work, goVars, ctlVars, maker, owner, mgrVars, scaleTimes, failures>>

\* A pod goes: its controller is gone or has too many, or it is evicted.
RemovePod(p) ==
  /\ Alive(p)
  /\ \/ /\ owner[p] # None
        /\ owner[p] \in there => Cardinality(PodsOf(owner[p])) > replicas[owner[p]]
        /\ UNCHANGED failures
     \/ Fail(1)
  /\ phase' = [phase EXCEPT ![p] = "gone"]
  /\ UNCHANGED <<work, goVars, ctlVars, maker, owner, mgrVars, scaleTimes>>

\* The cluster writes the status of a controller: versions held of it are old.
WriteStatus(c) ==
  /\ c \in there /\ \E a \in Actors : c \in fresh[a]
  /\ fresh' = [a \in Actors |-> fresh[a] \ {c}]
  /\ UNCHANGED <<work, at, step, listed, scale, ctlVars, podVars, mgrVars, scaleTimes, failures>>

Cluster ==
  \/ \E c \in Controllers :
       MakePod(c) \/ WriteStatus(c) \/ \E p \in Pods : Adopt(c, p)
  \/ \E p \in Pods : StartPod(p) \/ RemovePod(p)

-----------------------------------------------------------------------------
(* The informers and their handlers *)

\* The managers whose informer is told about p.
Informed(p) == {k \in PodKinds : Matches(InformerSelector(k), LabelsOf(maker[p]))}

\* AddFunc or UpdateFunc starts a handler; a second one of the same version changes
\* nothing and is left out.
Notify(p) ==
  /\ Alive(p) /\ phase[p] \notin told[p]
  /\ inflight' = [inflight EXCEPT ![p] = @ \cup {phase[p]}]
  /\ told' = [told EXCEPT ![p] = @ \cup {phase[p]}]
  /\ UNCHANGED <<work, goVars, ctlVars, podVars, first, ready, scaleTimes, failures>>

With(m, p) ==
  LET informed == Informed(p) IN
  [k \in PodKinds |-> IF k \in informed THEN m[k] \cup {p} ELSE m[k]]

\* Mutant: only a pod that was seen before can become ready.
ReadyAfterKnown(p, v) ==
  [k \in PodKinds |-> IF v = "running" /\ p \in first[k] THEN ready[k] \cup {p} ELSE ready[k]]

\* cReadyTimes after a handler.
ReadyAfter(p, v) == IF v = "running" THEN With(ready, p) ELSE ready

\* A handler runs; those of different managers do not depend on each other.
checkAndUpdate(p, v) ==
  /\ v \in inflight[p]
  /\ inflight' = [inflight EXCEPT ![p] = @ \ {v}]
  /\ first' = With(first, p) /\ ready' = ReadyAfter(p, v)
  /\ UNCHANGED <<work, goVars, ctlVars, podVars, told, scaleTimes, failures>>

Handlers == \E p \in Pods : \E v \in {"pending", "running"} : checkAndUpdate(p, v)

\* The deployment, stateful set and replication controller manager's.
IsStable(k) == Cardinality(ready[k]) # 0 /\ Cardinality(ready[k]) = Cardinality(first[k])

-----------------------------------------------------------------------------
(* The goroutines *)

Done(a) == at[a] > Len(work[a].actions)
Turn(a) == \A b \in Actors : work[b].op < work[a].op => Done(b)
Current(a) == work[a].actions[at[a]]
Is(a, acts) == ~Done(a) /\ Turn(a) /\ Current(a).act \in acts

\* A label of the action goes before the one of the operation's resource.
ActionSpec(a) ==
  LET label == updateLabelNs(<<Current(a).LabelKey, Current(a).LabelValue>>,
                             <<work[a].key, work[a].value>>) IN
  [Name |-> a, Oid |-> work[a].op, Tid |-> work[a].tid,
   LabelKey |-> label[1], LabelValue |-> label[2],
   MatchGoroutine |-> Current(a).MatchGoroutine, MatchOperation |-> Current(a).MatchOperation]

\* The action is over; an error that ended it is only logged.
Return(a) ==
  /\ at' = [at EXCEPT ![a] = @ + 1]
  /\ step' = [step EXCEPT ![a] = "begin"]
  /\ listed' = [listed EXCEPT ![a] = {}]

\* c is written; nobody's version of it is current any more.
Outdate(c) == fresh' = [b \in Actors |-> fresh[b] \ {c}]

\* An object that is there already is not created again.
Create(a) ==
  /\ Is(a, {"create"}) /\ Return(a)
  /\ \/ UNCHANGED failures
     \/ Fail(1)
  /\ IF failures' > failures \/ a \in there THEN UNCHANGED <<ctlVars, fresh, podVars>>
     ELSE IF Kind(a) = "Pod" THEN NewPod(a, None) /\ UNCHANGED <<ctlVars, fresh>>
     ELSE /\ there' = there \cup {a} /\ Outdate(a)
          /\ replicas' = [replicas EXCEPT ![a] = work[a].replicas]
          /\ UNCHANGED podVars
  /\ UNCHANGED <<work, scale, mgrVars, scaleTimes>>

\* Get and List change nothing but latencies.
GetOrList(a) ==
  /\ Is(a, {"get", "list"}) /\ Return(a)
  /\ UNCHANGED <<work, fresh, scale, ctlVars, podVars, mgrVars, scaleTimes, failures>>

\* What the list request of a returns.
Found(a) ==
  {c \in there : /\ Kind(c) = Kind(a) /\ work[c].ns = work[a].ns
                 /\ Selects(ActionSpec(a), Object(c))}

\* The first step of Update, Scale and Delete.
ListThem(a) ==
  /\ Is(a, {"update", "scale", "delete"}) /\ step[a] = "begin"
  /\ \/ /\ listed' = [listed EXCEPT ![a] = Found(a)]
        /\ fresh' = [fresh EXCEPT ![a] = Found(a)]
        /\ step' = [step EXCEPT ![a] = "loop"]
        /\ UNCHANGED <<at, failures>>
     \/ Return(a) /\ Fail(1) /\ UNCHANGED fresh
  /\ UNCHANGED <<work, scale, ctlVars, podVars, mgrVars, scaleTimes>>

EndLoop(a) ==
  /\ ~Done(a) /\ step[a] = "loop" /\ listed[a] = {} /\ Return(a)
  /\ UNCHANGED <<work, fresh, scale, ctlVars, podVars, mgrVars, scaleTimes, failures>>

\* The next object of the loop is dealt with.
Advance(a, c) ==
  /\ listed' = [listed EXCEPT ![a] = @ \ {c}]
  /\ step' = [step EXCEPT ![a] = "loop"]
  /\ UNCHANGED at

\* Update writes what was listed; a conflict, a missing object or another error
\* ends it with the rest of the list not dealt with.
Update(a, c) ==
  /\ Is(a, {"update"}) /\ step[a] = "loop" /\ c \in listed[a]
  /\ \/ c \in there \cap fresh[a] /\ Outdate(c) /\ Advance(a, c) /\ UNCHANGED failures
     \/ c \notin there \cap fresh[a] /\ Return(a) /\ UNCHANGED <<fresh, failures>>
     \/ Fail(1) /\ Return(a) /\ UNCHANGED fresh
  /\ UNCHANGED <<work, scale, ctlVars, podVars, mgrVars, scaleTimes>>

\* Does deleting a controller begin with a scale to zero?
ScalesFirst(k) == k = "ReplicationController"

\* Scale, and Delete of a replication controller, read the object's Scale ...
GetScale(a, c) ==
  /\ Is(a, {"scale"}) \/ (Is(a, {"delete"}) /\ ScalesFirst(Kind(a)))
  /\ step[a] = "loop" /\ c \in listed[a]
  /\ \/ /\ c \in there
        /\ step' = [step EXCEPT ![a] = "update"]
        /\ scale' = [scale EXCEPT ![a] = [of |-> c, replicas |-> replicas[c]]]
        /\ fresh' = [fresh EXCEPT ![a] = @ \cup {c}]
        /\ UNCHANGED <<at, listed, failures>>
     \/ c \notin there /\ Return(a) /\ UNCHANGED <<fresh, scale, failures>>
     \/ Fail(1) /\ Return(a) /\ UNCHANGED <<fresh, scale>>
  /\ UNCHANGED <<work, ctlVars, podVars, mgrVars, scaleTimes>>

\* Mutant: a new Scale is sent, without the version that was read.
IsCurrentAnyway(a, c) == c \in there

\* The Scale that was read is sent back and carries its version.
IsCurrent(a, c) == c \in there /\ c \in fresh[a]

\* ... and send it back with one replica more. An error ends the loop, and the
\* answer alone may be lost.
UpdateScale(a) ==
  LET c == scale[a].of
      Written == /\ replicas' = [replicas EXCEPT ![c] = scale[a].replicas + 1]
                 /\ Outdate(c)
  IN /\ Is(a, {"scale"}) /\ step[a] = "update"
     /\ \/ /\ IsCurrent(a, c) /\ Written /\ Advance(a, c)
           /\ scaleTimes' = [scaleTimes EXCEPT ![Kind(a)] = @ + 1]
           /\ UNCHANGED failures
        \/ /\ ~IsCurrent(a, c) /\ Return(a)
           /\ UNCHANGED <<replicas, fresh, scaleTimes, failures>>
        \/ /\ Fail(1) /\ Return(a)
           /\ (IsCurrent(a, c) /\ Written) \/ UNCHANGED <<replicas, fresh>>
           /\ UNCHANGED scaleTimes
     /\ UNCHANGED <<work, scale, there, podVars, mgrVars>>

\* Mutant: a controller is scaled down by one.
DownToOneLess(a) == scale[a].replicas - 1

\* A controller that is to be deleted is scaled to none.
DownTo(a) == 0

\* ... with none, whatever the answer.
ScaleDown(a) ==
  LET c == scale[a].of IN
  /\ Is(a, {"delete"}) /\ step[a] = "update"
  /\ step' = [step EXCEPT ![a] = "scaled"]
  /\ \/ /\ IsCurrent(a, c)
        /\ replicas' = [replicas EXCEPT ![c] = DownTo(a)] /\ Outdate(c)
        /\ UNCHANGED failures
     \/ ~IsCurrent(a, c) /\ UNCHANGED <<replicas, fresh, failures>>
     \/ Fail(1) /\ UNCHANGED <<replicas, fresh>>
  /\ UNCHANGED <<work, at, listed, scale, there, podVars, mgrVars, scaleTimes>>

\* The object is deleted; an error is ignored.
Delete(a, c) ==
  /\ Is(a, {"delete"}) /\ c \in listed[a]
  /\ IF ScalesFirst(Kind(a)) THEN step[a] = "scaled" /\ scale[a].of = c ELSE step[a] = "loop"
  /\ Advance(a, c)
  /\ \/ there' = there \ {c} /\ UNCHANGED failures
     \/ Fail(1) /\ UNCHANGED there
  /\ UNCHANGED <<work, fresh, scale, replicas, podVars, mgrVars, scaleTimes>>

Routine(a) ==
  \/ Create(a) \/ GetOrList(a) \/ ListThem(a) \/ EndLoop(a) \/ UpdateScale(a) \/ ScaleDown(a)
  \/ \E c \in Controllers : Update(a, c) \/ GetScale(a, c) \/ Delete(a, c)

-----------------------------------------------------------------------------

Init ==
  /\ work \in Works
  /\ at = [a \in Actors |-> 1] /\ step = [a \in Actors |-> "begin"]
  /\ listed = [a \in Actors |-> {}] /\ fresh = [a \in Actors |-> {}]
  /\ scale = [a \in Actors |-> [of |-> None, replicas |-> 0]]
  /\ there = {} /\ replicas = [a \in Actors |-> work[a].replicas]
  /\ phase = [p \in Pods |-> "unused"]
  /\ maker = [p \in Pods |-> None] /\ owner = [p \in Pods |-> None]
  /\ told = [p \in Pods |-> {}] /\ inflight = [p \in Pods |-> {}]
  /\ first = [k \in PodKinds |-> {}] /\ ready = [k \in PodKinds |-> {}]
  /\ scaleTimes = [k \in PodKinds |-> 0]
  /\ failures = 0

Next ==
  \/ Cluster
  \/ \E p \in Pods : Notify(p)
  \/ Handlers
  \/ \E a \in Actors : Routine(a)

Spec == Init /\ [][Next]_vars

\* While there are handlers, one of them gets the lock and runs.
FairSpec == Spec /\ WF_vars(Handlers)

-----------------------------------------------------------------------------
(* Properties *)

TypeOK ==
  /\ work \in Works
  /\ \A a \in Actors :
       /\ at[a] \in 1 .. Len(work[a].actions) + 1
       /\ step[a] \in {"begin", "loop", "update", "scaled"}
       /\ step[a] \in {"update", "scaled"} => scale[a].of \in listed[a]
       /\ listed[a] \subseteq Controllers /\ fresh[a] \subseteq Controllers
       /\ scale[a] \in [of : Controllers \cup {None}, replicas : Nat]
  /\ there \subseteq Controllers /\ replicas \in [Actors -> Nat]
  /\ phase \in [Pods -> {"unused", "pending", "running", "gone"}]
  /\ maker \in [Pods -> Actors \cup {None}] /\ owner \in [Pods -> Actors \cup {None}]
  /\ told \in [Pods -> SUBSET {"pending", "running"}]
  /\ \A p \in Pods : inflight[p] \subseteq told[p]
  /\ first \in [PodKinds -> SUBSET Pods] /\ ready \in [PodKinds -> SUBSET Pods]
  /\ scaleTimes \in [PodKinds -> Nat] /\ failures \in 0 .. MaxFailures

\* A manager's statistics are about the pods made for its own kind, although all
\* informers watch all namespaces and the pods of one operation and goroutine
\* have the same labels but for the type.
OwnPodsOnly ==
  \A k \in PodKinds : ready[k] \subseteq first[k] /\ \A p \in first[k] : Kind(maker[p]) = k

\* What the documentation of MatchGoroutine and MatchOperation says an action is
\* about: the objects of this operation or of all, of this goroutine, with this
\* label, and the goroutine's own object if nothing is asked for.
Meant(a, c) ==
  LET as == Current(a)
      label == IF as.LabelKey # Unset /\ as.LabelValue # Unset THEN <<as.LabelKey, as.LabelValue>>
               ELSE <<work[a].key, work[a].value>>
      labelled == label[1] # Unset /\ label[2] # Unset
  IN IF as.MatchOperation = "none" /\ ~as.MatchGoroutine /\ ~labelled THEN c = a
     ELSE /\ as.MatchOperation = "current" => work[c].op = work[a].op
          /\ as.MatchGoroutine => work[c].tid = work[a].tid
          /\ labelled => work[c].key = label[1] /\ work[c].value = label[2]

\* A list request returns exactly the objects the action is meant for.
ListsAsMeant ==
  [][\A a \in Actors : step[a] = "begin" /\ step'[a] = "loop" =>
       listed'[a] = {c \in there :
                       Kind(c) = Kind(a) /\ work[c].ns = work[a].ns /\ Meant(a, c)}]_vars

ControllersOf(k) == {c \in Controllers : Kind(c) = k}

\* The replicas that the controllers of a kind were given, each with its number.
Added(k) == UNION {{c} \X (work[c].replicas + 1 .. replicas[c]) : c \in ControllersOf(k)}

\* Goroutines that scale the same object at a time lose none of the scales they
\* count: while no controller of a kind is deleted, the replicas it was given are the
\* scales counted, and perhaps some whose answer was lost; and none were taken.
NoScaleLost ==
  \A k \in PodKinds :
    (\A c \in ControllersOf(k) : \A i \in DOMAIN work[c].actions :
       work[c].actions[i].act # "delete") =>
      /\ scaleTimes[k] <= Cardinality(Added(k))
      /\ Cardinality(Added(k)) <= scaleTimes[k] + failures
      /\ \A c \in ControllersOf(k) : work[c].replicas <= replicas[c]

\* A controller controls the pods made for it; a replication controller takes, in
\* its namespace, the plain pods of the same operation and goroutine, too: its
\* selector does not ask for the type.
OwnersMade ==
  \A p \in Pods : owner[p] # None =>
    \/ maker[p] = owner[p]
    \/ /\ Kind(owner[p]) = "ReplicationController" /\ Kind(maker[p]) = "Pod"
       /\ \A f \in {"op", "tid", "ns"} : work[maker[p]][f] = work[owner[p]][f]

\* Once every pod that a manager has seen is one it was told is running, it is stable
\* for good: no order of the handlers leaves the driver waiting.
StableInTheEnd ==
  \A k \in PodKinds \ {"Pod"} :
    <>[](first[k] # {} /\ \A p \in first[k] : "running" \in told[p]) => <>[]IsStable(k)

\* Of the deployment manager: "This function returns whether all the pods in the
\* deployment are ready".
StableMeansAllReady ==
  IsStable("Deployment") =>
    \A c \in there : Kind(c) = "Deployment" =>
      replicas[c] <= Cardinality({p \in PodsOf(c) : phase[p] = "running"})

=============================================================================
