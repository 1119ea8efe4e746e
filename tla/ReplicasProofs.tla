--------------------------- MODULE ReplicasProofs ---------------------------
(***************************************************************************)
(* Controllers, their pods and what the managers know of them, for every   *)
(* workload and any number of pods and of failing calls: which pods count  *)
(* for a manager and whom they belong to, what an action reaches, and that *)
(* no scale is lost.                                                       *)
(***************************************************************************)
EXTENDS Replicas, FiniteInduction

-----------------------------------------------------------------------------
(* Labels *)

OwnKeys == {"app", "type", "opnum", "tid"}

\* The labels K-Bench gives, without the user's.
LEMMA UpdatedLabels ==
  ASSUME NEW type, NEW op, NEW tid
  PROVE  LET own == updateLabels(NoLabels, type, op, tid) IN
         /\ DOMAIN own = OwnKeys
         /\ own["app"] = AppName /\ own["type"] = type
         /\ own["opnum"] = Itoa(op) /\ own["tid"] = Itoa(tid)
BY DEF updateLabels, Over, NoLabels, OwnKeys

\* The labels say which manager, operation and goroutine the object is of.
Labelled(labels, kind, op, tid) ==
  /\ OwnKeys \subseteq DOMAIN labels
  /\ labels["app"] = AppName /\ labels["type"] = TypeOf[kind]
  /\ labels["opnum"] = Itoa(op) /\ labels["tid"] = Itoa(tid)

\* A user's label with a key of its own is added to them.
LEMMA GeneratedLabels ==
  ASSUME NEW kind, kind # "Namespace", NEW op, NEW tid, NEW key, key \notin OwnKeys, NEW value
  PROVE  /\ Labelled(GenLabels(kind, op, tid, key, value), kind, op, tid)
         /\ DOMAIN GenLabels(kind, op, tid, key, value)
              = OwnKeys \cup (IF IsLabel(key, value) THEN {key} ELSE {})
         /\ IsLabel(key, value) => GenLabels(kind, op, tid, key, value)[key] = value
<1> DEFINE own == updateLabels(NoLabels, TypeOf[kind], op, tid)
<1>1. /\ DOMAIN own = OwnKeys
      /\ own["app"] = AppName /\ own["type"] = TypeOf[kind]
      /\ own["opnum"] = Itoa(op) /\ own["tid"] = Itoa(tid)
  BY UpdatedLabels
<1>2. GenLabels(kind, op, tid, key, value)
      = IF IsLabel(key, value) THEN Over(Label(key, value), own) ELSE own
  BY DEF GenLabels
<1> HIDE DEF own
<1> QED
  BY <1>1, <1>2 DEF Over, Label, OwnKeys, Labelled

\* The types of the kinds of pods differ.
LEMMA TypesDiffer == \A k, m \in PodKinds : TypeOf[k] = TypeOf[m] => k = m
BY DEF TypeOf, PodKinds

\* A manager is told of the pods of its kind only.
LEMMA InformedOfItsKind ==
  ASSUME NEW k \in PodKinds, NEW kind \in PodKinds, NEW op, NEW tid,
         NEW key, key \notin OwnKeys, NEW value,
         Matches(InformerSelector(k), GenLabels(kind, op, tid, key, value))
  PROVE  k = kind
<1> DEFINE labels == GenLabels(kind, op, tid, key, value)
<1>1. kind # "Namespace"
  BY DEF PodKinds
<1>2. Labelled(labels, kind, op, tid)
  BY <1>1, GeneratedLabels
<1> HIDE DEF labels
<1>3. labels["type"] = TypeOf[k]
  BY DEF Matches, InformerSelector, labels
<1> QED
  BY <1>2, <1>3, TypesDiffer DEF Labelled

\* A replication controller's selector asks for its operation and goroutine.
LEMMA SelectedAlike ==
  ASSUME NEW kind \in PodKinds, NEW o, NEW t, NEW op, NEW tid,
         NEW key, key \notin OwnKeys, NEW value,
         Matches(MatchLabels(o, t), GenLabels(kind, op, tid, key, value))
  PROVE  Itoa(o) = Itoa(op) /\ Itoa(t) = Itoa(tid)
<1> DEFINE labels == GenLabels(kind, op, tid, key, value)
<1>1. kind # "Namespace"
  BY DEF PodKinds
<1>2. Labelled(labels, kind, op, tid)
  BY <1>1, GeneratedLabels
<1> HIDE DEF labels
<1>3. labels["opnum"] = Itoa(o) /\ labels["tid"] = Itoa(t)
  BY DEF Matches, MatchLabels, labels
<1> QED
  BY <1>2, <1>3 DEF Labelled

\* The labels an action asks for, each for one of its options.
AskedFor(as, asked) ==
  LET labelled == IsLabel(as.LabelKey, as.LabelValue) IN
  /\ DOMAIN asked = {} <=> (as.MatchOperation = "none" /\ ~as.MatchGoroutine /\ ~labelled)
  /\ \A given : Matches(asked, given) <=>
       /\ as.MatchOperation = "current" =>
            "opnum" \in DOMAIN given /\ given["opnum"] = Itoa(as.Oid)
       /\ as.MatchOperation = "all" => "app" \in DOMAIN given /\ given["app"] = AppName
       /\ as.MatchGoroutine => "tid" \in DOMAIN given /\ given["tid"] = Itoa(as.Tid)
       /\ labelled => as.LabelKey \in DOMAIN given /\ given[as.LabelKey] = as.LabelValue

Options(as) ==
  /\ as.MatchOperation \in {"none", "current", "all"} /\ as.MatchGoroutine \in BOOLEAN
  /\ as.LabelKey \notin OwnKeys

LEMMA OptionsAskedFor == \A as : Options(as) => AskedFor(as, GetListOptions(as))
<1> SUFFICES ASSUME NEW as, Options(as) PROVE AskedFor(as, GetListOptions(as))
  OBVIOUS
<1>0. /\ as.MatchOperation \in {"none", "current", "all"} /\ as.MatchGoroutine \in BOOLEAN
      /\ as.LabelKey \notin OwnKeys
  BY DEF Options
<1> DEFINE labelled == IsLabel(as.LabelKey, as.LabelValue)
           operation == CASE as.MatchOperation = "current" -> [opnum |-> Itoa(as.Oid)]
                          [] as.MatchOperation = "all" -> [app |-> AppName]
                          [] OTHER -> NoLabels
           goroutine == IF as.MatchGoroutine THEN [tid |-> Itoa(as.Tid)] ELSE NoLabels
           label == IF labelled THEN Label(as.LabelKey, as.LabelValue) ELSE NoLabels
           asked == Over(operation, Over(goroutine, label))
<1>1. GetListOptions(as) = asked
  BY DEF GetListOptions
<1>2. /\ DOMAIN operation = (IF as.MatchOperation = "current" THEN {"opnum"}
                             ELSE IF as.MatchOperation = "all" THEN {"app"} ELSE {})
      /\ as.MatchOperation = "current" => operation["opnum"] = Itoa(as.Oid)
      /\ as.MatchOperation = "all" => operation["app"] = AppName
  BY DEF NoLabels
<1>3. /\ DOMAIN goroutine = (IF as.MatchGoroutine THEN {"tid"} ELSE {})
      /\ as.MatchGoroutine => goroutine["tid"] = Itoa(as.Tid)
  BY DEF NoLabels
<1>4. /\ DOMAIN label = (IF labelled THEN {as.LabelKey} ELSE {})
      /\ labelled => label[as.LabelKey] = as.LabelValue
  BY DEF NoLabels, Label
<1> HIDE DEF operation, goroutine, label, labelled
<1>5. DOMAIN asked = DOMAIN operation \cup DOMAIN goroutine \cup DOMAIN label
  BY DEF Over
<1>6. /\ \A k \in DOMAIN operation : asked[k] = operation[k]
      /\ \A k \in DOMAIN goroutine : k \notin DOMAIN operation => asked[k] = goroutine[k]
      /\ \A k \in DOMAIN label : k \notin DOMAIN operation \cup DOMAIN goroutine =>
           asked[k] = label[k]
  BY DEF Over
<1> HIDE DEF asked
<1>7. DOMAIN asked = {} <=> as.MatchOperation = "none" /\ ~as.MatchGoroutine /\ ~labelled
  BY <1>0, <1>2, <1>3, <1>4, <1>5
<1>8. /\ as.MatchOperation = "current" =>
           "opnum" \in DOMAIN asked /\ asked["opnum"] = Itoa(as.Oid)
      /\ as.MatchOperation = "all" => "app" \in DOMAIN asked /\ asked["app"] = AppName
      /\ as.MatchGoroutine => "tid" \in DOMAIN asked /\ asked["tid"] = Itoa(as.Tid)
      /\ labelled => as.LabelKey \in DOMAIN asked /\ asked[as.LabelKey] = as.LabelValue
  BY <1>0, <1>2, <1>3, <1>4, <1>5, <1>6 DEF OwnKeys
<1>9. \A k \in DOMAIN asked :
        \/ as.MatchOperation = "current" /\ k = "opnum"
        \/ as.MatchOperation = "all" /\ k = "app"
        \/ as.MatchGoroutine /\ k = "tid"
        \/ labelled /\ k = as.LabelKey
  BY <1>0, <1>2, <1>3, <1>4, <1>5
<1>10. ASSUME NEW given
       PROVE  Matches(asked, given) <=>
                /\ as.MatchOperation = "current" =>
                     "opnum" \in DOMAIN given /\ given["opnum"] = Itoa(as.Oid)
                /\ as.MatchOperation = "all" =>
                     "app" \in DOMAIN given /\ given["app"] = AppName
                /\ as.MatchGoroutine =>
                     "tid" \in DOMAIN given /\ given["tid"] = Itoa(as.Tid)
                /\ labelled =>
                     as.LabelKey \in DOMAIN given /\ given[as.LabelKey] = as.LabelValue
  BY <1>8, <1>9, Zenon DEF Matches
<1> QED
  BY <1>1, <1>7, <1>10 DEF labelled, AskedFor

-----------------------------------------------------------------------------
(* Types *)

Steps == {"begin", "loop", "update", "scaled"}
Scale == [of : Controllers \cup {None}, replicas : Nat]
Running == {"pending", "running"}

\* The goroutines: a Scale that was read and not dealt with is one of an object that
\* is still listed.
GoOK ==
  /\ at \in [Actors -> Nat] /\ step \in [Actors -> Steps]
  /\ listed \in [Actors -> SUBSET Controllers] /\ fresh \in [Actors -> SUBSET Controllers]
  /\ scale \in [Actors -> Scale]
  /\ \A a \in Actors :
       /\ at[a] \in 1 .. Len(work[a].actions) + 1
       /\ step[a] \in {"update", "scaled"} => scale[a].of \in listed[a]
       /\ \A c \in listed[a] : Kind(c) = Kind(a)

CtlOK == there \subseteq Controllers /\ replicas \in [Actors -> Nat]

PodOK ==
  /\ phase \in [Pods -> Running \cup {"unused", "gone"}]
  /\ maker \in [Pods -> Actors \cup {None}] /\ owner \in [Pods -> Actors \cup {None}]

MgrOK ==
  /\ told \in [Pods -> SUBSET Running] /\ inflight \in [Pods -> SUBSET Running]
  /\ \A p \in Pods : inflight[p] \subseteq told[p]
  /\ first \in [PodKinds -> SUBSET Pods] /\ ready \in [PodKinds -> SUBSET Pods]

CountOK == scaleTimes \in [PodKinds -> Nat] /\ failures \in 0 .. MaxFailures

\* The types of all variables, functions included, which TypeOK leaves out where it
\* says what their values are.
TypeInv == work \in Works /\ GoOK /\ CtlOK /\ PodOK /\ MgrOK /\ CountOK

\* What a goroutine is configured to do.
LEMMA WorkParts ==
  ASSUME work \in Works, NEW a \in Actors
  PROVE  /\ a # None
         /\ work[a].kind \in PodKinds /\ work[a].op \in Nat /\ work[a].tid \in Nat
         /\ work[a].replicas \in Nat
         /\ work[a].actions \in Seq(ActionConfig) /\ Len(work[a].actions) \in Nat
<1>1. work[a] \in Goroutine /\ a # None
  BY WorksAssumption DEF Actors
<1>2. work[a].actions \in Seq(ActionConfig)
  BY <1>1 DEF Goroutine
<1> QED
  BY <1>1, <1>2 DEF Goroutine

LEMMA ControllersAreActors == Controllers \subseteq Actors
BY DEF Controllers

\* The next pod is one that was never used.
LEMMA NextPod ==
  ASSUME Unused # {}
  PROVE  Min(Unused) \in Pods /\ phase[Min(Unused)] = "unused"
<1>1. IsFiniteSet(Unused) /\ Unused \in SUBSET Int
  <2>1. IsFiniteSet(Pods) /\ Pods \subseteq Int
    BY BoundsAssumption, FS_Interval DEF Pods
  <2>2. Unused \subseteq Pods
    BY DEF Unused
  <2> QED
    BY <2>1, <2>2, FS_Subset
<1>2. \E m \in Unused : \A n \in Unused : m <= n
  BY <1>1, LeastOf
<1>3. Min(Unused) \in Unused
  BY <1>2 DEF Min
<1> QED
  BY <1>3 DEF Unused

\* No step changes what the goroutines do.
LEMMA WorkStays ==
  ASSUME [Next]_vars
  PROVE  /\ work' = work /\ Actors' = Actors /\ Controllers' = Controllers
         /\ \A a : Kind(a)' = Kind(a)
<1>1. work' = work
  <2>1. CASE Cluster
    BY <2>1 DEF Cluster, MakePod, WriteStatus, Adopt, StartPod, RemovePod
  <2>2. ASSUME NEW p \in Pods, Notify(p) PROVE work' = work
    BY <2>2 DEF Notify
  <2>3. CASE Handlers
    BY <2>3 DEF Handlers, checkAndUpdate
  <2>4. ASSUME NEW a \in Actors, Routine(a) PROVE work' = work
    BY <2>4 DEF Routine, Create, GetOrList, ListThem, EndLoop, UpdateScale, ScaleDown, Update,
                GetScale, Delete
  <2>5. CASE UNCHANGED vars
    BY <2>5 DEF vars
  <2> QED
    BY <2>1, <2>2, <2>3, <2>4, <2>5 DEF Next
<1> QED
  BY <1>1 DEF Actors, Controllers, Kind

\* The end of an action, and of an object's turn in its loop, keep the types.
LEMMA ReturnTypes ==
  ASSUME TypeInv, UNCHANGED work, NEW a \in Actors, ~Done(a), Return(a),
         fresh' \in [Actors -> SUBSET Controllers], scale' \in [Actors -> Scale],
         \A b \in Actors \ {a} : scale'[b] = scale[b]
  PROVE  GoOK'
<1>1. Actors' = Actors /\ Controllers' = Controllers /\ Scale' = Scale /\ \A b : Kind(b)' = Kind(b)
  BY DEF Actors, Controllers, Kind, Scale
<1>2. Len(work[a].actions) \in Nat /\ at[a] \in 1 .. Len(work[a].actions)
  BY WorkParts DEF TypeInv, GoOK, Done
<1>3. /\ at' \in [Actors -> Nat] /\ step' \in [Actors -> Steps]
      /\ listed' \in [Actors -> SUBSET Controllers]
  BY DEF TypeInv, GoOK, Return, Steps
<1>4. ASSUME NEW b \in Actors
      PROVE  /\ at'[b] \in 1 .. Len(work'[b].actions) + 1
             /\ step'[b] \in {"update", "scaled"} => scale'[b].of \in listed'[b]
             /\ \A c \in listed'[b] : Kind(c)' = Kind(b)'
  BY <1>1, <1>2 DEF TypeInv, GoOK, Return
<1> QED
  BY <1>1, <1>3, <1>4 DEF GoOK

LEMMA AdvanceTypes ==
  ASSUME TypeInv, UNCHANGED work, NEW a \in Actors, NEW c \in Controllers, Advance(a, c),
         fresh' \in [Actors -> SUBSET Controllers], scale' = scale
  PROVE  GoOK'
<1>1. Actors' = Actors /\ Controllers' = Controllers /\ Scale' = Scale /\ \A b : Kind(b)' = Kind(b)
  BY DEF Actors, Controllers, Kind, Scale
<1>3. /\ at' \in [Actors -> Nat] /\ step' \in [Actors -> Steps]
      /\ listed' \in [Actors -> SUBSET Controllers]
  BY DEF TypeInv, GoOK, Advance, Steps
<1>4. ASSUME NEW b \in Actors
      PROVE  /\ at'[b] \in 1 .. Len(work'[b].actions) + 1
             /\ step'[b] \in {"update", "scaled"} => scale'[b].of \in listed'[b]
             /\ \A d \in listed'[b] : Kind(d)' = Kind(b)'
  BY <1>1 DEF TypeInv, GoOK, Advance
<1> QED
  BY <1>1, <1>3, <1>4 DEF GoOK, TypeInv

\* A step of others keeps them, too.
LEMMA SameTypes ==
  ASSUME TypeInv, UNCHANGED <<work, at, step, listed, scale>>,
         fresh' \in [Actors -> SUBSET Controllers]
  PROVE  GoOK'
<1>1. Actors' = Actors /\ Controllers' = Controllers /\ Scale' = Scale /\ \A b : Kind(b)' = Kind(b)
  BY DEF Actors, Controllers, Kind, Scale
<1> QED
  BY <1>1 DEF TypeInv, GoOK

LEMMA OutdateTypes ==
  ASSUME TypeInv, NEW c, Outdate(c)
  PROVE  fresh' \in [Actors -> SUBSET Controllers]
BY DEF TypeInv, GoOK, Outdate

\* The steps of a goroutine keep the types of what it holds.
LEMMA RoutineTypes ==
  ASSUME TypeInv, UNCHANGED work, NEW a \in Actors, Routine(a)
  PROVE  GoOK'
<1>0. /\ fresh \in [Actors -> SUBSET Controllers] /\ scale \in [Actors -> Scale]
      /\ step \in [Actors -> Steps] /\ listed \in [Actors -> SUBSET Controllers]
  BY DEF TypeInv, GoOK
<1>00. Actors' = Actors /\ Controllers' = Controllers /\ Scale' = Scale /\ \A b : Kind(b)' = Kind(b)
  BY DEF Actors, Controllers, Kind, Scale
<1>1. CASE Create(a)
  <2>1. fresh' = fresh \/ Outdate(a)
    BY <1>1 DEF Create
  <2>2. fresh' \in [Actors -> SUBSET Controllers]
    BY <1>0, <2>1 DEF Outdate
  <2> QED
    BY <1>0, <1>1, <2>2, ReturnTypes DEF Create, Is
<1>2. CASE GetOrList(a)
  BY <1>0, <1>2, ReturnTypes DEF GetOrList, Is
<1>3. CASE ListThem(a)
  <2>1. Found(a) \subseteq Controllers /\ \A c \in Found(a) : Kind(c) = Kind(a)
    BY DEF Found, TypeInv, CtlOK
  <2>2. CASE Return(a) /\ UNCHANGED fresh
    BY <1>0, <1>3, <2>2, ReturnTypes DEF ListThem, Is
  <2>3. CASE /\ listed' = [listed EXCEPT ![a] = Found(a)]
             /\ fresh' = [fresh EXCEPT ![a] = Found(a)]
             /\ step' = [step EXCEPT ![a] = "loop"]
             /\ UNCHANGED at
    <3>1. UNCHANGED scale
      BY <1>3 DEF ListThem
    <3>2. /\ fresh' \in [Actors -> SUBSET Controllers] /\ step' \in [Actors -> Steps]
          /\ listed' \in [Actors -> SUBSET Controllers]
      BY <1>0, <2>1, <2>3 DEF Steps
    <3>3. ASSUME NEW b \in Actors
          PROVE  /\ at'[b] \in 1 .. Len(work'[b].actions) + 1
                 /\ step'[b] \in {"update", "scaled"} => scale'[b].of \in listed'[b]
                 /\ \A d \in listed'[b] : Kind(d)' = Kind(b)'
      BY <1>0, <1>00, <2>1, <2>3, <3>1 DEF TypeInv, GoOK
    <3> QED
      BY <1>00, <2>3, <3>1, <3>2, <3>3 DEF GoOK, TypeInv
  <2> QED
    BY <1>3, <2>2, <2>3 DEF ListThem
<1>4. CASE EndLoop(a)
  BY <1>0, <1>4, ReturnTypes DEF EndLoop
<1>5. CASE UpdateScale(a)
  <2>1. scale[a].of \in Controllers /\ ~Done(a)
    BY <1>0, <1>5 DEF UpdateScale, Is, TypeInv, GoOK
  <2>2. fresh' \in [Actors -> SUBSET Controllers] /\ UNCHANGED scale
    BY <1>0, <1>5, OutdateTypes DEF UpdateScale
  <2> QED
    BY <1>0, <1>5, <2>1, <2>2, ReturnTypes, AdvanceTypes DEF UpdateScale
<1>6. CASE ScaleDown(a)
  <2>1. /\ fresh' \in [Actors -> SUBSET Controllers] /\ UNCHANGED <<at, listed, scale>>
        /\ step' = [step EXCEPT ![a] = "scaled"] /\ step[a] = "update"
    BY <1>0, <1>6, OutdateTypes DEF ScaleDown
  <2>2. step' \in [Actors -> Steps]
    BY <1>0, <2>1 DEF Steps
  <2>3. ASSUME NEW b \in Actors
        PROVE  /\ at'[b] \in 1 .. Len(work'[b].actions) + 1
               /\ step'[b] \in {"update", "scaled"} => scale'[b].of \in listed'[b]
               /\ \A d \in listed'[b] : Kind(d)' = Kind(b)'
    BY <1>0, <1>00, <2>1 DEF TypeInv, GoOK
  <2> QED
    BY <1>00, <2>1, <2>2, <2>3 DEF GoOK, TypeInv
<1>7. ASSUME NEW c \in Controllers, Update(a, c) PROVE GoOK'
  <2>1. fresh' \in [Actors -> SUBSET Controllers] /\ UNCHANGED scale /\ ~Done(a)
    BY <1>0, <1>7, OutdateTypes DEF Update, Is
  <2> QED
    BY <1>0, <1>7, <2>1, ReturnTypes, AdvanceTypes DEF Update
<1>8. ASSUME NEW c \in Controllers, GetScale(a, c) PROVE GoOK'
  <2>1. ~Done(a)
    BY <1>8 DEF GetScale, Is
  <2>2. CASE Return(a) /\ UNCHANGED <<fresh, scale>>
    BY <1>0, <2>1, <2>2, ReturnTypes
  <2>3. CASE /\ step' = [step EXCEPT ![a] = "update"]
             /\ scale' = [scale EXCEPT ![a] = [of |-> c, replicas |-> replicas[c]]]
             /\ fresh' = [fresh EXCEPT ![a] = @ \cup {c}]
             /\ UNCHANGED <<at, listed>>
    <3>1. c \in listed[a]
      BY <1>8 DEF GetScale
    <3>2. replicas[c] \in Nat
      BY ControllersAreActors DEF TypeInv, CtlOK
    <3>3. [of |-> c, replicas |-> replicas[c]] \in Scale
      BY <3>2 DEF Scale
    <3>4. /\ fresh' \in [Actors -> SUBSET Controllers] /\ step' \in [Actors -> Steps]
          /\ scale' \in [Actors -> Scale]
      BY <1>0, <2>3, <3>3 DEF Steps
    <3>5. ASSUME NEW b \in Actors
          PROVE  /\ at'[b] \in 1 .. Len(work'[b].actions) + 1
                 /\ step'[b] \in {"update", "scaled"} => scale'[b].of \in listed'[b]
                 /\ \A d \in listed'[b] : Kind(d)' = Kind(b)'
      BY <1>0, <1>00, <2>3, <3>1 DEF TypeInv, GoOK
    <3> QED
      BY <1>00, <2>3, <3>4, <3>5 DEF GoOK, TypeInv
  <2> QED
    BY <1>8, <2>2, <2>3 DEF GetScale
<1>9. ASSUME NEW c \in Controllers, Delete(a, c) PROVE GoOK'
  BY <1>0, <1>9, AdvanceTypes DEF Delete
<1> QED
  BY <1>1, <1>2, <1>3, <1>4, <1>5, <1>6, <1>7, <1>8, <1>9 DEF Routine

\* What a step of a goroutine leaves of the cluster's objects, of the pods, the
\* managers' views and the counts.
LEMMA RoutineOthers ==
  ASSUME TypeInv, UNCHANGED work, NEW a \in Actors, Routine(a)
  PROVE  CtlOK' /\ PodOK' /\ MgrOK' /\ CountOK'
<1>0. Actors' = Actors /\ Controllers' = Controllers /\ \A b : Kind(b)' = Kind(b)
  BY DEF Actors, Controllers, Kind
<1>1. CtlOK /\ PodOK /\ MgrOK /\ CountOK
  BY DEF TypeInv
<1>2. MgrOK'
  <2>1. UNCHANGED mgrVars
    BY DEF Routine, Create, GetOrList, ListThem, EndLoop, UpdateScale, ScaleDown, Update,
           GetScale, Delete
  <2> QED
    BY <1>1, <2>1 DEF MgrOK, mgrVars
<1>3. CountOK'
  <2>1. failures' = failures \/ Fail(1)
    BY DEF Routine, Create, GetOrList, ListThem, EndLoop, UpdateScale, ScaleDown, Update,
           GetScale, Delete
  <2>2. failures' \in 0 .. MaxFailures
    BY <1>1, <2>1, BoundsAssumption DEF CountOK, Fail
  <2>3. Kind(a) \in PodKinds
    BY WorkParts DEF TypeInv, Kind
  <2>4. scaleTimes' = scaleTimes \/ scaleTimes' = [scaleTimes EXCEPT ![Kind(a)] = @ + 1]
    BY DEF Routine, Create, GetOrList, ListThem, EndLoop, UpdateScale, ScaleDown, Update,
           GetScale, Delete
  <2>5. scaleTimes' \in [PodKinds -> Nat]
    BY <1>1, <2>3, <2>4 DEF CountOK
  <2> QED
    BY <2>2, <2>5 DEF CountOK
<1>4. PodOK'
  <2>1. podVars' = podVars \/ NewPod(a, None)
    BY DEF Routine, Create, GetOrList, ListThem, EndLoop, UpdateScale, ScaleDown, Update,
           GetScale, Delete
  <2>2. CASE NewPod(a, None)
    BY <1>0, <1>1, <2>2, NextPod DEF PodOK, NewPod, Running
  <2> QED
    BY <1>0, <1>1, <2>1, <2>2 DEF PodOK, podVars
<1>5. CtlOK'
  <2>1. scale[a].of \in Controllers \cup {None} /\ scale[a].replicas \in Nat
    BY DEF TypeInv, GoOK, Scale
  <2>2. there' \subseteq there \cup {a} /\ (a \in there' => a \in there \/ Kind(a) # "Pod")
    BY DEF Routine, Create, GetOrList, ListThem, EndLoop, UpdateScale, ScaleDown, Update,
           GetScale, Delete, ctlVars
  <2>3. \/ replicas' = replicas
        \/ replicas' = [replicas EXCEPT ![scale[a].of] = scale[a].replicas + 1]
        \/ replicas' = [replicas EXCEPT ![scale[a].of] = DownTo(a)]
        \/ replicas' = [replicas EXCEPT ![a] = work[a].replicas]
    BY DEF Routine, Create, GetOrList, ListThem, EndLoop, UpdateScale, ScaleDown, Update,
           GetScale, Delete, ctlVars
  <2>4. there' \subseteq Controllers
    BY <1>1, <2>2 DEF CtlOK, Controllers
  <2>5. replicas' \in [Actors -> Nat]
    <3>1. work[a].replicas \in Nat
      BY WorkParts DEF TypeInv
    <3> QED
      BY <1>1, <2>1, <2>3, <3>1 DEF CtlOK, DownTo
  <2> QED
    BY <1>0, <2>4, <2>5 DEF CtlOK
<1> QED
  BY <1>2, <1>3, <1>4, <1>5

\* A step of the cluster changes neither what the goroutines hold, but for the
\* versions, nor the managers' views.
LEMMA ClusterTypes ==
  ASSUME TypeInv, UNCHANGED work, Cluster
  PROVE  TypeInv'
<1>0. Actors' = Actors /\ Controllers' = Controllers /\ \A b : Kind(b)' = Kind(b)
  BY DEF Actors, Controllers, Kind
<1>1. GoOK /\ CtlOK /\ PodOK /\ MgrOK /\ CountOK
  BY DEF TypeInv
<1>2. UNCHANGED <<at, step, listed, scale, ctlVars, mgrVars, scaleTimes>>
  BY DEF Cluster, MakePod, WriteStatus, Adopt, StartPod, RemovePod, goVars
<1>3. GoOK'
  <2>1. fresh' = fresh \/ \E c : fresh' = [a \in Actors |-> fresh[a] \ {c}]
    BY DEF Cluster, MakePod, WriteStatus, Adopt, StartPod, RemovePod, goVars
  <2>2. fresh' \in [Actors -> SUBSET Controllers]
    BY <1>1, <2>1 DEF GoOK
  <2> QED
    BY <1>2, <2>2, SameTypes
<1>4. CtlOK' /\ MgrOK'
  BY <1>0, <1>1, <1>2 DEF CtlOK, MgrOK, ctlVars, mgrVars
<1>5. CountOK'
  <2>1. failures' = failures \/ Fail(1)
    BY DEF Cluster, MakePod, WriteStatus, Adopt, StartPod, RemovePod
  <2> QED
    BY <1>1, <1>2, <2>1, BoundsAssumption DEF CountOK, Fail
<1>6. PodOK'
  <2>1. ASSUME NEW c \in Controllers, MakePod(c) PROVE PodOK'
    BY <1>0, <1>1, <2>1, NextPod, ControllersAreActors DEF PodOK, MakePod, NewPod, Running
  <2>2. ASSUME NEW c \in Controllers, WriteStatus(c) PROVE PodOK'
    BY <1>0, <1>1, <2>2 DEF PodOK, WriteStatus, podVars
  <2>3. ASSUME NEW c \in Controllers, NEW p \in Pods, Adopt(c, p) PROVE PodOK'
    BY <1>0, <1>1, <2>3, ControllersAreActors DEF PodOK, Adopt
  <2>4. ASSUME NEW p \in Pods, StartPod(p) PROVE PodOK'
    BY <1>0, <1>1, <2>4 DEF PodOK, StartPod, Running
  <2>5. ASSUME NEW p \in Pods, RemovePod(p) PROVE PodOK'
    BY <1>0, <1>1, <2>5 DEF PodOK, RemovePod, Running
  <2> QED
    BY <2>1, <2>2, <2>3, <2>4, <2>5 DEF Cluster
<1> QED
  BY <1>3, <1>4, <1>5, <1>6 DEF TypeInv

\* The informers and handlers change the managers' views.
LEMMA HandlersTypes ==
  ASSUME TypeInv, UNCHANGED work, Handlers \/ \E p \in Pods : Notify(p)
  PROVE  TypeInv'
<1>0. Actors' = Actors /\ Controllers' = Controllers /\ \A b : Kind(b)' = Kind(b)
  BY DEF Actors, Controllers, Kind
<1>1. GoOK /\ CtlOK /\ PodOK /\ MgrOK /\ CountOK
  BY DEF TypeInv
<1>2. UNCHANGED <<goVars, ctlVars, podVars, scaleTimes, failures>>
  BY DEF Handlers, checkAndUpdate, Notify
<1>3. GoOK'
  BY <1>1, <1>2, SameTypes DEF GoOK, goVars
<1>4. CtlOK' /\ PodOK' /\ CountOK'
  BY <1>0, <1>1, <1>2 DEF CtlOK, PodOK, CountOK, ctlVars, podVars
<1>5. MgrOK'
  <2>1. ASSUME NEW p \in Pods, Notify(p) PROVE MgrOK'
    <3>1. phase[p] \in Running
      BY <2>1 DEF Notify, Alive, Running
    <3> QED
      BY <1>1, <2>1, <3>1 DEF MgrOK, Notify
  <2>2. ASSUME NEW p \in Pods, NEW v \in Running, checkAndUpdate(p, v) PROVE MgrOK'
    <3>1. \A m \in [PodKinds -> SUBSET Pods] : With(m, p) \in [PodKinds -> SUBSET Pods]
      BY DEF With
    <3>2. first' \in [PodKinds -> SUBSET Pods] /\ ready' \in [PodKinds -> SUBSET Pods]
      BY <1>1, <2>2, <3>1 DEF MgrOK, checkAndUpdate, ReadyAfter
    <3>3. /\ told' = told /\ inflight' = [inflight EXCEPT ![p] = @ \ {v}]
      BY <2>2 DEF checkAndUpdate
    <3> QED
      BY <1>1, <3>2, <3>3 DEF MgrOK
  <2> QED
    BY <2>1, <2>2 DEF Handlers, Running
<1> QED
  BY <1>3, <1>4, <1>5 DEF TypeInv

LEMMA TypesHold == Spec => []TypeInv
<1>1. Init => TypeInv
  <2> SUFFICES ASSUME Init PROVE TypeInv
    OBVIOUS
  <2>1. work \in Works
    BY DEF Init
  <2>2. GoOK
    <3>1. \A a \in Actors : Len(work[a].actions) \in Nat
      BY <2>1, WorkParts
    <3>2. [of |-> None, replicas |-> 0] \in Scale
      BY DEF Scale
    <3> QED
      BY <3>1, <3>2 DEF Init, GoOK, Steps
  <2>3. CtlOK
    BY <2>1, WorkParts DEF Init, CtlOK
  <2>4. PodOK
    BY DEF Init, PodOK
  <2>5. MgrOK
    BY DEF Init, MgrOK
  <2>6. CountOK
    BY BoundsAssumption DEF Init, CountOK
  <2> QED
    BY <2>1, <2>2, <2>3, <2>4, <2>5, <2>6 DEF TypeInv
<1>2. TypeInv /\ [Next]_vars => TypeInv'
  <2> SUFFICES ASSUME TypeInv, [Next]_vars PROVE TypeInv'
    OBVIOUS
  <2>1. work' = work /\ Actors' = Actors /\ Controllers' = Controllers /\ \A a : Kind(a)' = Kind(a)
    BY WorkStays
  <2>2. CASE Cluster
    BY <2>1, <2>2, ClusterTypes
  <2>3. CASE Handlers \/ \E p \in Pods : Notify(p)
    BY <2>1, <2>3, HandlersTypes
  <2>4. ASSUME NEW a \in Actors, Routine(a) PROVE TypeInv'
    BY <2>1, <2>4, RoutineTypes, RoutineOthers DEF TypeInv
  <2>5. CASE UNCHANGED vars
    BY <2>1, <2>5, SameTypes
    DEF vars, goVars, ctlVars, podVars, mgrVars, TypeInv, GoOK, CtlOK, PodOK, MgrOK, CountOK
  <2> QED
    BY <2>2, <2>3, <2>4, <2>5 DEF Next
<1> QED
  BY <1>1, <1>2, PTL DEF Spec

\* Every variable has its type: what a goroutine deals with is listed, what is
\* listed or held is a controller, and a handler that runs was started.
THEOREM ReplicasTypes == Spec => []TypeOK
<1>1. TypeInv => TypeOK
  BY DEF TypeInv, GoOK, CtlOK, PodOK, MgrOK, CountOK, TypeOK, Scale, Steps, Running
<1> QED
  BY <1>1, TypesHold, PTL

-----------------------------------------------------------------------------
(* The pods and what is made of them *)

\* No label that the user adds or asks for has a key of K-Bench's own.
KeysOfTheirOwn ==
  \A w \in Works : \A a \in DOMAIN w :
    /\ w[a].key \notin OwnKeys
    /\ \A i \in DOMAIN w[a].actions : w[a].actions[i].LabelKey \notin OwnKeys

\* A pod comes of a controller, which controls it, or of a goroutine that makes pods.
Made(m, o) ==
  NewPod(m, o) /\ ((o = m /\ m \in Controllers) \/ (o = None /\ Kind(m) = "Pod"))

\* The steps that make a difference to the pods or to the managers' views.
LEMMA PodSteps ==
  ASSUME [Next]_vars
  PROVE  \/ UNCHANGED <<podVars, mgrVars>>
         \/ \E m \in Actors, o \in Actors \cup {None} : Made(m, o) /\ UNCHANGED mgrVars
         \/ \E c \in Controllers, p \in Pods : Adopt(c, p)
         \/ \E p \in Pods : StartPod(p) \/ RemovePod(p) \/ Notify(p)
         \/ \E p \in Pods, v \in Running : checkAndUpdate(p, v)
<1> DEFINE Goal == \/ UNCHANGED <<podVars, mgrVars>>
                   \/ \E m \in Actors, o \in Actors \cup {None} :
                        Made(m, o) /\ UNCHANGED mgrVars
                   \/ \E c \in Controllers, p \in Pods : Adopt(c, p)
                   \/ \E p \in Pods : StartPod(p) \/ RemovePod(p) \/ Notify(p)
                   \/ \E p \in Pods, v \in Running : checkAndUpdate(p, v)
<1>1. ASSUME NEW c \in Controllers, MakePod(c) PROVE Goal
  <2>1. Made(c, c) /\ UNCHANGED mgrVars /\ c \in Actors
    BY <1>1, ControllersAreActors DEF MakePod, Made
  <2> QED
    BY <2>1
<1>2. ASSUME NEW c \in Controllers, WriteStatus(c) PROVE Goal
  BY <1>2 DEF WriteStatus
<1>3. ASSUME NEW c \in Controllers, NEW p \in Pods, Adopt(c, p) PROVE Goal
  BY <1>3
<1>4. ASSUME NEW p \in Pods, StartPod(p) \/ RemovePod(p) \/ Notify(p) PROVE Goal
  BY <1>4
<1>5. CASE Handlers
  BY <1>5 DEF Handlers, Running
<1>6. ASSUME NEW a \in Actors, Routine(a) PROVE Goal
  <2>1. CASE Create(a)
    <3>1. UNCHANGED mgrVars
      BY <2>1 DEF Create
    <3>2. UNCHANGED podVars \/ (Kind(a) = "Pod" /\ NewPod(a, None))
      BY <2>1 DEF Create
    <3> QED
      BY <3>1, <3>2 DEF Made
  <2>2. CASE ~Create(a)
    BY <1>6, <2>2
    DEF Routine, GetOrList, ListThem, EndLoop, UpdateScale, ScaleDown, Update, GetScale, Delete
  <2> QED
    BY <2>1, <2>2
<1>7. CASE UNCHANGED vars
  BY <1>7 DEF vars
<1> QED
  BY <1>1, <1>2, <1>3, <1>4, <1>5, <1>6, <1>7 DEF Next, Cluster

\* What is known of a pod is of one that was made, and its labels do not change: a
\* pod that was never used has not been told of, so the next one is new to all.
SeenInv ==
  /\ \A p \in Pods : phase[p] # "unused" => maker[p] \in Actors
  /\ \A p \in Pods : told[p] # {} => phase[p] # "unused"
  /\ \A k \in PodKinds : ready[k] \subseteq first[k]
  /\ \A k \in PodKinds : \A p \in first[k] : phase[p] # "unused" /\ Kind(maker[p]) = k

LEMMA SeenStep ==
  ASSUME KeysOfTheirOwn, TypeInv, SeenInv, [Next]_vars
  PROVE  SeenInv'
<1>0. Actors' = Actors /\ \A b : Kind(b)' = Kind(b)
  BY WorkStays
<1>1. PodOK /\ MgrOK
  BY DEF TypeInv
<1>2. CASE UNCHANGED <<podVars, mgrVars>>
  BY <1>0, <1>2 DEF SeenInv, podVars, mgrVars
<1>3. ASSUME NEW m \in Actors, NEW o, NewPod(m, o), UNCHANGED mgrVars PROVE SeenInv'
  <2>1. PICK q \in Pods :
          /\ phase[q] = "unused"
          /\ phase' = [phase EXCEPT ![q] = "pending"] /\ maker' = [maker EXCEPT ![q] = m]
    BY <1>3, NextPod DEF NewPod
  <2>2. told' = told /\ first' = first /\ ready' = ready
    BY <1>3 DEF mgrVars
  <2>3. \A p \in Pods : phase[p] # "unused" => maker'[p] = maker[p] /\ phase'[p] # "unused"
    BY <1>1, <2>1 DEF PodOK
  <2>4. \A p \in Pods : phase'[p] # "unused" => maker'[p] \in Actors
    BY <1>1, <2>1 DEF PodOK, SeenInv
  <2>5. \A k \in PodKinds : first[k] \subseteq Pods
    BY <1>1 DEF MgrOK
  <2> QED
    BY <1>0, <2>2, <2>3, <2>4, <2>5 DEF SeenInv
<1>4. ASSUME UNCHANGED <<maker, mgrVars>>, NEW p \in Pods, phase[p] # "unused",
             \/ phase' = phase
             \/ \E v \in {"running", "gone"} : phase' = [phase EXCEPT ![p] = v]
      PROVE  SeenInv'
  <2>1. \A q \in Pods : phase'[q] = "unused" <=> phase[q] = "unused"
    BY <1>1, <1>4 DEF PodOK
  <2>2. \A k \in PodKinds : first[k] \subseteq Pods
    BY <1>1 DEF MgrOK
  <2> QED
    BY <1>0, <1>4, <2>1, <2>2 DEF SeenInv, mgrVars
<1>5. ASSUME NEW p \in Pods, Notify(p) PROVE SeenInv'
  <2>1. /\ phase[p] # "unused" /\ UNCHANGED <<podVars, first, ready>>
        /\ \A q \in Pods \ {p} : told'[q] = told[q]
    BY <1>1, <1>5 DEF Notify, Alive, MgrOK
  <2> QED
    BY <1>0, <2>1 DEF SeenInv, podVars
<1>6. ASSUME NEW p \in Pods, NEW v \in Running, checkAndUpdate(p, v) PROVE SeenInv'
  <2>1. phase[p] # "unused" /\ maker[p] \in Actors
    BY <1>1, <1>6 DEF checkAndUpdate, MgrOK, SeenInv
  <2>2. ASSUME NEW k \in Informed(p) PROVE Kind(maker[p]) = k
    <3>1. /\ k \in PodKinds /\ Kind(maker[p]) \in PodKinds
          /\ work[maker[p]].key \notin OwnKeys
          /\ Matches(InformerSelector(k), LabelsOf(maker[p]))
      BY <2>1, WorkParts DEF Informed, Kind, TypeInv, KeysOfTheirOwn, Actors
    <3> QED
      BY <3>1, InformedOfItsKind DEF LabelsOf
  <2>3. UNCHANGED <<podVars, told>> /\ first' = With(first, p) /\ ready' = ReadyAfter(p, v)
    BY <1>6 DEF checkAndUpdate
  <2>4. \A k \in PodKinds :
          /\ first[k] \subseteq first'[k]
          /\ \A q \in first'[k] : q \in first[k] \/ (q = p /\ k \in Informed(p))
          /\ ready'[k] \subseteq first'[k]
    BY <2>3 DEF With, ReadyAfter, SeenInv
  <2>5. \A k \in PodKinds : \A q \in first'[k] : phase[q] # "unused" /\ Kind(maker[q]) = k
    BY <2>1, <2>2, <2>4 DEF SeenInv
  <2> QED
    BY <1>0, <2>3, <2>4, <2>5 DEF SeenInv, podVars
<1> QED
  <2>1. ASSUME NEW c, NEW p \in Pods, Adopt(c, p) PROVE SeenInv'
    BY <1>4, <2>1 DEF Adopt, Alive
  <2>2. ASSUME NEW p \in Pods, StartPod(p) \/ RemovePod(p) PROVE SeenInv'
    BY <1>4, <2>2 DEF StartPod, RemovePod, Alive
  <2> QED
    BY <1>2, <1>3, <1>5, <1>6, <2>1, <2>2, PodSteps DEF Made

\* The statistics of a manager are about the pods made for its kind, as long as no
\* user's label hides the labels the informers look for.
THEOREM OwnStatistics == ASSUME KeysOfTheirOwn PROVE Spec => []OwnPodsOnly
<1>1. Init => SeenInv
  BY DEF Init, SeenInv
<1>2. TypeInv /\ SeenInv /\ [Next]_vars => SeenInv'
  BY SeenStep
<1>3. SeenInv => OwnPodsOnly
  BY DEF SeenInv, OwnPodsOnly
<1> QED
  BY <1>1, <1>2, <1>3, TypesHold, PTL DEF Spec

\* An owner made the pod or took it as one that has none; only plain pods have none.
TakenInv ==
  /\ \A p \in Pods : Alive(p) /\ owner[p] = None => Kind(maker[p]) = "Pod"
  /\ OwnersMade

LEMMA TakenStep ==
  ASSUME KeysOfTheirOwn, TypeInv, SeenInv, TakenInv, [Next]_vars
  PROVE  TakenInv'
<1>0. work' = work /\ Actors' = Actors /\ Controllers' = Controllers /\ \A b : Kind(b)' = Kind(b)
  BY WorkStays
<1>1. PodOK /\ work \in Works
  BY DEF TypeInv
<1> DEFINE Free(p) == Alive(p) /\ owner[p] = None => Kind(maker[p]) = "Pod"
           Owned(p) == owner[p] # None =>
             \/ maker[p] = owner[p]
             \/ /\ Kind(owner[p]) = "ReplicationController" /\ Kind(maker[p]) = "Pod"
                /\ \A f \in {"op", "tid", "ns"} : work[maker[p]][f] = work[owner[p]][f]
<1>2. \A p \in Pods : Free(p) /\ Owned(p)
  BY DEF TakenInv, OwnersMade
<1>3. (\A p \in Pods : (Free(p) /\ Owned(p))') => TakenInv'
  BY DEF TakenInv, OwnersMade
<1>4. ASSUME NEW p \in Pods, UNCHANGED <<maker[p], owner[p]>>, Alive(p)' => Alive(p)
      PROVE  (Free(p) /\ Owned(p))'
  BY <1>0, <1>2, <1>4
<1>5. CASE UNCHANGED podVars
  BY <1>3, <1>4, <1>5 DEF podVars, Alive
<1>6. ASSUME NEW m \in Actors, NEW o \in Actors \cup {None}, Made(m, o) PROVE TakenInv'
  <2>1. PICK q \in Pods :
          /\ phase' = [phase EXCEPT ![q] = "pending"]
          /\ maker' = [maker EXCEPT ![q] = m] /\ owner' = [owner EXCEPT ![q] = o]
    BY <1>6, NextPod DEF Made, NewPod
  <2>2. ASSUME NEW p \in Pods PROVE (Free(p) /\ Owned(p))'
    <3>1. CASE p = q
      <4>1. maker'[q] = m /\ owner'[q] = o /\ m # None
        BY <1>1, <2>1, WorkParts DEF PodOK
      <4>2. o = m \/ (o = None /\ Kind(m) = "Pod")
        BY <1>6 DEF Made
      <4> QED
        BY <1>0, <3>1, <4>1, <4>2
    <3>2. CASE p # q
      BY <1>1, <1>4, <2>1, <3>2 DEF PodOK, Alive
    <3> QED
      BY <3>1, <3>2
  <2> HIDE DEF Free, Owned
  <2> QED
    BY <1>3, <2>2
<1>7. ASSUME NEW c \in Controllers, NEW q \in Pods, Adopt(c, q) PROVE TakenInv'
  <2>1. /\ Alive(q) /\ owner[q] = None /\ Kind(c) = "ReplicationController"
        /\ work[maker[q]].ns = work[c].ns
        /\ Matches(MatchLabels(work[c].op, work[c].tid), LabelsOf(maker[q]))
        /\ owner' = [owner EXCEPT ![q] = c] /\ UNCHANGED <<phase, maker>>
    BY <1>7 DEF Adopt
  <2>2. Kind(maker[q]) = "Pod" /\ maker[q] \in Actors /\ c \in Actors
    BY <1>2, <2>1, ControllersAreActors DEF SeenInv, Alive
  <2>3. Itoa(work[c].op) = Itoa(work[maker[q]].op) /\ Itoa(work[c].tid) = Itoa(work[maker[q]].tid)
    <3>1. work[maker[q]].key \notin OwnKeys /\ Kind(maker[q]) \in PodKinds
      BY <1>1, <2>2 DEF KeysOfTheirOwn, Actors, PodKinds
    <3> QED
      BY <2>1, <3>1, SelectedAlike DEF LabelsOf
  <2>4. work[maker[q]].op = work[c].op /\ work[maker[q]].tid = work[c].tid
    BY <1>1, <2>2, <2>3, ItoaAssumption DEF Actors
  <2>5. ASSUME NEW p \in Pods PROVE (Free(p) /\ Owned(p))'
    <3>1. CASE p = q
      <4>1. owner'[q] = c /\ maker'[q] = maker[q] /\ c # None
        BY <1>1, <2>1, <2>2, WorkParts DEF PodOK
      <4>2. \A f \in {"op", "tid", "ns"} : work[maker[q]][f] = work[c][f]
        BY <2>1, <2>4
      <4> QED
        BY <1>0, <2>1, <2>2, <3>1, <4>1, <4>2
    <3>2. CASE p # q
      BY <1>1, <1>4, <2>1, <3>2 DEF PodOK, Alive
    <3> QED
      BY <3>1, <3>2
  <2> HIDE DEF Free, Owned
  <2> QED
    BY <1>3, <2>5
<1>8. ASSUME NEW q \in Pods, StartPod(q) \/ RemovePod(q) PROVE TakenInv'
  <2>1. UNCHANGED <<maker, owner>>
    BY <1>8 DEF StartPod, RemovePod
  <2>2. \A p \in Pods : Alive(p)' => Alive(p)
    BY <1>1, <1>8 DEF StartPod, RemovePod, Alive, PodOK
  <2> QED
    BY <1>3, <1>4, <2>1, <2>2
<1>9. ASSUME NEW q \in Pods, (Notify(q) \/ \E v \in Running : checkAndUpdate(q, v))
      PROVE  UNCHANGED podVars
  BY <1>9 DEF Notify, checkAndUpdate
<1> HIDE DEF Free, Owned
<1> QED
  BY <1>5, <1>6, <1>7, <1>8, <1>9, PodSteps

\* A controller controls the pods made for it, and a replication controller the plain
\* pods of its operation, goroutine and namespace besides, as long as no user's label
\* hides the labels it looks for.
THEOREM OwnersFound == ASSUME KeysOfTheirOwn PROVE Spec => []OwnersMade
<1>1. Init => SeenInv /\ TakenInv
  BY DEF Init, SeenInv, TakenInv, OwnersMade, Alive
<1>2. TypeInv /\ SeenInv /\ TakenInv /\ [Next]_vars => SeenInv' /\ TakenInv'
  BY SeenStep, TakenStep
<1>3. TakenInv => OwnersMade
  BY DEF TakenInv
<1> QED
  BY <1>1, <1>2, <1>3, TypesHold, PTL DEF Spec

-----------------------------------------------------------------------------
(* Replicas *)

\* A Scale whose version is current has the replicas the object has: who writes them
\* makes every version of it old.
HeldInv ==
  \A a \in Actors : step[a] = "update" /\ scale[a].of \in fresh[a] =>
    scale[a].replicas = replicas[scale[a].of]

\* The object a goroutine has read the Scale of.
LEMMA ScaledAreListed ==
  ASSUME TypeInv, NEW a \in Actors, step[a] = "update"
  PROVE  scale[a].of \in Controllers /\ Kind(scale[a].of) = Kind(a) /\ scale[a].of \in Actors
<1>1. scale[a].of \in listed[a] /\ listed[a] \subseteq Controllers
  BY DEF TypeInv, GoOK
<1> QED
  BY <1>1, ControllersAreActors DEF TypeInv, GoOK

\* The writes of the replicas: one more, counted or not, none at all, and those of a
\* new controller.
OneMore(a) ==
  /\ step[a] = "update" /\ scale[a].of \in fresh[a] /\ scale[a].of \in there
  /\ replicas' = [replicas EXCEPT ![scale[a].of] = scale[a].replicas + 1]
  /\ \/ scaleTimes' = [scaleTimes EXCEPT ![Kind(a)] = @ + 1] /\ UNCHANGED failures
     \/ UNCHANGED scaleTimes /\ failures' = failures + 1

NoneLeft(a) ==
  /\ Is(a, {"delete"}) /\ step[a] = "update"
  /\ replicas' = [replicas EXCEPT ![scale[a].of] = 0]
  /\ UNCHANGED scaleTimes

Anew(a) ==
  /\ a \notin there /\ a \in there'
  /\ replicas' = [replicas EXCEPT ![a] = work[a].replicas]
  /\ UNCHANGED scaleTimes

LEMMA WritesOfReplicas ==
  ASSUME TypeInv, [Next]_vars
  PROVE  /\ failures' \in Nat /\ failures <= failures'
         /\ \/ UNCHANGED <<replicas, scaleTimes>>
            \/ \E a \in Actors :
                 (OneMore(a) \/ NoneLeft(a)) /\ \A b \in Actors : scale[a].of \notin fresh'[b]
            \/ \E a \in Actors : Anew(a) /\ \A b \in Actors : a \notin fresh'[b]
<1> DEFINE Goal ==
      \/ UNCHANGED <<replicas, scaleTimes>>
      \/ \E a \in Actors :
           (OneMore(a) \/ NoneLeft(a)) /\ \A b \in Actors : scale[a].of \notin fresh'[b]
      \/ \E a \in Actors : Anew(a) /\ \A b \in Actors : a \notin fresh'[b]
<1>1. ASSUME NEW c PROVE Outdate(c) => \A b \in Actors : c \notin fresh'[b]
  BY DEF Outdate
<1>2. failures' = failures \/ failures' = failures + 1
  <2>1. CASE Cluster
    BY <2>1 DEF Cluster, MakePod, WriteStatus, Adopt, StartPod, RemovePod, Fail
  <2>2. CASE Handlers \/ \E p \in Pods : Notify(p)
    BY <2>2 DEF Handlers, checkAndUpdate, Notify
  <2>3. ASSUME NEW a \in Actors, Routine(a) PROVE failures' = failures \/ failures' = failures + 1
    BY <2>3 DEF Routine, Create, GetOrList, ListThem, EndLoop, UpdateScale, ScaleDown, Update,
                GetScale, Delete, Fail
  <2>4. CASE UNCHANGED vars
    BY <2>4 DEF vars
  <2> QED
    BY <2>1, <2>2, <2>3, <2>4 DEF Next
<1>3. failures \in Nat
  BY BoundsAssumption DEF TypeInv, CountOK
<1>4. ASSUME NEW a \in Actors, UpdateScale(a) PROVE Goal
  <2> DEFINE c == scale[a].of
  <2>1. CASE UNCHANGED <<replicas, scaleTimes>>
    BY <2>1
  <2>2. CASE ~UNCHANGED <<replicas, scaleTimes>>
    <3>1. /\ step[a] = "update" /\ c \in fresh[a] /\ c \in there /\ Outdate(c)
          /\ replicas' = [replicas EXCEPT ![c] = scale[a].replicas + 1]
      BY <1>4, <2>2 DEF UpdateScale, IsCurrent
    <3>2. \/ scaleTimes' = [scaleTimes EXCEPT ![Kind(a)] = @ + 1] /\ UNCHANGED failures
          \/ UNCHANGED scaleTimes /\ failures' = failures + 1
      BY <1>4, <2>2 DEF UpdateScale, Fail
    <3> QED
      BY <1>1, <3>1, <3>2 DEF OneMore
  <2> QED
    BY <2>1, <2>2
<1>5. ASSUME NEW a \in Actors, ScaleDown(a) PROVE Goal
  <2>1. CASE UNCHANGED <<replicas, scaleTimes>>
    BY <2>1
  <2>2. CASE ~UNCHANGED <<replicas, scaleTimes>>
    <3>1. /\ Is(a, {"delete"}) /\ step[a] = "update" /\ Outdate(scale[a].of)
          /\ replicas' = [replicas EXCEPT ![scale[a].of] = DownTo(a)] /\ UNCHANGED scaleTimes
      BY <1>5, <2>2 DEF ScaleDown
    <3> QED
      BY <1>1, <3>1 DEF NoneLeft, DownTo
  <2> QED
    BY <2>1, <2>2
<1>6. ASSUME NEW a \in Actors, Routine(a) PROVE Goal
  <2>1. CASE ~UpdateScale(a) /\ ~ScaleDown(a) /\ ~Create(a)
    BY <1>6, <2>1
    DEF Routine, GetOrList, ListThem, EndLoop, Update, GetScale, Delete, ctlVars
  <2>2. CASE Create(a)
    <3>1. CASE UNCHANGED <<ctlVars, fresh>>
      BY <2>2, <3>1 DEF Create, ctlVars
    <3>2. CASE ~UNCHANGED <<ctlVars, fresh>>
      <4>1. /\ a \notin there /\ there' = there \cup {a} /\ Outdate(a)
            /\ replicas' = [replicas EXCEPT ![a] = work[a].replicas] /\ UNCHANGED scaleTimes
        BY <2>2, <3>2 DEF Create
      <4> QED
        BY <1>1, <4>1 DEF Anew
    <3> QED
      BY <3>1, <3>2
  <2> QED
    BY <1>4, <1>5, <2>1, <2>2
<1>7. Cluster => UNCHANGED <<replicas, scaleTimes>>
  BY DEF Cluster, MakePod, WriteStatus, Adopt, StartPod, RemovePod, ctlVars
<1>8. Handlers \/ (\E p \in Pods : Notify(p)) => UNCHANGED <<replicas, scaleTimes>>
  BY DEF Handlers, checkAndUpdate, Notify, ctlVars
<1>9. UNCHANGED vars => UNCHANGED <<replicas, scaleTimes>>
  BY DEF vars, ctlVars
<1>10. Goal
  BY <1>6, <1>7, <1>8, <1>9 DEF Next
<1> QED
  BY <1>2, <1>3, <1>10

\* What a step does to the versions held and the Scales read.
LEMMA HoldsAfter ==
  ASSUME TypeInv, [Next]_vars, NEW b \in Actors, step'[b] = "update", scale'[b].of \in fresh'[b]
  PROVE  \/ step[b] = "update" /\ scale'[b] = scale[b] /\ scale[b].of \in fresh[b]
         \/ UNCHANGED replicas /\ scale'[b].replicas = replicas[scale'[b].of]
<1> DEFINE Goal == \/ step[b] = "update" /\ scale'[b] = scale[b] /\ scale[b].of \in fresh[b]
                   \/ UNCHANGED replicas /\ scale'[b].replicas = replicas[scale'[b].of]
<1>0. /\ step \in [Actors -> Steps] /\ fresh \in [Actors -> SUBSET Controllers]
      /\ scale \in [Actors -> Scale]
  BY DEF TypeInv, GoOK
<1>1. ASSUME UNCHANGED <<step, scale>>, fresh'[b] \subseteq fresh[b] PROVE Goal
  BY <1>1
<1>2. ASSUME NEW a \in Actors, Routine(a) PROVE Goal
  <2>1. CASE b # a
    <3>1. step'[b] = step[b] /\ scale'[b] = scale[b]
      BY <1>0, <1>2, <2>1
      DEF Routine, Create, GetOrList, ListThem, EndLoop, UpdateScale, ScaleDown, Update,
          GetScale, Delete, Return, Advance
    <3>2. fresh'[b] \subseteq fresh[b]
      BY <1>0, <1>2, <2>1
      DEF Routine, Create, GetOrList, ListThem, EndLoop, UpdateScale, ScaleDown, Update,
          GetScale, Delete, Outdate
    <3> QED
      BY <3>1, <3>2
  <2>2. CASE b = a
    <3>1. ~Return(a) /\ \A c : ~Advance(a, c)
      BY <1>0, <2>2 DEF Return, Advance
    <3>2. PICK c \in Controllers : GetScale(a, c)
      BY <1>0, <1>2, <2>2, <3>1
      DEF Routine, Create, GetOrList, ListThem, EndLoop, UpdateScale, ScaleDown, Update, Delete
    <3>3. scale' = [scale EXCEPT ![a] = [of |-> c, replicas |-> replicas[c]]] /\ UNCHANGED ctlVars
      BY <3>1, <3>2 DEF GetScale
    <3> QED
      BY <1>0, <2>2, <3>3 DEF ctlVars
  <2> QED
    BY <2>1, <2>2
<1>3. CASE Cluster
  BY <1>0, <1>1, <1>3 DEF Cluster, MakePod, WriteStatus, Adopt, StartPod, RemovePod, goVars
<1>4. CASE Handlers \/ \E p \in Pods : Notify(p)
  BY <1>1, <1>4 DEF Handlers, checkAndUpdate, Notify, goVars
<1>5. CASE UNCHANGED vars
  BY <1>1, <1>5 DEF vars, goVars
<1> QED
  BY <1>2, <1>3, <1>4, <1>5 DEF Next

LEMMA HeldStep ==
  ASSUME TypeInv, HeldInv, [Next]_vars
  PROVE  HeldInv'
<1>1. Actors' = Actors
  BY WorkStays
<1>2. ASSUME NEW b \in Actors, step'[b] = "update", scale'[b].of \in fresh'[b]
      PROVE  scale'[b].replicas = replicas'[scale'[b].of]
  <2>1. CASE UNCHANGED replicas /\ scale'[b].replicas = replicas[scale'[b].of]
    BY <2>1
  <2>2. CASE step[b] = "update" /\ scale'[b] = scale[b] /\ scale[b].of \in fresh[b]
    <3>1. scale[b].replicas = replicas[scale[b].of] /\ scale[b].of \in Actors
      BY <2>2, ScaledAreListed DEF HeldInv
    <3>2. replicas'[scale[b].of] = replicas[scale[b].of]
      <4>1. CASE UNCHANGED replicas
        BY <4>1
      <4>2. ASSUME NEW c, \E n : replicas' = [replicas EXCEPT ![c] = n],
                   \A d \in Actors : c \notin fresh'[d]
            PROVE  replicas'[scale[b].of] = replicas[scale[b].of]
        <5>1. c # scale[b].of
          BY <1>2, <2>2, <4>2
        <5> QED
          BY <3>1, <4>2, <5>1 DEF TypeInv, CtlOK
      <4>3. ASSUME NEW a \in Actors, OneMore(a) \/ NoneLeft(a),
                   \A d \in Actors : scale[a].of \notin fresh'[d]
            PROVE  replicas'[scale[b].of] = replicas[scale[b].of]
        <5>1. \E c : c = scale[a].of /\ \E n : replicas' = [replicas EXCEPT ![c] = n]
          BY <4>3 DEF OneMore, NoneLeft
        <5> QED
          BY <4>2, <4>3, <5>1
      <4>4. ASSUME NEW a \in Actors, Anew(a), \A d \in Actors : a \notin fresh'[d]
            PROVE  replicas'[scale[b].of] = replicas[scale[b].of]
        <5>1. \E n : replicas' = [replicas EXCEPT ![a] = n]
          BY <4>4 DEF Anew
        <5> QED
          BY <4>2, <4>4, <5>1
      <4> QED
        BY <4>1, <4>3, <4>4, WritesOfReplicas
    <3> QED
      BY <2>2, <3>1, <3>2
  <2> QED
    BY <1>2, <2>1, <2>2, HoldsAfter
<1> QED
  BY <1>1, <1>2 DEF HeldInv

\* No controller of the kind is ever deleted.
KeptAll(k) ==
  \A c \in ControllersOf(k) : \A i \in DOMAIN work[c].actions :
    work[c].actions[i].act # "delete"

Counted(k) ==
  /\ IsFiniteSet(Added(k))
  /\ scaleTimes[k] <= Cardinality(Added(k)) /\ Cardinality(Added(k)) <= scaleTimes[k] + failures
  /\ \A c \in ControllersOf(k) : work[c].replicas <= replicas[c]

\* A controller that is still to be created has the replicas it is configured with.
Untouched(k) ==
  \A c \in ControllersOf(k) : c \notin there => replicas[c] = work[c].replicas

ScaleInv == HeldInv /\ \A k \in PodKinds : KeptAll(k) => Counted(k) /\ Untouched(k)

\* One replica more adds one to those of its kind.
LEMMA AddedOne ==
  ASSUME TypeInv, UNCHANGED work, NEW c \in Controllers, work[c].replicas <= replicas[c],
         replicas' = [replicas EXCEPT ![c] = replicas[c] + 1], NEW k, k = Kind(c)
  PROVE  /\ Added(k)' = Added(k) \cup {<<c, replicas[c] + 1>>}
         /\ <<c, replicas[c] + 1>> \notin Added(k)
<1>0. c \in Actors /\ ControllersOf(k)' = ControllersOf(k) /\ ControllersOf(k) \subseteq Actors
  BY DEF Controllers, ControllersOf, Kind, Actors
<1>1. /\ replicas \in [Actors -> Nat] /\ work[c].replicas \in Nat
      /\ \A d \in Actors : replicas'[d] = IF d = c THEN replicas[c] + 1 ELSE replicas[d]
  BY <1>0, WorkParts DEF TypeInv, CtlOK
<1> DEFINE Of(d) == {d} \X (work[d].replicas + 1 .. replicas[d])
           OfNew(d) == {d} \X (work[d].replicas + 1 .. replicas'[d])
<1>2. Added(k) = UNION {Of(d) : d \in ControllersOf(k)}
  BY DEF Added
<1>3. Added(k)' = UNION {OfNew(d) : d \in ControllersOf(k)}
  BY <1>0 DEF Added
<1>4. \A d \in ControllersOf(k) : d # c => OfNew(d) = Of(d)
  BY <1>0, <1>1
<1>5. OfNew(c) = Of(c) \cup {<<c, replicas[c] + 1>>} /\ <<c, replicas[c] + 1>> \notin Of(c)
  <2>1. /\ work[c].replicas + 1 .. replicas'[c]
             = (work[c].replicas + 1 .. replicas[c]) \cup {replicas[c] + 1}
        /\ replicas[c] + 1 \notin work[c].replicas + 1 .. replicas[c]
    BY <1>0, <1>1
  <2> QED
    BY <2>1
<1>6. \A d : d # c => <<c, replicas[c] + 1>> \notin Of(d)
  OBVIOUS
<1>7. c \in ControllersOf(k)
  BY DEF ControllersOf
<1> HIDE DEF Of, OfNew
<1> QED
  BY <1>2, <1>3, <1>4, <1>5, <1>6, <1>7

\* A goroutine that deletes is of a kind of which not all are kept.
LEMMA DeletersKind ==
  ASSUME TypeInv, NEW a \in Actors, Is(a, {"delete"}), NEW k, KeptAll(k), k # "Pod"
  PROVE  Kind(a) # k
<1>1. Len(work[a].actions) \in Nat /\ DOMAIN work[a].actions = 1 .. Len(work[a].actions)
  BY WorkParts DEF TypeInv
<1>2. at[a] \in 1 .. Len(work[a].actions) + 1 /\ at[a] \in Nat
  BY DEF TypeInv, GoOK
<1>3. at[a] \in DOMAIN work[a].actions /\ work[a].actions[at[a]].act = "delete"
  BY <1>1, <1>2 DEF Is, Done, Current
<1> QED
  BY <1>3 DEF KeptAll, ControllersOf, Controllers

\* A kind that no goroutine deletes keeps its controllers.
LEMMA KeptAllStay ==
  ASSUME TypeInv, [Next]_vars, NEW k, KeptAll(k)
  PROVE  \A c \in ControllersOf(k) : c \notin there' => c \notin there
<1>1. ASSUME NEW a \in Actors, NEW d \in Controllers, Delete(a, d), NEW c \in ControllersOf(k)
      PROVE  c \notin there' => c \notin there
  <2>1. Kind(d) = Kind(a)
    BY <1>1 DEF Delete, TypeInv, GoOK
  <2>2. Kind(c) = k /\ k # "Pod"
    BY DEF ControllersOf, Controllers
  <2>3. Kind(a) # k
    BY <1>1, <2>2, DeletersKind DEF Delete
  <2> QED
    BY <1>1, <2>1, <2>2, <2>3 DEF Delete
<1>2. ASSUME NEW a \in Actors, Routine(a), NEW c \in ControllersOf(k)
      PROVE  c \notin there' => c \notin there
  <2>1. CASE \E d \in Controllers : Delete(a, d)
    BY <1>1, <2>1
  <2>2. CASE ~\E d \in Controllers : Delete(a, d)
    <3>1. there \subseteq there'
      BY <1>2, <2>2
      DEF Routine, Create, GetOrList, ListThem, EndLoop, UpdateScale, ScaleDown, Update,
          GetScale, ctlVars
    <3> QED
      BY <3>1
  <2> QED
    BY <2>1, <2>2
<1>3. Cluster => there' = there
  BY DEF Cluster, MakePod, WriteStatus, Adopt, StartPod, RemovePod, ctlVars
<1>4. Handlers \/ (\E p \in Pods : Notify(p)) => there' = there
  BY DEF Handlers, checkAndUpdate, Notify, ctlVars
<1>5. UNCHANGED vars => there' = there
  BY DEF vars, ctlVars
<1> QED
  BY <1>2, <1>3, <1>4, <1>5 DEF Next

LEMMA ScaleStep ==
  ASSUME TypeInv, ScaleInv, [Next]_vars
  PROVE  ScaleInv'
<1>0. /\ work' = work /\ Actors' = Actors /\ Controllers' = Controllers
      /\ \A b : Kind(b)' = Kind(b)
  BY WorkStays
<1>1. \A k : ControllersOf(k)' = ControllersOf(k) /\ KeptAll(k)' = KeptAll(k)
  BY <1>0 DEF ControllersOf, KeptAll
<1>2. /\ failures \in Nat /\ failures' \in Nat /\ failures <= failures'
      /\ scaleTimes \in [PodKinds -> Nat] /\ replicas \in [Actors -> Nat]
  BY WritesOfReplicas, BoundsAssumption DEF TypeInv, CountOK, CtlOK
<1>3. ASSUME NEW k \in PodKinds, KeptAll(k) PROVE Counted(k)'
  <2>0. Counted(k) /\ Cardinality(Added(k)) \in Nat /\ Untouched(k)
    BY <1>3, FS_CardinalityType DEF ScaleInv, Counted
  <2>1. CASE UNCHANGED <<replicas, scaleTimes>>
    <3>1. Added(k)' = Added(k)
      BY <1>0, <1>1, <2>1 DEF Added
    <3> QED
      BY <1>0, <1>1, <1>2, <2>0, <2>1, <3>1 DEF Counted
  <2>2. ASSUME NEW a \in Actors, OneMore(a) PROVE Counted(k)'
    <3> DEFINE c == scale[a].of
    <3>1. /\ c \in Controllers /\ c \in Actors /\ Kind(c) = Kind(a)
          /\ scale[a].replicas = replicas[c]
      BY <2>2, ScaledAreListed DEF OneMore, ScaleInv, HeldInv
    <3>2. replicas' = [replicas EXCEPT ![c] = replicas[c] + 1]
      BY <2>2, <3>1 DEF OneMore
    <3> HIDE DEF c
    <3>3. CASE k = Kind(c)
      <4>1. work[c].replicas <= replicas[c]
        BY <2>0, <3>1, <3>3 DEF Counted, ControllersOf
      <4>2. /\ Added(k)' = Added(k) \cup {<<c, replicas[c] + 1>>}
            /\ <<c, replicas[c] + 1>> \notin Added(k)
        BY <1>0, <3>1, <3>2, <3>3, <4>1, AddedOne
      <4>3. IsFiniteSet(Added(k)') /\ Cardinality(Added(k)') = Cardinality(Added(k)) + 1
        <5>1. LET more == Added(k) \cup {<<c, replicas[c] + 1>>} IN
              IsFiniteSet(more) /\ Cardinality(more) = Cardinality(Added(k)) + 1
          BY <2>0, <4>2, FS_AddElement DEF Counted
        <5> QED
          BY <4>2, <5>1
      <4>4. \/ scaleTimes'[k] = scaleTimes[k] + 1 /\ failures' = failures
            \/ scaleTimes'[k] = scaleTimes[k] /\ failures' = failures + 1
        BY <1>2, <2>2, <3>1, <3>3 DEF OneMore
      <4>5. /\ scaleTimes'[k] <= Cardinality(Added(k)')
            /\ Cardinality(Added(k)') <= scaleTimes'[k] + failures'
        BY <1>2, <2>0, <4>3, <4>4 DEF Counted
      <4>6. \A d \in ControllersOf(k) : work[d].replicas <= replicas'[d]
        <5>1. \A d \in ControllersOf(k) : d \in Actors /\ work[d].replicas \in Nat
          BY WorkParts DEF ControllersOf, Controllers, TypeInv
        <5> QED
          BY <1>2, <2>0, <3>2, <5>1 DEF Counted
      <4> QED
        BY <1>0, <1>1, <4>3, <4>5, <4>6 DEF Counted
    <3>4. CASE k # Kind(c)
      <4>1. \A d \in ControllersOf(k) : d # c /\ d \in Actors
        BY <3>4 DEF ControllersOf, Controllers
      <4>2. \A d \in ControllersOf(k) : replicas'[d] = replicas[d]
        BY <1>2, <3>2, <4>1
      <4>3. Added(k)' = Added(k)
        BY <1>0, <1>1, <4>2 DEF Added
      <4>4. scaleTimes'[k] = scaleTimes[k]
        BY <1>2, <2>2, <3>1, <3>4 DEF OneMore
      <4> QED
        BY <1>0, <1>1, <1>2, <2>0, <4>2, <4>3, <4>4 DEF Counted
    <3> QED
      BY <3>3, <3>4
  <2>3. ASSUME NEW a \in Actors, NoneLeft(a) PROVE Counted(k)'
    <3> DEFINE c == scale[a].of
    <3>1. c \in Controllers /\ c \in Actors /\ Kind(c) = Kind(a)
      BY <2>3, ScaledAreListed DEF NoneLeft
    <3>2. a \in Controllers
      BY <3>1 DEF Controllers
    <3>3. at[a] \in DOMAIN work[a].actions /\ work[a].actions[at[a]].act = "delete"
      <4>1. Len(work[a].actions) \in Nat /\ DOMAIN work[a].actions = 1 .. Len(work[a].actions)
        BY WorkParts DEF TypeInv
      <4>2. at[a] \in 1 .. Len(work[a].actions) + 1 /\ at[a] \in Nat
        BY DEF TypeInv, GoOK
      <4> QED
        BY <2>3, <4>1, <4>2 DEF NoneLeft, Is, Done, Current
    <3>4. k # Kind(c)
      BY <1>3, <3>1, <3>2, <3>3 DEF KeptAll, ControllersOf
    <3>5. replicas' = [replicas EXCEPT ![c] = 0] /\ UNCHANGED scaleTimes
      BY <2>3 DEF NoneLeft
    <3>6. \A d \in ControllersOf(k) : d # c /\ d \in Actors
      BY <3>4 DEF ControllersOf, Controllers
    <3>7. \A d \in ControllersOf(k) : replicas'[d] = replicas[d]
      BY <1>2, <3>5, <3>6
    <3>8. Added(k)' = Added(k)
      BY <1>0, <1>1, <3>7 DEF Added
    <3> QED
      BY <1>0, <1>1, <1>2, <2>0, <3>5, <3>7, <3>8 DEF Counted
  <2>4. ASSUME NEW a \in Actors, Anew(a) PROVE Counted(k)'
    <3>1. \A d \in ControllersOf(k) : d \in Actors /\ (d = a => replicas[d] = work[d].replicas)
      BY <2>0, <2>4 DEF Anew, Untouched, ControllersOf, Controllers
    <3>2. \A d \in ControllersOf(k) : replicas'[d] = replicas[d]
      BY <1>2, <2>4, <3>1 DEF Anew
    <3>3. Added(k)' = Added(k)
      BY <1>0, <1>1, <3>2 DEF Added
    <3> QED
      BY <1>0, <1>1, <1>2, <2>0, <2>4, <3>2, <3>3 DEF Counted, Anew
  <2> QED
    BY <2>1, <2>2, <2>3, <2>4, WritesOfReplicas
<1>4. ASSUME NEW k \in PodKinds, KeptAll(k) PROVE Untouched(k)'
  <2>1. Untouched(k)
    BY <1>4 DEF ScaleInv
  <2>2. \A c \in ControllersOf(k) : c \notin there' => c \notin there
    BY <1>4, KeptAllStay
  <2>3. ASSUME NEW c \in ControllersOf(k), c \notin there'
        PROVE  replicas'[c] = replicas[c]
    <3>0. c \in Actors /\ Kind(c) = k /\ k # "Pod" /\ c \notin there
      BY <2>2, <2>3 DEF ControllersOf, Controllers
    <3>1. ASSUME NEW a \in Actors, OneMore(a) PROVE replicas'[c] = replicas[c]
      BY <1>2, <3>0, <3>1 DEF OneMore
    <3>2. ASSUME NEW a \in Actors, NoneLeft(a) PROVE replicas'[c] = replicas[c]
      <4>1. Kind(scale[a].of) = Kind(a)
        BY <3>2, ScaledAreListed DEF NoneLeft
      <4>2. Kind(a) # k
        BY <1>4, <3>0, <3>2, DeletersKind DEF NoneLeft
      <4> QED
        BY <1>2, <3>0, <3>2, <4>1, <4>2 DEF NoneLeft
    <3>3. ASSUME NEW a \in Actors, Anew(a) PROVE replicas'[c] = replicas[c]
      BY <1>2, <2>3, <3>0, <3>3 DEF Anew
    <3> QED
      BY <3>1, <3>2, <3>3, WritesOfReplicas
  <2> QED
    BY <1>0, <1>1, <2>1, <2>2, <2>3 DEF Untouched
<1> QED
  BY <1>1, <1>3, <1>4, HeldStep DEF ScaleInv

\* No scale that was counted is lost, whoever writes the object at the time; one that
\* was not counted may have been made, and then its answer was lost.
THEOREM ScalesCounted == Spec => []NoScaleLost
<1>1. Init => ScaleInv
  <2> SUFFICES ASSUME Init PROVE ScaleInv
    OBVIOUS
  <2>1. work \in Works
    BY DEF Init
  <2>2. HeldInv
    BY DEF Init, HeldInv
  <2>3. ASSUME NEW k \in PodKinds PROVE Counted(k) /\ Untouched(k)
    <3>1. \A c \in ControllersOf(k) : work[c].replicas \in Nat /\ replicas[c] = work[c].replicas
      BY <2>1, WorkParts DEF Init, ControllersOf, Controllers
    <3>2. \A c \in ControllersOf(k) : work[c].replicas + 1 .. replicas[c] = {}
      BY <3>1
    <3>3. Added(k) = {}
      BY <3>2 DEF Added
    <3>4. IsFiniteSet(Added(k)) /\ Cardinality(Added(k)) = 0
      BY <3>3, FS_EmptySet
    <3>5. scaleTimes[k] = 0 /\ failures = 0
      BY DEF Init
    <3> QED
      BY <3>1, <3>4, <3>5 DEF Counted, Untouched
  <2> QED
    BY <2>2, <2>3 DEF ScaleInv
<1>2. TypeInv /\ ScaleInv /\ [Next]_vars => ScaleInv'
  BY ScaleStep
<1>3. ScaleInv => NoScaleLost
  BY DEF ScaleInv, Counted, KeptAll, NoScaleLost
<1> QED
  BY <1>1, <1>2, <1>3, TypesHold, PTL DEF Spec

-----------------------------------------------------------------------------
(* What an action is for *)

\* What a list request of a returns is what its action is meant for: each label it
\* asks for stands for one of its options.
LEMMA FoundIsMeant ==
  ASSUME KeysOfTheirOwn, TypeInv, NEW a \in Actors, ~Done(a), NEW c \in there
  PROVE  Selects(ActionSpec(a), Object(c)) <=> Meant(a, c)
<1> DEFINE act == Current(a)
           label == updateLabelNs(<<act.LabelKey, act.LabelValue>>, <<work[a].key, work[a].value>>)
           as == ActionSpec(a)
           asked == GetListOptions(as)
           labelled == IsLabel(label[1], label[2])
           given == LabelsOf(c)
<1>1. work \in Works /\ c \in Actors /\ Kind(c) \in PodKinds
  BY ControllersAreActors, WorkParts DEF TypeInv, CtlOK, Kind
<1>2. /\ act \in ActionConfig /\ act.LabelKey \notin OwnKeys /\ work[a].key \notin OwnKeys
      /\ work[c].key \notin OwnKeys
  <2>1. work[a].actions \in Seq(ActionConfig) /\ Len(work[a].actions) \in Nat
    BY <1>1, WorkParts
  <2>2. at[a] \in DOMAIN work[a].actions
    BY <2>1 DEF TypeInv, GoOK, Done
  <2> QED
    BY <1>1, <2>1, <2>2 DEF Current, KeysOfTheirOwn, Actors
<1>3. /\ label[1] \notin OwnKeys
      /\ label = IF IsLabel(act.LabelKey, act.LabelValue) THEN <<act.LabelKey, act.LabelValue>>
                 ELSE <<work[a].key, work[a].value>>
  BY <1>2 DEF updateLabelNs
<1>4. /\ as.Name = a /\ as.Oid = work[a].op /\ as.Tid = work[a].tid
      /\ as.LabelKey = label[1] /\ as.LabelValue = label[2]
      /\ as.MatchOperation = act.MatchOperation /\ as.MatchGoroutine = act.MatchGoroutine
  BY DEF ActionSpec
<1>5. Options(as)
  BY <1>2, <1>3, <1>4 DEF ActionConfig, Options
<1> HIDE DEF act, label, as
<1>6. /\ DOMAIN asked = {} <=>
           (act.MatchOperation = "none" /\ ~act.MatchGoroutine /\ ~labelled)
      /\ Matches(asked, given) <=>
           /\ act.MatchOperation = "current" =>
                "opnum" \in DOMAIN given /\ given["opnum"] = Itoa(work[a].op)
           /\ act.MatchOperation = "all" => "app" \in DOMAIN given /\ given["app"] = AppName
           /\ act.MatchGoroutine => "tid" \in DOMAIN given /\ given["tid"] = Itoa(work[a].tid)
           /\ labelled => label[1] \in DOMAIN given /\ given[label[1]] = label[2]
  <2>1. AskedFor(as, asked)
    BY <1>5, OptionsAskedFor, Zenon
  <2> HIDE DEF asked
  <2> QED
    BY <1>4, <2>1 DEF AskedFor
<1>7. /\ Labelled(given, Kind(c), work[c].op, work[c].tid)
      /\ DOMAIN given = OwnKeys \cup
           (IF IsLabel(work[c].key, work[c].value) THEN {work[c].key} ELSE {})
      /\ IsLabel(work[c].key, work[c].value) => given[work[c].key] = work[c].value
  <2>1. Kind(c) # "Namespace"
    BY <1>1 DEF PodKinds
  <2> QED
    BY <1>2, <2>1, GeneratedLabels DEF LabelsOf
<1> HIDE DEF asked, given
<1>8. /\ "opnum" \in DOMAIN given /\ given["opnum"] = Itoa(work[c].op)
      /\ "tid" \in DOMAIN given /\ given["tid"] = Itoa(work[c].tid)
      /\ "app" \in DOMAIN given /\ given["app"] = AppName
  BY <1>7 DEF Labelled, OwnKeys
<1>9. /\ Itoa(work[c].op) = Itoa(work[a].op) <=> work[c].op = work[a].op
      /\ Itoa(work[c].tid) = Itoa(work[a].tid) <=> work[c].tid = work[a].tid
  BY <1>1, ItoaAssumption DEF Actors
<1>10. labelled =>
         ((label[1] \in DOMAIN given /\ given[label[1]] = label[2])
            <=> (work[c].key = label[1] /\ work[c].value = label[2]))
  BY <1>3, <1>7 DEF IsLabel
<1>11. Matches(asked, given) <=>
         /\ act.MatchOperation = "current" => work[c].op = work[a].op
         /\ act.MatchGoroutine => work[c].tid = work[a].tid
         /\ labelled => work[c].key = label[1] /\ work[c].value = label[2]
  BY <1>6, <1>8, <1>9, <1>10
<1>12. Selects(as, Object(c)) <=> IF DOMAIN asked = {} THEN c = a ELSE Matches(asked, given)
  BY <1>4 DEF Selects, Object, asked, given
<1>13. Meant(a, c) <=>
         IF act.MatchOperation = "none" /\ ~act.MatchGoroutine /\ ~labelled THEN c = a
         ELSE /\ act.MatchOperation = "current" => work[c].op = work[a].op
              /\ act.MatchGoroutine => work[c].tid = work[a].tid
              /\ labelled => work[c].key = label[1] /\ work[c].value = label[2]
  BY <1>3, Zenon DEF Meant, act, IsLabel
<1> QED
  BY <1>6, <1>11, <1>12, <1>13 DEF as

LEMMA ListStep ==
  ASSUME KeysOfTheirOwn, TypeInv, [Next]_vars, NEW a \in Actors,
         step[a] = "begin", step'[a] = "loop"
  PROVE  listed'[a] = {c \in there : Kind(c) = Kind(a) /\ work[c].ns = work[a].ns /\ Meant(a, c)}
<1>0. step \in [Actors -> Steps] /\ listed \in [Actors -> SUBSET Controllers]
  BY DEF TypeInv, GoOK
<1>1. step'[a] # step[a]
  OBVIOUS
<1>2. ~Cluster /\ ~Handlers /\ ~(\E p \in Pods : Notify(p)) /\ ~UNCHANGED vars
  BY <1>1 DEF Cluster, MakePod, WriteStatus, Adopt, StartPod, RemovePod, Handlers, checkAndUpdate,
              Notify, vars, goVars
<1>3. PICK b \in Actors : Routine(b)
  BY <1>2 DEF Next
<1>4. b = a
  BY <1>0, <1>1, <1>3
  DEF Routine, Create, GetOrList, ListThem, EndLoop, UpdateScale, ScaleDown, Update,
      GetScale, Delete, Return, Advance
<1>5. ListThem(a) /\ ~Return(a)
  <2>1. ~Return(a)
    BY <1>0 DEF Return
  <2> QED
    BY <1>3, <1>4, <2>1
    DEF Routine, Create, GetOrList, EndLoop, UpdateScale, ScaleDown, Update, GetScale, Delete
<1>6. listed'[a] = Found(a) /\ ~Done(a)
  BY <1>0, <1>5 DEF ListThem, Is
<1> QED
  BY <1>6, FoundIsMeant DEF Found

\* A list request returns exactly the objects the action is documented to be for, as
\* long as no user's label has a key of K-Bench's own.
THEOREM ListsWhatIsMeant == ASSUME KeysOfTheirOwn PROVE Spec => ListsAsMeant
<1>1. TypeInv /\ [Next]_vars =>
        [\A a \in Actors : step[a] = "begin" /\ step'[a] = "loop" =>
           listed'[a] = {c \in there : Kind(c) = Kind(a) /\ work[c].ns = work[a].ns
                                       /\ Meant(a, c)}]_vars
  BY ListStep
<1> QED
  BY <1>1, TypesHold, PTL DEF Spec, ListsAsMeant

=============================================================================
