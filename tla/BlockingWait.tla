---------------------------- MODULE BlockingWait ----------------------------
(***************************************************************************)
(* The waits between operations when BlockingLevel is "operation": the     *)
(* four calls of waitForPodRelatedOps in Run (util/testdriver.go) and the  *)
(* function itself (util/driver_util.go), for one operation.               *)
(*                                                                         *)
(* Time is what the code adds up: its sleeps of one interval each.  The    *)
(* pods, their readiness and their removal are the cluster's; controllers  *)
(* make pods in their own time.  A manager knows of a pod what its         *)
(* handlers have put into cFirstTimes and cReadyTimes, and its IsStable    *)
(* compares their lengths.                                                 *)
(***************************************************************************)
EXTENDS Integers, Sequences, FiniteSets

CONSTANTS
  Pods,            \* pods that carry the app's labels
  KindOf, OpnumOf, NsOf,   \* their type and opnum labels and their namespaces
  Doomed,          \* the pods the cluster was asked to delete
  Late,            \* pods a controller has yet to make when the waits begin
  Counted,         \* the plain pods whose creation was counted in apiTimes
  OpIdx,           \* the operation's number
  LastActions,     \* what the verbs of the last actions may be, per kind
  Managers,        \* the kinds whose manager exists
  ConfigTimeout, ConfigInterval,   \* Timeout and CheckingInterval, in ms
  ListErrors       \* may the list requests of the driver fail?

PodKinds == {"Pod", "Deployment", "ReplicationController", "StatefulSet"}
WaitOrder == <<"Pod", "Deployment", "ReplicationController", "StatefulSet">>

Of(kind) == {p \in Pods : KindOf[p] = kind}

ASSUME PodsAssumption ==
  /\ IsFiniteSet(Pods)
  /\ KindOf \in [Pods -> PodKinds] /\ OpnumOf \in [Pods -> Nat]
  /\ Doomed \subseteq Pods /\ OpIdx \in Nat
  /\ Late \subseteq Pods \ Of("Pod") /\ Counted \subseteq Of("Pod")
ASSUME ConfigAssumption ==
  /\ LastActions \subseteq [PodKinds -> STRING] /\ Managers \subseteq PodKinds
  /\ ConfigTimeout \in Int /\ ConfigInterval \in Int
  /\ ListErrors \in BOOLEAN

defaultInterval == 3000
defaultTimeout  == 1000000

\* Settings below a second are not accepted.
timeout  == IF ConfigTimeout >= 1000 THEN ConfigTimeout ELSE defaultTimeout
interval == IF ConfigInterval >= 1000 THEN ConfigInterval ELSE defaultInterval

VARIABLES
  lastAction,  \* the verb of the operation's last action, per kind
  pc,          \* "pick" a kind, "poll" for it, "force" its deletion, "over"
  kindIdx,     \* the kind whose turn it is
  waited,      \* totalWait of waitForPodRelatedOps
  totalWait,   \* totalWait of Run
  failed,      \* history: the kinds whose wait a failed request has ended
  late,        \* the pods that are still to be made
  exist,       \* the pods in the cluster
  ready,       \* the pods that have become ready
  cFirst,      \* the pods in the managers' cFirstTimes
  cReady       \* the pods in the managers' cReadyTimes

driverVars  == <<pc, kindIdx, waited, totalWait, failed>>
clusterVars == <<late, exist, ready>>
viewVars    == <<cFirst, cReady>>
vars == <<lastAction, driverVars, clusterVars, viewVars>>

Kind == WaitOrder[kindIdx]

-----------------------------------------------------------------------------
(* The cluster, and the handlers of its notifications *)

\* A controller makes a pod, be it itself deleted by now or not.
Appear(p) ==
  /\ p \in late
  /\ late' = late \ {p}
  /\ exist' = exist \cup {p}
  /\ UNCHANGED <<lastAction, driverVars, ready, viewVars>>

BecomeReady(p) ==
  /\ p \in exist \ ready
  /\ ready' = ready \cup {p}
  /\ UNCHANGED <<lastAction, driverVars, late, exist, viewVars>>

Vanish(p) ==
  /\ p \in exist \cap Doomed
  /\ exist' = exist \ {p}
  /\ UNCHANGED <<lastAction, driverVars, late, ready, viewVars>>

\* A handler of a notification about p, which the informer of its kind's manager got
\* while p was in the cluster: it may be told of an old version, and run when p is gone.
checkAndUpdate(p) ==
  /\ KindOf[p] \in Managers /\ p \notin late
  /\ cFirst' = cFirst \cup {p}
  /\ cReady' \in {cReady, cReady \cup ({p} \cap ready)}
  /\ UNCHANGED <<lastAction, driverVars, clusterVars>>

-----------------------------------------------------------------------------
(* The managers *)

\* Every counted create has its ready pod, by their numbers.
PodIsStable == Cardinality(cReady \cap Of("Pod")) = Cardinality(Counted)

\* The other managers count the pods they have seen, of which there must be one.
IsStable(kind) ==
  /\ Cardinality(cReady \cap Of(kind)) # 0
  /\ Cardinality(cReady \cap Of(kind)) = Cardinality(cFirst \cap Of(kind))

-----------------------------------------------------------------------------
(* The driver *)

\* Mutant: a later kind is waited for whatever has been waited already.
TimeLeftAlways == TRUE

\* Run calls waitForPodRelatedOps for the first kind, and for another one while
\* the waits for the earlier ones took less than the timeout.
TimeLeft == totalWait < timeout

PickKind ==
  /\ pc = "pick" /\ kindIdx <= Len(WaitOrder)
  /\ \/ /\ kindIdx = 1 \/ TimeLeft
        /\ pc' = "poll" /\ waited' = 0
        /\ UNCHANGED kindIdx
     \/ /\ ~(kindIdx = 1 \/ TimeLeft)
        /\ kindIdx' = kindIdx + 1
        /\ UNCHANGED <<pc, waited>>
  /\ UNCHANGED <<lastAction, totalWait, failed, clusterVars, viewVars>>

MoveOn ==
  /\ pc = "pick" /\ kindIdx > Len(WaitOrder)
  /\ pc' = "over"
  /\ UNCHANGED <<lastAction, kindIdx, waited, totalWait, failed, clusterVars, viewVars>>

\* Mutant: the next kind is polled without a look at the time left.
ReturnToPoll ==
  /\ totalWait' = totalWait + waited
  /\ waited' = 0
  /\ kindIdx' = kindIdx + 1
  /\ pc' = "poll"

\* waitForPodRelatedOps returns and Run adds up.
Return ==
  /\ totalWait' = totalWait + waited
  /\ waited' = 0
  /\ kindIdx' = kindIdx + 1
  /\ pc' = "pick"

\* Mutant: the sleep is not added up.
SleepUncounted == UNCHANGED <<pc, kindIdx, waited, totalWait>>

\* A sleep of one interval.
Sleep ==
  /\ waited' = waited + interval
  /\ UNCHANGED <<pc, kindIdx, totalWait>>

\* Mutant: the pods are selected by their type only when there is a manager.
ListedIfManaged(kind) ==
  {p \in exist : KindOf[p] = kind /\ OpnumOf[p] = OpIdx /\ kind \in Managers}

\* The selector of the list request: this operation's pods of the kind.
Listed(kind) == {p \in exist : KindOf[p] = kind /\ OpnumOf[p] = OpIdx}

\* Polling after a DELETE: sleep while pods are listed, at most for the timeout. The
\* list is empty after an error, which is ignored.
PollDeletion ==
  /\ pc = "poll" /\ lastAction[Kind] = "delete"
  /\ \/ /\ waited < timeout
        /\ IF Listed(Kind) # {} THEN Sleep ELSE Return
        /\ UNCHANGED failed
     \/ /\ waited < timeout /\ ListErrors
        /\ Return
        /\ failed' = failed \cup {Kind}
     \/ /\ waited >= timeout
        /\ pc' = "force"
        /\ UNCHANGED <<kindIdx, waited, totalWait, failed>>
  /\ UNCHANGED <<lastAction, clusterVars, viewVars>>

\* After the timeout the pods still listed in the first one's namespace are
\* deleted with no grace period; the request's error is ignored.
ForceDeletion ==
  /\ pc = "force"
  /\ \/ /\ Listed(Kind) = {} \/ ListErrors
        /\ UNCHANGED exist
     \/ \E p \in Listed(Kind) :
          exist' \in {exist, exist \ {q \in Listed(Kind) : NsOf[q] = NsOf[p]}}
  /\ Return
  /\ UNCHANGED <<lastAction, failed, late, ready, viewVars>>

\* Mutant: a kind none of whose pods was seen is taken for stable.
SettledUnseen ==
  IF Kind = "Pod" THEN PodIsStable
  ELSE Cardinality(cReady \cap Of(Kind)) = Cardinality(cFirst \cap Of(Kind))

\* The loop's condition to stop before the timeout: the manager is stable.
Settled == IF Kind = "Pod" THEN PodIsStable ELSE IsStable(Kind)

\* Polling after a CREATE: sleep while the manager is not stable.
PollCreation ==
  /\ pc = "poll" /\ lastAction[Kind] = "create" /\ Kind \in Managers
  /\ IF waited < timeout /\ ~Settled THEN Sleep ELSE Return
  /\ UNCHANGED <<lastAction, failed, clusterVars, viewVars>>

\* Nothing is waited for after any other last action, or without a manager.
PollNothing ==
  /\ pc = "poll" /\ lastAction[Kind] # "delete"
  /\ lastAction[Kind] # "create" \/ Kind \notin Managers
  /\ Return
  /\ UNCHANGED <<lastAction, failed, clusterVars, viewVars>>

Driver ==
  PickKind \/ MoveOn \/ PollDeletion \/ ForceDeletion \/ PollCreation \/ PollNothing

\* The goroutines of the operation have ended. How far the cluster and the handlers
\* are by now is left to their steps, which may precede any of the driver.
Init ==
  /\ lastAction \in LastActions
  /\ pc = "pick" /\ kindIdx = 1
  /\ waited = 0 /\ totalWait = 0 /\ failed = {}
  /\ late = Late /\ exist = Pods \ Late
  /\ ready = {} /\ cFirst = {} /\ cReady = {}

Next ==
  \/ Driver
  \/ \E p \in Pods : Appear(p) \/ BecomeReady(p) \/ Vanish(p) \/ checkAndUpdate(p)

Spec == Init /\ [][Next]_vars

\* The main goroutine goes on; nothing is assumed of the cluster.
FairSpec == Spec /\ WF_vars(Driver)

-----------------------------------------------------------------------------
(* Properties *)

TypeOK ==
  /\ pc \in {"pick", "poll", "force", "over"}
  /\ kindIdx \in 1 .. Len(WaitOrder) + 1
  /\ pc \in {"poll", "force"} => kindIdx <= Len(WaitOrder)
  /\ waited \in Nat /\ totalWait \in Nat
  /\ lastAction \in LastActions /\ failed \subseteq PodKinds
  /\ late \subseteq Late /\ exist \subseteq Pods \ late
  /\ ready \subseteq Pods /\ cReady \subseteq cFirst \cap ready /\ cFirst \subseteq Pods

\* The time waited after an operation is bounded whatever the cluster does: less
\* than twice the timeout and one interval, for the four kinds together.
WaitBounded == totalWait + waited < 2 * timeout + interval

\* What is left to wait for of a kind by what its last action was: after a DELETE the
\* operation's pods that were there, unless a failed request ended the wait; after a
\* CREATE the plain pods, and of a controller's pods a first one.
Outstanding(kind) ==
  \/ /\ lastAction[kind] = "delete" /\ kind \notin failed
     /\ \E p \in exist \ Late : KindOf[p] = kind /\ OpnumOf[p] = OpIdx
  \/ /\ lastAction[kind] = "create" /\ kind \in Managers
     /\ IF kind = "Pod" THEN Counted = Of("Pod") /\ ~(Of("Pod") \subseteq ready)
        ELSE Of(kind) \cap ready = {}

\* "the benchmark waits (for pod creation and deletion) until the previous operation is
\* completely done", as far as that is true: when the driver moves on without having
\* timed out, nothing is outstanding. Pods a controller makes later, the pods of other
\* operations and what earlier actions of a kind did are not waited for.
PreviousOperationDone ==
  pc = "over" /\ totalWait < timeout => \A kind \in PodKinds : ~Outstanding(kind)

\* The driver moves on, even when the cluster does nothing.
MovesOn == <>(pc = "over")

=============================================================================
