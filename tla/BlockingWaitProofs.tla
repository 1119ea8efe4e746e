------------------------- MODULE BlockingWaitProofs -------------------------
(***************************************************************************)
(* The bound on the time waited after an operation, and what the driver    *)
(* knows when it moves on, for every timeout, interval, set of pods and    *)
(* behaviour of the cluster.                                               *)
(***************************************************************************)
EXTENDS BlockingWait, FiniteSetTheorems, TLAPS

\* While a kind is polled the earlier ones left time, and the loop's last sleep
\* began before the timeout; between polls only the sum of two such waits is
\* left, which is what makes WaitBounded inductive.
WaitInv ==
  /\ TypeOK
  /\ kindIdx = 1 => totalWait = 0
  /\ pc \in {"pick", "over"} => waited = 0
  /\ pc \in {"poll", "force"} => totalWait < timeout /\ waited < timeout + interval
  /\ totalWait < 2 * timeout + interval

\* The settings that come into force are positive.
LEMMA SettingsPositive ==
  /\ timeout \in Nat /\ timeout > 0
  /\ interval \in Nat /\ interval > 0
BY ConfigAssumption DEF timeout, interval, defaultTimeout, defaultInterval

LEMMA FourKinds == Len(WaitOrder) = 4
BY DEF WaitOrder

\* What a poll leaves of the cluster: a forced deletion only removes pods.
ClusterStep ==
  /\ UNCHANGED <<lastAction, cFirst, cReady>>
  /\ late' = late /\ exist' \subseteq exist /\ ready' = ready

\* Returning from a poll keeps the invariant: less than a timeout has been waited
\* before it, and less than a timeout and an interval in it.
LEMMA ReturnKeepsInv ==
  ASSUME WaitInv, pc \in {"poll", "force"}, Return, ClusterStep,
         failed' \in {failed, failed \cup {Kind}}
  PROVE  WaitInv'
<1>1. Kind \in PodKinds
  BY FourKinds DEF WaitInv, TypeOK, Kind, WaitOrder, PodKinds
<1> QED
  BY <1>1, SettingsPositive, FourKinds
  DEF WaitInv, TypeOK, Return, ClusterStep, timeout, interval

LEMMA SleepKeepsInv ==
  ASSUME WaitInv, pc = "poll", waited < timeout, Sleep, ClusterStep, failed' = failed
  PROVE  WaitInv'
BY SettingsPositive, FourKinds DEF WaitInv, TypeOK, Sleep, ClusterStep, timeout, interval

\* Every step keeps the invariant.
LEMMA WaitInvInductive == WaitInv /\ [Next]_vars => WaitInv'
<1> SUFFICES ASSUME WaitInv, [Next]_vars PROVE WaitInv'
  OBVIOUS
<1> USE SettingsPositive, FourKinds
<1>1. CASE PickKind
  BY <1>1 DEF WaitInv, TypeOK, PickKind, TimeLeft, clusterVars, viewVars, timeout, interval
<1>2. CASE MoveOn
  BY <1>2 DEF WaitInv, TypeOK, MoveOn, clusterVars, viewVars, timeout, interval
<1>3. CASE PollDeletion
  <2>0. ClusterStep /\ pc = "poll"
    BY <1>3 DEF PollDeletion, ClusterStep, clusterVars, viewVars
  <2>1. CASE waited < timeout /\ Sleep /\ UNCHANGED failed
    BY <2>0, <2>1, SleepKeepsInv
  <2>2. CASE Return /\ failed' \in {failed, failed \cup {Kind}}
    BY <2>0, <2>2, ReturnKeepsInv
  <2>3. CASE pc' = "force" /\ UNCHANGED <<kindIdx, waited, totalWait, failed>>
    BY <2>0, <2>3 DEF WaitInv, TypeOK, ClusterStep, timeout, interval
  <2> QED
    BY <1>3, <2>1, <2>2, <2>3 DEF PollDeletion
<1>4. CASE ForceDeletion
  <2>1. ClusterStep
    BY <1>4 DEF ForceDeletion, ClusterStep, viewVars
  <2> QED
    BY <1>4, <2>1, ReturnKeepsInv DEF ForceDeletion
<1>5. CASE PollCreation
  <2>1. ClusterStep /\ pc = "poll" /\ failed' = failed
    BY <1>5 DEF PollCreation, ClusterStep, clusterVars, viewVars
  <2> QED
    BY <1>5, <2>1, SleepKeepsInv, ReturnKeepsInv DEF PollCreation
<1>6. CASE PollNothing
  <2>1. ClusterStep /\ pc = "poll" /\ failed' = failed
    BY <1>6 DEF PollNothing, ClusterStep, clusterVars, viewVars
  <2> QED
    BY <1>6, <2>1, ReturnKeepsInv DEF PollNothing
<1>7. ASSUME NEW p \in Pods, Appear(p) PROVE WaitInv'
  BY <1>7 DEF WaitInv, TypeOK, Appear, driverVars, viewVars, timeout, interval
<1>8. ASSUME NEW p \in Pods, BecomeReady(p) PROVE WaitInv'
  BY <1>8 DEF WaitInv, TypeOK, BecomeReady, driverVars, viewVars, timeout, interval
<1>9. ASSUME NEW p \in Pods, Vanish(p) PROVE WaitInv'
  BY <1>9 DEF WaitInv, TypeOK, Vanish, driverVars, viewVars, timeout, interval
<1>10. ASSUME NEW p \in Pods, checkAndUpdate(p) PROVE WaitInv'
  BY <1>10 DEF WaitInv, TypeOK, checkAndUpdate, driverVars, clusterVars, timeout, interval
<1>11. CASE UNCHANGED vars
  BY <1>11 DEF WaitInv, TypeOK, vars, driverVars, clusterVars, viewVars, timeout, interval
<1> QED
  BY <1>1, <1>2, <1>3, <1>4, <1>5, <1>6, <1>7, <1>8, <1>9, <1>10, <1>11 DEF Next, Driver

\* The invariant holds in every state of every run.
THEOREM WaitInvariant == Spec => []WaitInv
<1>1. Init => WaitInv
  BY SettingsPositive, FourKinds, PodsAssumption DEF Init, WaitInv, TypeOK
<1> QED
  BY <1>1, WaitInvInductive, PTL DEF Spec

\* Run waits less than twice the timeout and one interval after an operation,
\* whatever the four kinds and their pods do.
THEOREM WaitBoundedAlways == Spec => []WaitBounded
<1>1. WaitInv => WaitBounded
  BY SettingsPositive DEF WaitInv, TypeOK, WaitBounded
<1> QED
  BY <1>1, WaitInvariant, PTL

\* Every state has its types: a kind is polled only while there is one.
THEOREM WaitTypes == Spec => []TypeOK
<1>1. WaitInv => TypeOK
  BY DEF WaitInv
<1> QED
  BY <1>1, WaitInvariant, PTL

-----------------------------------------------------------------------------
(* What the driver knows when it moves on. *)

KindDone(kind) == ~Outstanding(kind)

\* While the waits have left time, every kind whose turn is over is done; and a
\* deletion is forced only when the whole timeout has been waited for it, so
\* that it leaves no time.
DoneInv ==
  /\ totalWait < timeout => \A i \in 1 .. kindIdx - 1 : KindDone(WaitOrder[i])
  /\ pc = "force" => waited >= timeout
  /\ pc = "over" => kindIdx = Len(WaitOrder) + 1

\* A list without a pod of the kind leaves no pod of this operation behind.
LEMMA NothingListed ==
  ASSUME Listed(Kind) = {}, lastAction[Kind] = "delete"
  PROVE  KindDone(Kind)
BY DEF Listed, KindDone, Outstanding

\* The manager of pods is stable when as many are ready as were counted: with every
\* creation counted, all of them.
LEMMA StablePodsReady ==
  ASSUME WaitInv, PodIsStable, Counted = Of("Pod")
  PROVE  Of("Pod") \subseteq ready
<1> DEFINE S == cReady \cap Of("Pod")
<1>1. IsFiniteSet(Of("Pod")) /\ S \subseteq Of("Pod")
  <2>1. Of("Pod") \subseteq Pods /\ IsFiniteSet(Pods)
    BY PodsAssumption DEF Of
  <2> QED
    BY <2>1, FS_Subset
<1>2. Cardinality(S) = Cardinality(Of("Pod"))
  BY DEF PodIsStable
<1>3. S = Of("Pod")
  BY <1>1, <1>2, FS_Subset
<1> QED
  BY <1>3 DEF WaitInv, TypeOK

\* The manager of a controller is stable when one pod is ready at least.
LEMMA StableHasReady ==
  ASSUME WaitInv, NEW kind, IsStable(kind)
  PROVE  Of(kind) \cap ready # {}
<1>1. cReady \cap Of(kind) # {}
  BY FS_EmptySet DEF IsStable
<1> QED
  BY <1>1 DEF WaitInv, TypeOK

LEMMA SettledIsDone ==
  ASSUME WaitInv, Settled, lastAction[Kind] = "create"
  PROVE  KindDone(Kind)
<1>1. CASE Kind = "Pod"
  <2>1. Counted = Of("Pod") => Of("Pod") \subseteq ready
    BY <1>1, StablePodsReady DEF Settled
  <2> QED
    BY <1>1, <2>1 DEF KindDone, Outstanding
<1>2. CASE Kind # "Pod"
  <2>1. Of(Kind) \cap ready # {}
    BY <1>2, StableHasReady DEF Settled
  <2> QED
    BY <1>2, <2>1 DEF KindDone, Outstanding
<1> QED
  BY <1>1, <1>2

\* What happens to the pods while the driver waits: only late ones come, ready ones
\* stay ready, and a failed request is remembered.
PodsGoOn ==
  /\ lastAction' = lastAction /\ failed \subseteq failed'
  /\ exist' \ Late \subseteq exist /\ ready \subseteq ready'

\* What is done stays done.
LEMMA DoneStays ==
  ASSUME NEW kind, KindDone(kind), PodsGoOn
  PROVE  KindDone(kind)'
BY DEF KindDone, Outstanding, PodsGoOn, Of

\* A step that lets no kind's turn end keeps what is known of the earlier ones.
LEMMA TurnGoesOn ==
  ASSUME WaitInv, DoneInv, UNCHANGED <<kindIdx, totalWait>>, PodsGoOn,
         pc' = "force" => waited' >= timeout, pc' = "over" => pc = "over"
  PROVE  DoneInv'
<1>1. timeout' = timeout
  BY DEF timeout
<1>2. ASSUME totalWait' < timeout, NEW i \in 1 .. kindIdx' - 1
      PROVE  KindDone(WaitOrder[i])'
  <2>1. KindDone(WaitOrder[i])
    BY <1>2 DEF DoneInv
  <2>2. \A k : KindDone(k) => KindDone(k)'
    BY DoneStays
  <2>3. WaitOrder[i]' = WaitOrder[i]
    BY DEF WaitOrder
  <2> QED
    BY <2>1, <2>2, <2>3 DEF KindDone, Outstanding
<1> QED
  BY <1>1, <1>2 DEF DoneInv

\* A turn that ends leaves its kind done, or no time.
LEMMA TurnEnds ==
  ASSUME WaitInv, DoneInv, pc \in {"poll", "force"}, Return, PodsGoOn,
         NEW kind, kind = Kind, waited < timeout => KindDone(kind)'
  PROVE  DoneInv'
<1>1. timeout' = timeout
  BY DEF timeout
<1>2. /\ waited \in Nat /\ totalWait \in Nat /\ kindIdx \in 1 .. 4
      /\ totalWait' = totalWait + waited /\ kindIdx' = kindIdx + 1
      /\ timeout \in Nat
  BY FourKinds, SettingsPositive DEF WaitInv, TypeOK, Return
<1>3. ASSUME totalWait' < timeout, NEW i \in 1 .. kindIdx' - 1
      PROVE  KindDone(WaitOrder[i])'
  <2>1. waited < timeout /\ totalWait < timeout
    BY <1>2, <1>3
  <2>2. WaitOrder[i]' = WaitOrder[i]
    BY DEF WaitOrder
  <2>3. CASE i = kindIdx
    <3>1. WaitOrder[i] = kind
      BY <2>3 DEF Kind
    <3> QED
      BY <2>1, <2>2, <3>1 DEF KindDone, Outstanding
  <2>4. CASE i # kindIdx
    <3>1. KindDone(WaitOrder[i])
      BY <1>2, <2>1, <2>4 DEF DoneInv
    <3>2. \A k : KindDone(k) => KindDone(k)'
      BY DoneStays
    <3> QED
      BY <2>2, <3>1, <3>2 DEF KindDone, Outstanding
  <2> QED
    BY <2>3, <2>4
<1>4. pc' = "pick"
  BY DEF Return
<1> QED
  BY <1>1, <1>3, <1>4 DEF DoneInv

\* A turn that ends with its kind done before the step.
LEMMA TurnEndsDone ==
  ASSUME WaitInv, DoneInv, pc \in {"poll", "force"}, Return, PodsGoOn,
         waited < timeout => KindDone(Kind)
  PROVE  DoneInv'
<1>1. PICK kind : kind = Kind
  OBVIOUS
<1>2. waited < timeout => KindDone(kind)'
  BY <1>1, DoneStays
<1> QED
  BY <1>1, <1>2, TurnEnds

\* Every step keeps it.
LEMMA DoneInvInductive == WaitInv /\ DoneInv /\ [Next]_vars => DoneInv'
<1> SUFFICES ASSUME WaitInv, DoneInv, [Next]_vars PROVE DoneInv'
  OBVIOUS
<1> USE SettingsPositive, FourKinds
<1>a. exist \subseteq Pods /\ waited \in Nat /\ totalWait \in Nat /\ late \subseteq Late
  BY DEF WaitInv, TypeOK
<1>1. CASE PickKind
  <2>0. PodsGoOn
    BY <1>1 DEF PickKind, PodsGoOn, clusterVars
  <2>1. CASE UNCHANGED kindIdx
    BY <1>1, <2>0, <2>1, TurnGoesOn DEF PickKind
  <2>2. CASE ~TimeLeft /\ UNCHANGED pc
    <3>1. ~(totalWait' < timeout') /\ pc' = "pick"
      BY <1>1, <2>2, <1>a DEF PickKind, TimeLeft, timeout
    <3> QED
      BY <3>1 DEF DoneInv
  <2> QED
    BY <1>1, <2>1, <2>2 DEF PickKind
<1>2. CASE MoveOn
  <2>1. kindIdx' = Len(WaitOrder) + 1
    BY <1>2 DEF MoveOn, WaitInv, TypeOK
  <2>2. UNCHANGED <<lastAction, failed, exist, ready, kindIdx, totalWait>> /\ pc' = "over"
    BY <1>2 DEF MoveOn, clusterVars
  <2>3. ASSUME totalWait < timeout, NEW i \in 1 .. kindIdx' - 1
        PROVE  KindDone(WaitOrder[i])
    BY <2>2, <2>3 DEF DoneInv
  <2> QED
    BY <2>1, <2>2, <2>3 DEF DoneInv, KindDone, Outstanding, timeout, WaitOrder
<1>3. CASE PollDeletion
  <2>0. PodsGoOn /\ pc = "poll"
    BY <1>3 DEF PollDeletion, PodsGoOn, clusterVars
  <2>1. CASE waited < timeout /\ Sleep
    BY <2>0, <2>1, TurnGoesOn DEF Sleep
  <2>2. CASE Return /\ Listed(Kind) = {}
    BY <1>3, <2>0, <2>2, NothingListed, TurnEndsDone DEF PollDeletion
  <2>3. CASE Return /\ failed' = failed \cup {Kind}
    <3>1. PICK kind : kind = Kind
      OBVIOUS
    <3>2. kind \in failed' /\ lastAction'[kind] = "delete"
      BY <1>3, <2>0, <2>3, <3>1 DEF PollDeletion, PodsGoOn
    <3>3. KindDone(kind)'
      BY <3>2 DEF KindDone, Outstanding
    <3> QED
      BY <2>0, <2>3, <3>1, <3>3, TurnEnds
  <2>4. CASE waited >= timeout /\ pc' = "force" /\ UNCHANGED <<kindIdx, waited, totalWait>>
    BY <2>0, <2>4, TurnGoesOn
  <2> QED
    BY <1>3, <2>1, <2>2, <2>3, <2>4 DEF PollDeletion
<1>4. CASE ForceDeletion
  <2>1. PodsGoOn
    BY <1>4 DEF ForceDeletion, PodsGoOn
  <2>2. ~(waited < timeout)
    BY <1>4, <1>a DEF ForceDeletion, DoneInv
  <2> QED
    BY <1>4, <2>1, <2>2, TurnEndsDone DEF ForceDeletion
<1>5. CASE PollCreation
  <2>0. PodsGoOn
    BY <1>5 DEF PollCreation, PodsGoOn, clusterVars
  <2>1. CASE waited < timeout /\ ~Settled
    BY <1>5, <2>0, <2>1, TurnGoesOn DEF PollCreation, Sleep
  <2>2. CASE ~(waited < timeout /\ ~Settled)
    BY <1>5, <2>0, <2>2, SettledIsDone, TurnEndsDone DEF PollCreation
  <2> QED
    BY <2>1, <2>2
<1>6. CASE PollNothing
  <2>0. PodsGoOn
    BY <1>6 DEF PollNothing, PodsGoOn, clusterVars
  <2>1. KindDone(Kind)
    BY <1>6 DEF PollNothing, KindDone, Outstanding
  <2> QED
    BY <1>6, <2>0, <2>1, TurnEndsDone DEF PollNothing
<1>7. ASSUME NEW p \in Pods, Appear(p) PROVE DoneInv'
  <2>1. PodsGoOn /\ UNCHANGED driverVars
    BY <1>7, <1>a DEF Appear, PodsGoOn, driverVars
  <2> QED
    BY <2>1, TurnGoesOn DEF driverVars, DoneInv
<1>8. ASSUME NEW p \in Pods, BecomeReady(p) PROVE DoneInv'
  <2>1. PodsGoOn /\ UNCHANGED driverVars
    BY <1>8 DEF BecomeReady, PodsGoOn, driverVars
  <2> QED
    BY <2>1, TurnGoesOn DEF driverVars, DoneInv
<1>9. ASSUME NEW p \in Pods, Vanish(p) PROVE DoneInv'
  <2>1. PodsGoOn /\ UNCHANGED driverVars
    BY <1>9 DEF Vanish, PodsGoOn, driverVars
  <2> QED
    BY <2>1, TurnGoesOn DEF driverVars, DoneInv
<1>10. ASSUME NEW p \in Pods, checkAndUpdate(p) PROVE DoneInv'
  <2>1. PodsGoOn /\ UNCHANGED driverVars
    BY <1>10 DEF checkAndUpdate, PodsGoOn, driverVars, clusterVars
  <2> QED
    BY <2>1, TurnGoesOn DEF driverVars, DoneInv
<1>11. CASE UNCHANGED vars
  <2>1. PodsGoOn /\ UNCHANGED driverVars
    BY <1>11 DEF vars, PodsGoOn, driverVars, clusterVars
  <2> QED
    BY <2>1, TurnGoesOn DEF driverVars, DoneInv
<1> QED
  BY <1>1, <1>2, <1>3, <1>4, <1>5, <1>6, <1>7, <1>8, <1>9, <1>10, <1>11 DEF Next, Driver

\* When Run goes on to the next operation without having used up the timeout, nothing
\* is outstanding of any kind: the deleted pods of the operation are gone unless a
\* request failed, the counted plain pods are ready when all were counted, and a
\* controller has a first ready pod. What IsStable says is not assumed but computed.
THEOREM OperationDone == Spec => []PreviousOperationDone
<1>1. Init => DoneInv
  BY FourKinds DEF Init, DoneInv
<1>2. WaitInv /\ DoneInv => PreviousOperationDone
  <2> SUFFICES ASSUME WaitInv, DoneInv, pc = "over", totalWait < timeout
               PROVE  \A kind \in PodKinds : ~Outstanding(kind)
    BY DEF PreviousOperationDone
  <2>1. \A i \in 1 .. 4 : KindDone(WaitOrder[i])
    BY FourKinds DEF DoneInv
  <2>2. KindDone("Pod") /\ KindDone("Deployment")
        /\ KindDone("ReplicationController") /\ KindDone("StatefulSet")
    BY <2>1 DEF WaitOrder
  <2> QED
    BY <2>2 DEF KindDone, PodKinds
<1>3. WaitInv /\ DoneInv /\ [Next]_vars => DoneInv'
  BY DoneInvInductive
<1> QED
  BY <1>1, <1>2, <1>3, WaitInvariant, PTL DEF Spec

=============================================================================
