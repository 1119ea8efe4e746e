# K-Bench, modelled in TLA+

K-Bench runs a configured workload against a Kubernetes cluster and measures it.
This directory holds TLA+ modules of its core, TLC instances that check them and
TLAPS proofs about them. `PROJECT.json` maps each definition to the source lines
it stands for and lists the runs, the findings, the hazards and the theorems.

## The system

| part | source | state | operations | interacts with |
|---|---|---|---|---|
| driver | `util/testdriver.go` | `mgrs`, `wg`, `startIdx`, `minutesElapsed` | `Run`, `Finalize` | starts goroutines, asks managers |
| action loops | `util/driver_util.go` | locals of each goroutine (`created`, `si`) | `checkAndRun*`, `run*Actions`, `waitForPodRelatedOps` | call managers, list pods |
| configuration | `util/wcpconfig.go` | the decoded JSON | none | read by the driver |
| pod manager | `manager/pod_manager.go` | maps of times by pod name, `apiTimes`, `podNs`, `nsSet`, three mutexes | `Create` `Delete` `List` `Get` `Update` `Run` `Copy` `DeleteAll` `IsStable` `CalculateStats` | API server; informer callbacks |
| deployment, stateful set, replication controller managers | `manager/*_manager.go` | as the pod manager, which each embeds for its pods | the above and `Scale` | own a pod manager |
| namespace, service, resource managers | `manager/*_manager.go` | `apiTimes`, names by namespace | create, delete, list, get, update | API server |
| predicates | `util/predicate.go` | none | `HandlePredicate` | polls the cluster, runs commands |
| object generation | `util/spec_generator.go` | none | `gen*Spec` | pure |
| metrics output | `perf_util/` | none | `WriteDataPoints` | files |
| command line | `cmd/kbench.go` | list of configurations | `main`, the signal handler | `Run`, `Finalize` |
| infrastructure, Prometheus, WaveRunner | `infrastructure/`, `pkg/` | none | set-up scripts and REST calls | outside the benchmark |

Three kinds of concurrency meet. The main goroutine starts `Count` goroutines per
resource kind of an operation and waits for them with a `sync.WaitGroup`. Each pod
manager runs an informer which starts one more goroutine for every notification.
The cluster itself moves pods along, loses events and refuses or loses calls. The
signal handler is a fourth, and calls `Finalize` whatever the others are doing.

What makes each part correct:

- *dispatch*: operations do not overlap; every goroutine asked for runs, once, and
  its actions in order; object names never clash between rounds; the run ends, and
  not before its time;
- *blocking*: the driver moves on when the operation is done or the time is up;
- *startup statistics*: the stamps do not depend on the order in which handlers
  run; no latency is negative; "stable" means that what was created is ready;
- *life cycle*: a namespace or object is found again where it was created, by
  `Delete` and by `DeleteAll`, and the cleanup touches nothing that is not the run's;
- *replicas*: goroutines that scale one controller lose no scale, an action reaches
  the objects it is configured for, statistics stay with the kind they are about;
- *predicates*: an operation starts when what it waits for is there, or in the end;
- *process*: runs in one process do not disturb each other, and a signal cleans up.

## Modules

`Workload` (pure) - what a configuration says: operations, kinds, counts, actions.
`NormalizeOps`, `ClientsFor` and `MaxClients` are what `Run` computes before its
first operation. The generic resource kinds are alike in the code; two stand for all.

`Dispatch` - `Run`, `checkAndRun*` and `run*Actions`. The program counter `pc` and
`kindIdx`, `tid` are the main goroutine; `status`, `next`, `created`, `calls` are
the goroutines `<<oid, kind, tid>>`. The go statement (`CheckAndRun`) and the
`wg.Add(1)` after it (`Add`) are two steps, as in the code, and a goroutine may
finish in between; a counter below zero panics (`pc = "panic"`). API calls
are reduced to their verb: their errors are logged and change nothing in the
driver. Whether a yaml can be decoded and has the right kind matters (`YamlUse`,
`AssertionFails`), its content does not.

`OperationSequence` - the abstract specification of dispatch: one operation at a
time, its goroutines in parallel, no goroutine name ever used again. `Dispatch`
implements it with `current <- Oid`, `active <- Live`, `ended <- Ended`.

`BlockingWait` - the four calls of `waitForPodRelatedOps` after an operation. Time
is what the code adds up: `waited` inside one call, `totalWait` over the calls.
The cluster makes, readies and removes pods whenever it likes. What a manager knows of
them is what its handlers put into `cFirst` and `cReady` (`checkAndUpdate`, in any order
and as late as they like), and `PodIsStable` and `IsStable` count these, as the managers
do: a deployment of which one pod was seen and is ready is stable here, too.

`PodStartup` - the pod manager's maps. `Notify` is an informer callback, which only
starts a goroutine (`inflight`); `checkAndUpdate(p, v)` is one such goroutine, from
taking `statsMutex` to releasing it, for the version `v` it was given, in any
order. `CreateSend`/`CreateReply` split the API call from its answer.
`DeleteBegin`, `UpdateBeforeDeletion` and `DeleteCall` split `Delete` into the look at
`scheduleTimes` without the lock, the second look and the update under it, and the API
call; several deletes of one pod may be in any of these at a time (`updating`, `deleting`).
`delivered` is a history of what was notified and is read by no action. The cluster's
part (`Conditions`, `Follows`, ...) is modelled from what the code reads of it and marked
external. Client-side stamps keep their value, as
latencies are differences of them; server-side stamps are only present or not.

`Milestones` - the abstract specification of the client-side stamps: each is taken
once, from the clock, and first-seen is never after another one.

`Lifecycle` - `Init`, `Create`, `Delete` and `DeleteAll` of the seven managers and the
cleanup of `Finalize`. `Routine` says what each goroutine is configured to do: its
operation and manager, the namespace of its CREATE (`Ns`, a yaml's own one included) and
that of its DELETE (`DelNs`), which the code computes for each action anew; whether it
creates; what its selectors cover. An object has the name of its goroutine, so objects and goroutines are one set.
`at[g]` is where the goroutine is. A `Create` has three steps, as the manager's mutex
is free between them: the namespace is ensured (`EnsureNamespace`), the API is called
(`CallCreate`), the name is recorded in `podNs`, `depNs` and so on, which are `table`
(`Record`). A `Delete` lists (`ListSelected`); then each call (`DeleteObject`) and each
access to the record under the mutex (`Forget`) is a step, the forgetting after every
call (`DeleteEach`) or, in the resource manager, after the last one. `listed` is what the
loop has before it, `dealt` what it has called for and not forgotten. The look-up that
precedes a resource's call is one step with it, as nothing but the look-up tells what
the call does; so is a service's with its list, as only the goroutine itself records the
name that is looked up. Each `DeleteAll` is one step, as it runs alone. The
managers share these steps and differ where their code does: the answers for which a
namespace is kept (`PodKeeps`, `KeepAlways`), the namespace looked in (`SvcNs`,
`ResourceDelete`, `PodDeleteAll`), what an error ends (`NoScale`), what is forgotten and when.
In the cluster a deleted namespace is terminating until `Collapse` removes it and what
it holds. Any call may fail, and a failed create may have taken effect. The order of
the managers in `DeleteAll` is that of a Go map, hence any.

`Selectors` (pure) - the labels K-Bench gives to objects and the selectors it, and the
controllers it creates, look for them with: `GenLabels`, `MatchLabels`,
`InformerSelector`, `GetListOptions`. Labels are records from keys to values; only the
controllers' real ones depend on anything here.

`Replicas` - the goroutines that create, scale, update and delete controllers, with one
step per API call, the cluster that makes, moves and evicts pods, and the informers of
the four managers with their handlers. What the API server checks of a write is that it
is made from the current version (`fresh`): a write makes all other versions stale
(`Outdate`). `Turn` is the barrier between operations. The three managers share the steps;
the replication controller's `Delete` scales to zero first (`ScaleDown`).

`Metrics` (pure) - the statistics `CalculateStats` reads of a list of latencies: median,
extremes and 99th percentile by their indexes in the sorted list, and what the operation
adds to the throughput.

`Predicate` - `HandlePredicate`, polling with the cluster asked and the command run in
two steps, and either may fail; how the `Resource`, `Labels` and `Expect` options are read.
A failed request looks like one that finds nothing (`answered`). A wish
is what the writer of a configuration means and `Resource` is how the documentation
wants it written, so that the reading can be compared with the meaning.

`Benchmark` - `main`: the sort of the configurations, one `Run` after the other with a
map of managers each, and the signal handler, whose `Finalize` interleaves with `Run` and
its goroutines step by step. Operations and managers are coarse here (one object of a
kind per operation, the whole home namespace); `Init` is cut where `Finalize` can see a
half-made manager (`Stages`).

How the modules meet: `Benchmark`, `Dispatch` and `Lifecycle` are three views of one
execution, by granularity: the process, the goroutines of an operation, the calls of a
goroutine. `Predicate` and `Replicas` share `Selectors`; `MCPodStartup` and
`PodStartupProofs` take `Metrics` beside `PodStartup`.

`PodStartupProofs` (with `Metrics`), `BlockingWaitProofs`, `LifecycleProofs`, `DispatchProofs`,
`BenchmarkProofs`, `PredicateProofs`, `ReplicasProofs` - theorems; `FiniteInduction` - the facts about
numbers and finite sets that several of them rest on.
`MC*` - instances for TLC.

## Runs

All passing runs stop only where the system does, or where a bound of the model is
met; deadlock checking is off in them for that reason (a finished run, a cluster
with nothing left to do).

| run | checks | shows |
|---|---|---|
| `stamps` | `TypeOK`, `FirstSeenEarliest`, `MilestonesComplete`, `MilestonesSpec`, `RunningIsRecorded` | one pod with init containers and restarts, its handlers in every order: stamps are complete and in order, and a Running pod with no running container is counted in the end |
| `stable` | `StatsAgree`, `StableMeansReady` | two pods, failing creates, up to two deletes at once and missing events: the maps agree, `IsStable` is right without leftovers and lost answers |
| `dispatch` | `TypeOK`, `AllRoutinesRan`, `ActionsInOrder`, `Finishes` | every kind, repeated operations, repeated, unknown and undecodable actions, a last operation whose yaml ends the process |
| `rounds` | `Barrier`, `ClientsSuffice`, `RunsLongEnough`, `OperationsOneByOne` | several rounds under a time limit, up to `Finalize` |
| `blocking` | `TypeOK`, `WaitBounded`, `PreviousOperationDone`, `MovesOn` | pods, also of an earlier operation, created or deleted last, a deployment whose second pod comes late, kinds without manager, failing list requests, handlers at any time: moving on in time means that nothing is outstanding (`Outstanding`), and the wait always ends |
| `cleanup` | `TypeOK`, `NamespacesExisted`, `OwnDeleteWorks`, `CleanupLeaves`, `OthersSpared` | every manager, namespaces made, found, left over and deleted meanwhile, every call of a `Delete` a step, one failing call anywhere: goroutines delete what they created but in the exceptions of `FindsOwn`, the cleanup leaves exactly the exceptions it spells out and no foreign namespace is touched |
| `replicas` | `TypeOK`, `OwnPodsOnly`, `NoScaleLost`, `OwnersMade`, `ListsAsMeant`, `StableInTheEnd` | controllers of each kind beside a plain pod, scaled by their own and other goroutines, one failing call or eviction: conflicts make every counted scale count, selectors and labels fit together, and stability does not depend on the handlers' order |
| `predicate` | `PassedAsDocumented`, `WaitsAsDocumented`, `Ends` | eighteen predicates in both formats, with and without labels, containers and commands, malformed ones and one for a container of what is no pod included, while their objects come and go and requests fail |
| `interrupt` | `TypeOK`, `RunsLightToHeavy`, `UninterruptedNeverCrashes`, `InterruptCleans`, `RefusedByEarlierRuns`, `InterruptEnds` | several configurations in any order, with and without cleanup or operations, and a signal at any step |

The violation runs, each the smallest instance that shows a disagreement between
the code and what is written about it (quoted in `PROJECT.json`, "findings"):

| run | property | what happens |
|---|---|---|
| `inited_meaning` | `InitedIsATime` | a late Initialized notification stores the zero time |
| `early_stable` | `StableMeansAllReady` | the first of two pods of a deployment is seen ready, and the deployment is stable |
| `found_namespaces` | `FoundSpared` | a namespace that was there before the run is deleted with it |

### Deviations seen while modelling, without a run of their own

The first group can be seen in the models, as behaviours they allow and the
properties step around by an explicit premise or exception:

- `go runPodActions(...)` comes before `wg.Add(1)` (`driver_util.go:60`): a goroutine
  that ends first takes the counter below zero, which panics (`Dispatch`, `pc = "panic"`).
- `obj.(*apiv1.Pod)` panics for a YamlSpec of another kind, before the check that is to
  reject it (`driver_util.go:352`, alike at 498, 631, 841 and 950; `FailAssertion`).
- The informer selects every kbench pod of the cluster: a ready pod left by an
  earlier run makes a later one look stable (`pod_manager.go:773`); so does one whose
  create worked and failed, as it is seen and not counted. `StableMeansReady` is checked
  with `Leftovers = {}` and `LostReplies = FALSE`.
- The benchmark is to wait "until the previous operation is completely done"
  (`src/README.md:255`). The wait for deletion selects the current operation's pods
  (`driver_util.go:1157`): pods created by an earlier operation and deleted by this one are
  not waited for, nor are pods a controller makes after the list was empty. A failed
  list ends it (`driver_util.go:1162`). The wait for creation ends when the manager is
  stable, which a deployment is with its first ready pod. `Outstanding` says what is left
  of the promise.
- A resource's namespace is looked up before its own goroutine has recorded it, if another
  one of the operation deletes it, too (`resource_manager.go:534`); that one's call goes to
  the namespace "" and finds nothing, and its loop ends with the name forgotten (716-724),
  which by then may be recorded: the goroutine's own DELETE then looks in "" as well, and the object
  stays though no call failed. `FindsOwn` excepts resources that others delete.
- The `Delete` of replication controllers gives up at the first one whose scale cannot be
  had (`replicationcontroller_manager.go:440`), be it gone since the list: those after it stay (`NoScale`).
  `FindsOwn` excepts these, too.
- A DELETE looks in the namespace of its own action spec, else of the configuration; that of
  a CREATE's spec or yaml is forgotten (`driver_util.go:331`, `:378`). An object
  made elsewhere stays, and `FindsOwn` asks for `DelNs(g) = Ns(g)`.
- `Finalize` of the signal handler meets whatever `Run` is doing (`kbench.go:188`): a
  manager without its pod manager or client is dereferenced (`Dereferences`), a map that
  is being written is ranged over, `podChan` is closed twice when main finalizes
  too (`DeleteHome`), and main may return while the handler still cleans up. Each ends
  the process before results are written; only `UninterruptedNeverCrashes` excludes
  them.
- A signal that arrives before the handler is at its receive is dropped, as the channel
  has no buffer (`kbench.go:183`, `Signal`).
- Runs of one process share the names of namespaces and objects: after a run with
  `Cleanup` the next may find its namespace terminating, after one without, objects of
  the same name (`RefusedByEarlierRuns` allows nothing else).
- The comparison that sorts the configurations tests `testConfigs[i]` twice
  (`kbench.go:162`), so it is no strict order; `RunsLightToHeavy` holds all the same.
- A malformed `Expect`, a command that fails where the benchmark runs or cannot be started
  in the container, a container that is not there and one of what is no pod let the operation
  start (`predicate.go:94`, `:139`, `:152`, `:165`, `:213`). A request that fails looks like one that finds
  nothing, and delays a predicate that holds (`predicate.go:83`, `:117`). A label
  without `=`, a trailing `;` included, is indexed out of range (`predicate.go:283`). A namespace or
  object whose name contains "namespaces" is not understood in the short
  format (`predicate.go:235`), and a resource without a namespace not looked for
  (`predicate.go:70`). Of two labels with one key the later one is asked for alone
  (`predicate.go:282`). `Ignored` is the list of these exceptions.
- A user's label with one of the keys `app`, `type`, `opnum` and `tid` replaces K-Bench's own
  (`spec_generator.go:39`): the informers, selectors and list requests then miss the
  object. The theorems about labels assume that there is none (`KeysOfTheirOwn`).
- A predicate's result is not used, and its interval and timeout are always the
  defaults (`testdriver.go:218`).
- `Scale` and `Update` end at the first object in conflict and leave the rest of their list
  (`deployment_manager.go:361`); an update of a controller whose status
  changed since it was listed is such a conflict.
- A replication controller's selector does not ask for the pods' type, so it takes
  plain pods of the same operation and goroutine (`spec_generator.go:286`,
  `OwnersMade`).
- A manager of controllers with no pods at all is never stable (`deployment_manager.go:488`), so that blocking
  after `replicas = 0` waits for the timeout; `StableInTheEnd` is about pods that were seen.

The others are about values that no property here depends on:

- `schedToInitdLatency` and `initdToReadyLatency` may be negative, as handlers may run
  in any order; those from first-seen on may not (`FirstSeenEarliest`). With no ready
  pod, or a zero median, average and throughput are divided by zero.
- `cSchedTimes` is "client sees PodScheduled == True" (`pod_manager.go:67`), but the
  condition's status is not read (line 218), so that a pod that could not be scheduled is
  stamped. The model does the same for the version `unschedulable`;
  `MilestonesComplete` asks for the stamp of scheduled pods and does not speak of others.
- `Timeout` is "the longest time" to wait and "by default it is 3 minutes"
  (`src/README.md:259`): two kinds can wait nearly twice as long (`WaitBounded` is
  the true bound), and `defaultTimeout` is 1000 s.
- After CREATE, LIST nothing is waited for: only a kind's last action counts
  (`driver_util.go:1188`).
- With `RuntimeInMinutes` set and no operations, the clock is never read and the
  loop does not end (`testdriver.go:295`).
- Before `pulledTimes` is written, `scheEvents` is asked for the pod
  (`pod_manager.go:311`): a pod with a scheduler event and no "Pulled" event gets the
  zero time (`"zero"` in `PodStartup`).
- After the timeout the remaining pods are listed in all namespaces, but deleted by
  force in the first one's only (`driver_util.go:1182`, `ForceDeletion`).
- `Cleanup` is "clearing all the created resources" (`src/README.md:263`). Pods and
  resources that were put into the default namespace stay, as `PodManager.DeleteAll`
  gives `Delete` no namespace and `ResourceManager.DeleteAll` deletes namespaces only;
  so do resources without a namespace. `CleanupLeaves` spells these exceptions out.
- All managers but the pod manager record a namespace before the answer of its
  creation is looked at (`deployment_manager.go:168`): after a failure it is never
  created, and every later object of it is refused. `NamespacesExisted` is therefore
  stated of the pod manager.
- `ServiceManager.Delete` ignores the namespace of its action (`service_manager.go:317`)
  and looks where the goroutine's own service is, else at home.

### Bounds

- `MaxTime`, `MaxElapsed`: the clocks. Two instants tell any two stamps of a pod
  apart or not, and the properties compare two at a time; half minutes make
  rounding matter, and three of them pass the limit of one minute in `rounds`.
- `MaxInflight`: handlers of one pod and version at once. One is enough to meet
  what an equal one did, as the version can be notified again.
- `MaxDeletes`: deletes of one pod under way at once. With two, one brings the maps up to
  date between the two looks of the other.
- `MaxOid`, `MaxCount`: operation numbers and `Count`. `rounds` makes two complete
  rounds, enough for a name to be reused; `RoutinesPerClient` is 2 there, so that
  three goroutines need a rounded division.
- Timeouts are a few intervals: the loops only compare sums of intervals with
  the timeout, which is no multiple of the interval in `blocking`. Its five pods are of
  three kinds, one with a late pod and one without a manager; one is of another operation.
- `MaxFailures`: API calls that fail in a run of `Lifecycle`. One is enough to leave
  a namespace unmade, an object unrecorded or undeleted; `CleanupLeaves` and
  `OwnDeleteWorks` speak of the runs without any.
- The instance of `cleanup` has fifteen goroutines in five operations: of each manager one
  at least; two pods of which one goroutine, and one of a later operation, delete both; a
  deployment that is deleted in another namespace than it is in; replication controllers and
  resources that two goroutines select, which are the exceptions of `FindsOwn`, and others that
  one does. Its namespaces are one of each sort: home, made, found and used, found and
  foreign, left over with kbench's label, and the default one.
- `Replicas`: `MaxPods` pods ever, `MaxFailures` failing calls and evictions together.
  Conflicts need two goroutines that scale one controller, a lost answer one failure;
  stability needs two pods, of which one is late. `Works` has one set of goroutines per question.
- `Predicate`: the timeout is no multiple of the interval, so that the last poll is
  checked; four objects tell names, labels, kinds, groups and pods from others.
- `Benchmark`: four configurations in every order, one without operations; the others use the
  same kinds, with and without cleanup, so that a later run meets both sorts of remains.

### Fairness

`PodStartup`: weak fairness of each handler, as the Go scheduler runs every
goroutine and `sync.Mutex` starves none. `Dispatch`: weak fairness of the main
goroutine and of each worker, which assumes that API calls return (they have no
timeout of their own in the code). `BlockingWait`: of the driver only; the
cluster may never act, and the timeout alone must end the wait. `Predicate`: likewise.
`Replicas`: of the informers' handlers only; goroutines and cluster may stop anywhere,
and `StableInTheEnd` is about what has been notified. `Benchmark`: of the signal handler
only; main may be stuck in a call, and the handler must end the process all the same.

## Proofs

`PodStartupProofs`, for any finite set of pods, any leftovers, versions and bounds:

- `IInv` = types, `CountOK` (the latencies counted are those of acknowledged
  creates), `FirstPast` (no first-seen stamp is later than the clock) and
  `FirstSeenEarliest`. `FirstSeenEarliest` is not inductive alone: a stamp taken
  now must be known not to precede the first-seen one. `CountOK` is what bounds
  `apiCreates` by the number of pods. From it `TypeCorrect` and `FirstSeenFirst`.
- `StampsImplementMilestones`: every step is a step of `Milestones` or a stutter.
- `StatsAlwaysAgree`: `StatsAgree` is inductive together with `IInv`.
- `StableIsReady`: with `Leftovers = {}` and no lost answers, `IsStable` implies
  readiness. The added invariant `OwnPods` says that nothing of a pod exists
  before its create was sent; so the ready pods are among the acknowledged ones,
  and sets of equal size with one inside the other are equal. The two assumptions
  are needed: a leftover pod, or a create that worked and whose answer was lost,
  shifts one of the two numbers that are compared.

- `NoMilestoneLost`: the invariant `Handled` looks at versions, not at maps: one that was
  notified and has no handler left in flight has left the stamps it calls for, and no
  stamp came without a version. `MilestonesComplete` only speaks of the moment when nothing
  is in flight, which no single handler's step could be shown to lead to.
- `StatisticsInOrder` and `ThroughputNotOverstated` are about lists in ascending order of any
  length; the lemma `Positions` bounds the computed indexes, and the throughput's
  pods are the positions up to the median's.

`BlockingWaitProofs`, for every timeout, interval, set of pods and cluster:

- `WaitInv` says that a call is entered with time left and its last sleep began
  before the timeout; from it `WaitBoundedAlways` and `WaitTypes`.
- `OperationDone` has no premise; what the code does not wait for is in `Outstanding`. `DoneInv`
  says that of the kinds whose turn is over nothing is outstanding while there is time left,
  and that a forced deletion comes only when the time is used up. That it stays so: a pod
  that is made later is one of `Late`, a ready pod stays ready. That it comes about is counting:
  as many plain pods seen ready as were counted, when all of them were, are all of them; a
  stable controller has at least one.

`LifecycleProofs`, for any finite set of goroutines, any routines, any namespaces
found and any number of failures:

- `LifecycleTypes`: `TypeOK` is inductive; its second conjunct (nothing is under way
  once the cleanup began) is what `Finalize`'s waiting for the last operation gives.
- `KeptNamespacesExisted` and `OtherNamespacesSpared`: the invariant `KeptInv` says that
  what managers keep in `nsSet`, and what is labelled, are namespaces of the run's own
  or left over; so nothing else is ever terminated.
- `OwnDeletesWork`: `OwnInv` follows an object of a goroutine that is to delete it and is
  none of the exceptions: while it exists it is on record from the step after the answer on
  (`OwnObject`), and before the goroutine on its list while that deletes; if it is a
  replication controller, so is all of the list, and the loop does not give up. That nobody forgets the record
  in between is why the loops have an invariant of their own: `TurnInv` (operations
  follow one another), `ListInv` (what is listed or dealt with was selected and created) and
  `DealtInv` (what was dealt with is gone, unless it is a resource). A resource that nobody
  else of the operation deletes is on no other list then.
- `CleanupIsComplete`: by `LeftInv`, while no call fails, a manager that has not cleaned up
  yet knows what it will need then: it keeps the namespace of each of its objects, also of
  one about to be created, and has each object on record unless the answer to its CREATE is
  still to be looked at (`Known`); a resource, which the cleanup does not look for, only needs
  its namespace; one that has, left what `Remainder` allows (`CleanedUp`). That
  an object and its namespace are known before they are there is what no state of the
  cleanup itself would show.

`DispatchProofs`, for any configuration, any counts of goroutines, any time limit and
bounds:

- `IInv` = types, `Position` (the loops' bounds), `Passed`, `Counted` and `Barrier`.
  `Barrier` is not inductive alone: each `wg.Add(1)` follows the `go` statement it is for,
  so the counter may be behind. `Counted` says by how much: it is the number of running
  goroutines, less one between a `go` and its `Add`; so at `wg.Wait`, where nothing is
  between, zero means that none runs. `Passed` says that the names in use are behind
  the loops, so what is started is new. From these `DispatchTypes` and `BarrierHolds`.
- `OperationsInSequence`: a `go` is a `Start` of `OperationSequence` (the name is new by
  `Passed`), `wg.Done` a `Finish`, the next operation or round an `Advance` (nothing is
  active by `Barrier`), and every other step a stutter.
- `NoRoutineLeftOut`: `AllStarted` says that what the loops are past was started, if it was
  wanted. A goroutine finds its configuration by its operation number modulo the number of
  operations; `Rounds` (a round begins at a multiple of it, and a round cut short by the
  time limit is the last one) makes that the operation at hand.
- `RunLastsItsTime`: `Timed` says that the last reading, rounded, is not ahead of the clock.
- `CallsAreInOrder`: `CallsKept` says that the calls made so far are the ones that the actions
  before `next` ask for, by the position of each among them, and that `created` is true if one
  was a CREATE.
- `ClientsAreEnough`, for operations and clients made from a configuration (`ConfiguredBy`):
  the clients are computed from the configured operations and the goroutines come from the
  normalized ones, which are the same by `NormalizedAreConfigured`; `Served` says that a running
  goroutine's manager has them all. A client's goroutines have numbers with one remainder
  below `Count`, hence no more than `RoutinesPerClient` of them.

The seven `checkAndRun*` and `run*Actions` are first shown to be cases of `Visit` and
`GoroutineStep`, so that no later proof goes through them again.

`BenchmarkProofs`, for any configurations, at least one:

- `OnlyInterruptsCrash`. The invariant `Calm` holds until a signal is taken: the managers of a
  run are initialised one after the other (`ManagersInTurn`), so none is half-made when `Run`
  calls `Finalize`, and the channels that `Finalize` has closed are those of managers it has
  visited (`FinalizesOnce`). `SortFirst` is needed so that the handler, once it has a signal, is
  not started again.
- `BenchmarkTypes` and `MainAt` (which values of main's variables go together), from which:
- `LightToHeavy`: the insertion sort keeps what it has come past in ascending order
  (`Ascends`), although its comparison, which tests one configuration twice, takes an empty
  configuration to be less than itself. It is about configurations as few as `sort.Slice` sorts
  by insertion, as the model is.
- `InterruptsClean`: what was in the cluster when the signal was taken stays, until
  it is deleted or its namespace is terminating, in the hands of the handler's `Finalize` or of
  one to come (`HandlerCleans`, `InHand`), or main's `Finalize` has seen to it (`RunsClean`). `Begun` and
  `Made` say which goroutines and objects there can be at each point of main.
- `RefusedForAReason`: while there is no signal a terminating home namespace comes from a run
  that cleaned up (`Terminated`, `Ensured`) and used it (`Worked`); `Blame` joins these, as the
  refusal comes one step after the namespace was ensured.

`PredicateProofs`, for any predicates, objects in the cluster, timeout and interval:
`PassesAsDocumented` and `DelaysAsDocumented`, with the branches that ignore a predicate in the
first's exceptions and the failed request in the second's. `ReadAsWritten` shows that a `Resource` in either
format is read for what it is written for, and `FoundIsMet` that the labels asked for, of which
a later one replaces an earlier one with its key, select what they mean. The invariant
`CheckInv` carries the outcome of a check's first half (`met`) to the second, which does not
look at the resource again. `PredicateTypes`: a check sleeps only with time left.

`ReplicasProofs`, for any workload, number of pods and number of failing calls:

- `ReplicasTypes`: in `TypeInv` what is listed is of the goroutine's kind, and a Scale that was
  read is of a listed object.
- `OwnStatistics`: `SeenInv` says that what was notified or recorded is a pod that was made, so
  that a new one, which `NewPod` takes from the unused ones, is on nobody's record; the labels
  of a pod say its kind (`InformedOfItsKind`).
- `OwnersFound`: `TakenInv` adds that only plain pods live without an owner, which is all that
  keeps a replication controller from a deployment's pods, whose labels it would accept;
  `SelectedAlike` says what its selector does ask for.
- `ScalesCounted`: `HeldInv` says that a Scale with a current version has the replicas the object has.
  Without it a write back could undo another's. `Counted` then bounds the set of replicas that
  were added, which grows by the one that `UpdateScale` writes, by the scales that were counted
  and by the failures. Versions made old by status updates, other goroutines' writes
  and deletes are all covered.
- `ListsWhatIsMeant`, an action property: the labels asked for stand one for one for the
  options of the action (`OptionsAskedFor`), the labels given for the operation, the goroutine
  and the user's label (`GeneratedLabels`).

The second, third and last assume `KeysOfTheirOwn`; what the numbers in labels need is
`ItoaAssumption`: different ones are written differently.

An induction over data (`NormalizeOps`, the sort) is made over the set of the numbers up to
which a statement holds (`InductionTo` of `FiniteInduction`), as an operator cannot be passed to
the library's theorems; a sequence is then followed position by position.

Only model-checked: liveness (`RunningIsRecorded`, `Finishes`, `MovesOn`, `Ends`,
`StableInTheEnd`, `InterruptEnds`), which the prover does not handle. Every
invariant and every action property that a passing run checks is a theorem, too, under the
assumptions named above. The three violation runs have no theorem.

## Not modelled

The content of generated objects but for names, labels and selectors, log output,
Wavefront files, the vSphere, Prometheus and WaveRunner set-up: no protocol, or outside
the benchmark's process. Docker-compose conversion happens before the first operation
and only appends operations. The latencies that managers append under `alMutex` are
counted for `Create` (`PodStartup`) and `Scale` (`Replicas`) only. `IsStable` and
`CalculateStats` read Go maps without the lock: what such a race does is undefined by
the language and stated by no property; the crashes a signal causes this way are in
`Benchmark`.

## Plan

1. The assumption of the theorems about labels, made weaker where the code allows it:
   `KeysOfTheirOwn` for keys a selector does not ask for.
2. `Lifecycle` and `Replicas` composed: one goroutine's controller and the namespace it
   is in. The abstract promise of a manager (what was created is deleted), which both implement.
