----------------------------- MODULE Predicate -----------------------------
(***************************************************************************)
(* The predicate an operation may wait for before it starts: the loop of   *)
(* HandlePredicate, one check of checkPredicateOk and what it reads from   *)
(* the configuration (util/predicate.go), while the cluster goes on.       *)
(*                                                                         *)
(* A check asks the cluster first, which may not answer, and runs the      *)
(* command afterwards; these are two steps.  The output of the command     *)
(* matters as far as Expect can tell.                                      *)
(***************************************************************************)
EXTENDS Selectors

CONSTANTS
  Wishes,            \* what the writers of configurations mean
  Objects,           \* the objects that may be in the cluster, by name of the model
  Desc,              \* what each is
  NamespacesLike,    \* the strings that contain "namespaces"
  interval, timeout

\* A wish names a kind of object in a namespace or nothing (its kind Unset), perhaps
\* the object, a container of it and labels; a command or none, and what is
\* expected of its output. long: group and version are spelled out.
Wish == [long : BOOLEAN, group : STRING, version : STRING, ns : STRING, kind : STRING,
         name : STRING, container : STRING, labels : Seq(Seq(STRING)),
         command : BOOLEAN, expect : {"contains", "!contains", "nonsense"}]

\* A container is named after its pod: the Resource option has no other place for
\* it. What a command is asked of in all namespaces at once is left out.
ASSUME WishAssumption ==
  \A w \in Wishes :
    /\ w \in Wish
    /\ w.container # Unset => w.name # Unset
    /\ w.kind # Unset /\ w.ns = Unset => ~w.command
ASSUME TimeAssumption == interval \in Nat \ {0} /\ timeout \in Nat
\* Whether the API's object can be read as a pod is a field of Desc.
ASSUME DescAssumption ==
  /\ "namespaces" \in NamespacesLike /\ DOMAIN Desc = Objects
  /\ \A o \in Objects : Desc[o].isPod \in BOOLEAN

VARIABLES
  wish,         \* the predicate at hand
  pc,           \* "check", "command", "sleep", "passed", "timedout" or "panic"
  totalWait,
  alive,        \* the objects in the cluster
  running,      \* the pods in phase Running
  output,       \* of the command: "has" it the string, "lacks" it, or did it "fail"?
  answered,     \* history: did the last request get an answer?
  met           \* history: did the last check find what is wished for?

clusterVars == <<alive, running, output>>
vars == <<wish, pc, totalWait, clusterVars, answered, met>>

-----------------------------------------------------------------------------
(* The configuration *)

\* The Resource option as the documentation wants it, split at the slashes.
Given(s) == IF s = Unset THEN << >> ELSE <<s>>
Resource ==
  IF wish.kind = Unset THEN <<Unset>>
  ELSE (IF wish.long THEN <<wish.group, wish.version, "namespaces">> ELSE << >>)
       \o <<wish.ns, wish.kind>> \o Given(wish.name) \o Given(wish.container)

NoInfo == [gvk |-> << >>, ns |-> Unset, name |-> Unset, container |-> Unset]

\* The group, version and kind, namespace, name and container in a Resource of
\* either format.
getResourceInfo(paths) ==
  LET hasGv == \E i \in DOMAIN paths : paths[i] \in NamespacesLike
      Info(group, version, i) ==
        [gvk |-> <<group, version, paths[i + 1]>>, ns |-> paths[i],
         name |-> IF Len(paths) > i + 1 THEN paths[i + 2] ELSE Unset,
         container |-> IF Len(paths) > i + 2 THEN paths[i + 3] ELSE Unset]
  IN IF hasGv /\ Len(paths) \in 5 .. 7 /\ paths[3] = "namespaces" THEN Info(paths[1], paths[2], 4)
     ELSE IF ~hasGv /\ Len(paths) \in 2 .. 4 THEN Info(Unset, "v1", 1)
     ELSE NoInfo

\* Mutant: "oid" is asked for as it is.
KeyRaw(l) == l[1]

\* "oid" stands for the label of the operation's number.
Key(l) == IF l[1] = "oid" THEN "opnum" ELSE l[1]

\* The last of the labels with a key.
LastWith(labels, key) ==
  CHOOSE i \in DOMAIN labels :
    Key(labels[i]) = key /\ \A j \in DOMAIN labels : Key(labels[j]) = key => j <= i

\* The labels to ask for; a later label takes the place of an earlier one with its
\* key.
getListOptions(labels) ==
  [key \in {Key(labels[i]) : i \in DOMAIN labels} |-> labels[LastWith(labels, key)][2]]

\* A label without "=" is indexed out of its range.
BadLabel == \E i \in DOMAIN wish.labels : Len(wish.labels[i]) < 2

-----------------------------------------------------------------------------
(* One check *)

Info == getResourceInfo(Resource)

OfKind(o, info) ==
  info.gvk = <<Desc[o].group, Desc[o].version, Desc[o].kind>> /\ Desc[o].ns = info.ns

Named(o) == OfKind(o, Info) /\ Desc[o].name = Info.name

\* Does the cluster have the resource? With a name, labels are ignored.
Found ==
  \E o \in alive :
    IF Info.name # Unset THEN Named(o)
    ELSE OfKind(o, Info) /\ Matches(getListOptions(wish.labels), Desc[o].labels)

\* A container is asked for in something that cannot be read as a pod.
NotAPod == Info.container # Unset /\ \E o \in Objects : Named(o) /\ ~Desc[o].isPod

\* Mutant: the phase of the container's pod is not looked at.
PhaseOkAny(o) == TRUE

PhaseOk(o) == o \in running

\* A container is asked for in a pod that does not run.
NotRunning == Info.container # Unset /\ \A o \in alive : Named(o) => ~PhaseOk(o)

\* The resource's part of a wish, as documented.
ResourceMet ==
  wish.kind # Unset =>
    \E o \in alive :
      /\ Desc[o].kind = wish.kind /\ Desc[o].ns = wish.ns
      /\ Desc[o].group = (IF wish.long THEN wish.group ELSE Unset)
      /\ Desc[o].version = (IF wish.long THEN wish.version ELSE "v1")
      /\ wish.name # Unset => Desc[o].name = wish.name
      /\ wish.container # Unset => o \in running
      /\ wish.name = Unset =>
           \A i \in DOMAIN wish.labels :
             LET key == IF wish.labels[i][1] = "oid" THEN "opnum" ELSE wish.labels[i][1] IN
             /\ Len(wish.labels[i]) > 1 /\ key \in DOMAIN Desc[o].labels
             /\ Desc[o].labels[key] = wish.labels[i][2]

\* The condition of HandlePredicate's loop.
TimeLeft == totalWait < timeout

\* The first half of a check: nothing usable is configured, the list of labels
\* is malformed, the cluster does not have it, or the command is next. A request
\* that fails looks like one that finds nothing.
CheckResource ==
  /\ pc = "check" /\ TimeLeft
  /\ answered' \in {TRUE, Info.gvk = << >>}
  /\ pc' = IF (Info.gvk = << >> \/ Info.ns = Unset) /\ ~wish.command THEN "passed"
           ELSE IF Info.gvk = << >> THEN "command"
           ELSE IF Info.name = Unset /\ BadLabel THEN "panic"
           ELSE IF ~answered' \/ ~Found THEN "sleep"
           ELSE IF NotAPod THEN "passed"
           ELSE IF NotRunning THEN "sleep"
           ELSE IF wish.command THEN "command" ELSE "passed"
  /\ met' = ResourceMet
  /\ UNCHANGED <<wish, totalWait, clusterVars>>

\* Where the command runs: in the container the pod was found to have, on this
\* machine, or, as the container is not there, not at all.
Place ==
  IF Info.container = Unset THEN "here"
  ELSE IF \E o \in Objects : Named(o) /\ Info.container \in Desc[o].containers
       THEN "container" ELSE "nowhere"

\* An Expect that is neither of the two is ignored.
isPredicateExpected(has) ==
  CASE wish.expect = "contains" -> has
    [] wish.expect = "!contains" -> ~has
    [] OTHER -> TRUE

\* A command that fails here, or for which no executor can be made in the container,
\* is ignored. What goes wrong in the container shows in the output alone.
CommandOk == Place = "nowhere" \/ output = "fail" \/ isPredicateExpected(output = "has")

\* The second half.
CheckCommand ==
  /\ pc = "command"
  /\ pc' = IF CommandOk THEN "passed" ELSE "sleep"
  /\ met' = (met /\ (wish.expect = "contains") = (output = "has"))
  /\ UNCHANGED <<wish, totalWait, clusterVars, answered>>

-----------------------------------------------------------------------------
(* HandlePredicate *)

Sleep ==
  /\ pc = "sleep"
  /\ totalWait' = totalWait + interval
  /\ pc' = "check"
  /\ UNCHANGED <<wish, clusterVars, answered, met>>

\* Mutant: the time is never over.
TimeOverNever == FALSE

TimeOver == ~TimeLeft

TimeOut ==
  /\ pc = "check" /\ TimeOver
  /\ pc' = "timedout"
  /\ UNCHANGED <<wish, totalWait, clusterVars, answered, met>>

HandlePredicate == CheckResource \/ CheckCommand \/ Sleep \/ TimeOut

Waiting == pc \in {"check", "command", "sleep"}

\* The cluster makes, moves and deletes objects, and the command's output changes.
ClusterStep ==
  /\ Waiting
  /\ \/ \E o \in Objects :
          \/ o \notin alive /\ alive' = alive \cup {o} /\ UNCHANGED <<running, output>>
          \/ /\ o \in alive /\ alive' = alive \ {o} /\ running' = running \ {o}
             /\ UNCHANGED output
          \/ /\ o \in alive /\ Desc[o].kind = "Pod"
             /\ running' = IF o \in running THEN running \ {o} ELSE running \cup {o}
             /\ UNCHANGED <<alive, output>>
     \/ output' \in {"has", "lacks", "fail"} \ {output} /\ UNCHANGED <<alive, running>>
  /\ UNCHANGED <<wish, pc, totalWait, answered, met>>

Init ==
  /\ wish \in Wishes
  /\ pc = "check" /\ totalWait = 0 /\ answered = TRUE /\ met = FALSE
  /\ alive \in SUBSET Objects /\ running \in SUBSET {o \in alive : Desc[o].kind = "Pod"}
  /\ output \in {"has", "lacks", "fail"}

Next == HandlePredicate \/ ClusterStep

Spec == Init /\ [][Next]_vars

\* The driver polls; the requests and the command return.
FairSpec == Spec /\ WF_vars(HandlePredicate)

-----------------------------------------------------------------------------
(* Properties *)

TypeOK ==
  /\ wish \in Wishes
  /\ pc \in {"check", "command", "sleep", "passed", "timedout", "panic"}
  /\ totalWait \in 0 .. timeout + interval
  /\ alive \subseteq Objects /\ running \subseteq alive
  /\ output \in {"has", "lacks", "fail"} /\ answered \in BOOLEAN /\ met \in BOOLEAN

\* The Resource option is read for what it is written for, unless one of its names
\* contains "namespaces" in the short format.
Understood ==
  \/ wish.kind = Unset \/ wish.long
  \/ \A i \in DOMAIN Resource : Resource[i] \notin NamespacesLike

\* Two labels ask for different values of one key: no object has both, and only the
\* later one is asked for.
Contradictory ==
  \E i, j \in DOMAIN wish.labels :
    Key(wish.labels[i]) = Key(wish.labels[j]) /\ wish.labels[i][2] # wish.labels[j][2]

\* The predicates whose resource was not understood, has no namespace, cannot have the
\* labels or is no pod though a container of it is asked for; or whose command is
\* ignored: it cannot be run, there is no such container, Expect is malformed.
Ignored ==
  \/ ~Understood
  \/ wish.kind # Unset /\ wish.ns = Unset
  \/ wish.kind # Unset /\ wish.name = Unset /\ Contradictory
  \/ NotAPod
  \/ wish.command /\ (wish.expect = "nonsense" \/ Place = "nowhere" \/ output = "fail")

\* "the matched resource must exist before the operation can be executed. If a
\* container name is specified, the corresponding pod has to be in Running phase";
\* the benchmark will "proceed only if the output is expected": a predicate that
\* passes was found to hold by its last check, resource first and command later,
\* unless it is one of those the code ignores.
PassedAsDocumented == pc = "passed" => met \/ Ignored

\* A predicate that holds when it is checked delays the operation only when the request
\* about its resource failed.
WaitsAsDocumented == pc = "sleep" /\ Understood => ~met \/ ~answered

\* The operation is not delayed for ever, whatever the cluster does.
Ends == <>~Waiting

=============================================================================
