-------------------------- MODULE PredicateProofs --------------------------
(***************************************************************************)
(* An operation starts and waits as the documentation of predicates says,  *)
(* for every set of predicates, every cluster and every timeout.           *)
(***************************************************************************)
EXTENDS Predicate, SequenceTheorems, FiniteInduction

-----------------------------------------------------------------------------
(* How the Resource option is read. *)

\* What the option is written for.
Meant ==
  [gvk |-> <<IF wish.long THEN wish.group ELSE Unset,
             IF wish.long THEN wish.version ELSE "v1", wish.kind>>,
   ns |-> wish.ns, name |-> wish.name, container |-> wish.container]

\* The place before the namespace.
Front == IF wish.long THEN 3 ELSE 0

\* What the proofs need of a wish.
LEMMA WishParts ==
  ASSUME wish \in Wishes
  PROVE  /\ wish.container # Unset => wish.name # Unset
         /\ wish.kind # Unset /\ wish.ns = Unset => ~wish.command
         /\ wish.long \in BOOLEAN /\ wish.command \in BOOLEAN
         /\ wish.labels \in Seq(Seq(STRING))
         /\ wish.expect \in {"contains", "!contains", "nonsense"}
BY WishAssumption DEF Wish

\* Putting one sequence before another moves its elements up.
LEMMA AfterFront ==
  ASSUME NEW S, NEW s \in Seq(S), NEW t \in Seq(S)
  PROVE  /\ s \o t \in Seq(S) /\ Len(s \o t) = Len(s) + Len(t)
         /\ Len(s) \in Nat /\ Len(t) \in Nat
         /\ \A i \in 1 .. Len(s) : (s \o t)[i] = s[i]
         /\ \A i \in 1 .. Len(t) : (s \o t)[Len(s) + i] = t[i]
<1>1. Len(s) \in Nat /\ Len(t) \in Nat
  BY LenProperties
<1> QED
  BY <1>1, ConcatProperties

\* Where the elements of four sequences are in a fifth.
InTurn(r, s, t, u, v) ==
  /\ DOMAIN r = 1 .. Len(r) /\ Len(r) = Len(s) + Len(t) + Len(u) + Len(v)
  /\ \A i \in 1 .. Len(s) : r[i] = s[i]
  /\ \A i \in 1 .. Len(t) : r[Len(s) + i] = t[i]
  /\ \A i \in 1 .. Len(u) : r[Len(s) + Len(t) + i] = u[i]
  /\ \A i \in 1 .. Len(v) : r[Len(s) + Len(t) + Len(u) + i] = v[i]

LEMMA FourParts ==
  ASSUME NEW S, NEW s \in Seq(S), NEW t \in Seq(S), NEW u \in Seq(S), NEW v \in Seq(S)
  PROVE  InTurn(((s \o t) \o u) \o v, s, t, u, v)
<1> DEFINE a == s \o t
           b == a \o u
           c == b \o v
<1>a. a \in Seq(S)
  BY AfterFront
<1>1. /\ a \in Seq(S) /\ Len(a) = Len(s) + Len(t) /\ Len(s) \in Nat /\ Len(t) \in Nat
      /\ \A i \in 1 .. Len(s) : a[i] = s[i]
      /\ \A i \in 1 .. Len(t) : a[Len(s) + i] = t[i]
  BY AfterFront
<1> HIDE DEF a
<1>b. b \in Seq(S)
  BY <1>a, AfterFront
<1>2. /\ b \in Seq(S) /\ Len(b) = Len(a) + Len(u) /\ Len(u) \in Nat
      /\ \A i \in 1 .. Len(a) : b[i] = a[i]
      /\ \A i \in 1 .. Len(u) : b[Len(a) + i] = u[i]
  BY <1>a, AfterFront
<1> HIDE DEF b
<1>3. /\ c \in Seq(S) /\ Len(c) = Len(b) + Len(v) /\ Len(v) \in Nat
      /\ \A i \in 1 .. Len(b) : c[i] = b[i]
      /\ \A i \in 1 .. Len(v) : c[Len(b) + i] = v[i]
  BY <1>b, AfterFront
<1> HIDE DEF c
<1>4. \A i \in 1 .. Len(s) : c[i] = s[i]
  BY <1>1, <1>2, <1>3
<1>5. ASSUME NEW i \in 1 .. Len(t) PROVE c[Len(s) + i] = t[i]
  <2>1. Len(s) + i \in 1 .. Len(a) /\ Len(s) + i \in 1 .. Len(b)
    BY <1>1, <1>2
  <2> QED
    BY <1>1, <1>2, <1>3, <2>1
<1>6. ASSUME NEW i \in 1 .. Len(u) PROVE c[Len(s) + Len(t) + i] = u[i]
  BY <1>1, <1>2, <1>3
<1>7. ASSUME NEW i \in 1 .. Len(v) PROVE c[Len(s) + Len(t) + Len(u) + i] = v[i]
  BY <1>1, <1>2, <1>3
<1>8. DOMAIN c = 1 .. Len(c) /\ Len(c) = Len(s) + Len(t) + Len(u) + Len(v)
  BY <1>1, <1>2, <1>3, LenProperties
<1>9. InTurn(c, s, t, u, v)
  BY <1>4, <1>5, <1>6, <1>7, <1>8 DEF InTurn
<1> QED
  BY <1>9 DEF a, b, c

\* Short sequences.
LEMMA One ==
  ASSUME NEW S, NEW a \in S
  PROVE  <<a>> \in Seq(S) /\ Len(<<a>>) = 1 /\ <<a>>[1] = a
OBVIOUS

LEMMA Two ==
  ASSUME NEW S, NEW a \in S, NEW b \in S
  PROVE  <<a, b>> \in Seq(S) /\ Len(<<a, b>>) = 2 /\ <<a, b>>[1] = a /\ <<a, b>>[2] = b
OBVIOUS

LEMMA Three ==
  ASSUME NEW S, NEW a \in S, NEW b \in S, NEW c \in S
  PROVE  /\ <<a, b, c>> \in Seq(S) /\ Len(<<a, b, c>>) = 3
         /\ <<a, b, c>>[1] = a /\ <<a, b, c>>[2] = b /\ <<a, b, c>>[3] = c
OBVIOUS

\* The option's parts are where they are looked for.
LEMMA ResourceParts ==
  ASSUME wish \in Wishes, wish.kind # Unset
  PROVE  /\ DOMAIN Resource = 1 .. Len(Resource)
         /\ Len(Resource) = Front + 2 + (IF wish.name = Unset THEN 0 ELSE 1)
                                      + (IF wish.container = Unset THEN 0 ELSE 1)
         /\ wish.long => /\ Resource[1] = wish.group /\ Resource[2] = wish.version
                         /\ Resource[3] = "namespaces"
         /\ Resource[Front + 1] = wish.ns /\ Resource[Front + 2] = wish.kind
         /\ wish.name # Unset => Resource[Front + 3] = wish.name
         /\ wish.name # Unset /\ wish.container # Unset => Resource[Front + 4] = wish.container
<1> DEFINE S == {wish.group, wish.version, "namespaces", wish.ns, wish.kind, wish.name,
                 wish.container}
           front == IF wish.long THEN <<wish.group, wish.version, "namespaces">> ELSE << >>
           object == <<wish.ns, wish.kind>>
           g == Given(wish.name)
           h == Given(wish.container)
<1>0. /\ wish.group \in S /\ wish.version \in S /\ "namespaces" \in S /\ wish.ns \in S
      /\ wish.kind \in S /\ wish.name \in S /\ wish.container \in S
  OBVIOUS
<1> HIDE DEF S
<1>1. /\ front \in Seq(S) /\ Len(front) = Front
      /\ wish.long =>
           (front[1] = wish.group /\ front[2] = wish.version /\ front[3] = "namespaces")
  <2>1. CASE wish.long
    <3>1. front = <<wish.group, wish.version, "namespaces">> /\ Front = 3
      BY <2>1 DEF Front
    <3> QED
      BY <1>0, <3>1, Three, Zenon
  <2>2. CASE ~wish.long
    <3>1. front = << >> /\ Front = 0
      BY <2>2 DEF Front
    <3> QED
      BY <2>2, <3>1, EmptySeq, Zenon
  <2> QED
    BY <2>1, <2>2
<1>2. object \in Seq(S) /\ Len(object) = 2 /\ object[1] = wish.ns /\ object[2] = wish.kind
  BY <1>0, Two, Zenon
<1>3. /\ g \in Seq(S) /\ Len(g) = (IF wish.name = Unset THEN 0 ELSE 1)
      /\ wish.name # Unset => g[1] = wish.name
  BY <1>0, One, EmptySeq, Zenon DEF Given
<1>4. /\ h \in Seq(S) /\ Len(h) = (IF wish.container = Unset THEN 0 ELSE 1)
      /\ wish.container # Unset => h[1] = wish.container
  BY <1>0, One, EmptySeq, Zenon DEF Given
<1> DEFINE r == ((front \o object) \o g) \o h
<1>5. Resource = r
  BY DEF Resource
<1> HIDE DEF front, object, g, h
<1> HIDE DEF r
<1>6. /\ DOMAIN r = 1 .. Len(r) /\ Len(r) = Len(front) + 2 + Len(g) + Len(h)
      /\ Len(front) = 3 => (r[1] = front[1] /\ r[2] = front[2] /\ r[3] = front[3])
      /\ r[Len(front) + 1] = object[1] /\ r[Len(front) + 2] = object[2]
      /\ Len(g) = 1 => r[Len(front) + 3] = g[1]
      /\ Len(g) = 1 /\ Len(h) = 1 => r[Len(front) + 4] = h[1]
  <2>1. front \in Seq(S) /\ object \in Seq(S) /\ g \in Seq(S) /\ h \in Seq(S)
    BY <1>1, <1>2, <1>3, <1>4
  <2>2. InTurn(r, front, object, g, h)
    BY <2>1, FourParts, Zenon DEF r
  <2>3. Len(front) \in Nat /\ Len(object) = 2 /\ Len(g) \in Nat /\ Len(h) \in Nat
    BY <1>2, <2>1, LenProperties
  <2>4. Len(g) = 1 => r[Len(front) + 2 + 1] = g[1]
    BY <2>2, <2>3 DEF InTurn
  <2>5. Len(g) = 1 /\ Len(h) = 1 => r[Len(front) + 2 + 1 + 1] = h[1]
    BY <2>2, <2>3 DEF InTurn
  <2> QED
    BY <2>2, <2>3, <2>4, <2>5 DEF InTurn
<1>7. wish.long => Front = 3
  BY DEF Front
<1> QED
  BY <1>1, <1>2, <1>3, <1>4, <1>5, <1>6, <1>7, Zenon

\* An option that is understood is read for what it is written for.
LEMMA ReadAsWritten ==
  ASSUME wish \in Wishes, Understood, wish.kind # Unset
  PROVE  Info = Meant
<1> DEFINE r == Resource
           n == IF wish.name = Unset THEN 0 ELSE 1
           m == IF wish.container = Unset THEN 0 ELSE 1
<1>1. /\ DOMAIN r = 1 .. Len(r) /\ Len(r) = Front + 2 + n + m
      /\ wish.long => (r[1] = wish.group /\ r[2] = wish.version /\ r[3] = "namespaces")
      /\ r[Front + 1] = wish.ns /\ r[Front + 2] = wish.kind
      /\ wish.name # Unset => r[Front + 3] = wish.name
      /\ wish.name # Unset /\ wish.container # Unset => r[Front + 4] = wish.container
  BY ResourceParts, Zenon
<1>2. Info = getResourceInfo(r)
  BY DEF Info
<1>3. Understood => wish.long \/ \A i \in DOMAIN r : r[i] \notin NamespacesLike
  BY DEF Understood
<1>4. /\ n \in {0, 1} /\ m \in {0, 1} /\ (m = 1 => n = 1)
      /\ (n = 1 <=> wish.name # Unset) /\ (m = 1 <=> wish.container # Unset)
  BY WishParts
<1> HIDE DEF r, n, m
<1>5. CASE wish.long
  <2>1. Front = 3
    BY <1>5 DEF Front
  <2>2. /\ Len(r) = 5 + n + m /\ r[1] = wish.group /\ r[2] = wish.version
        /\ r[3] = "namespaces" /\ r[4] = wish.ns /\ r[5] = wish.kind
        /\ n = 1 => r[6] = wish.name
        /\ m = 1 => r[7] = wish.container
    BY <1>1, <1>4, <1>5, <2>1
  <2>3. 3 \in DOMAIN r
    BY <1>1, <1>4, <2>2
  <2>4. \E i \in DOMAIN r : r[i] \in NamespacesLike
    BY <2>2, <2>3, DescAssumption
  <2>5. Len(r) \in 5 .. 7
    BY <1>4, <2>2
  <2>6. Info = [gvk |-> <<r[1], r[2], r[5]>>, ns |-> r[4],
                name |-> IF Len(r) > 5 THEN r[6] ELSE Unset,
                container |-> IF Len(r) > 6 THEN r[7] ELSE Unset]
    BY <1>2, <2>2, <2>4, <2>5 DEF getResourceInfo
  <2>7. (IF Len(r) > 5 THEN r[6] ELSE Unset) = wish.name
    BY <1>4, <2>2
  <2>8. (IF Len(r) > 6 THEN r[7] ELSE Unset) = wish.container
    BY <1>4, <2>2
  <2> QED
    BY <1>5, <2>2, <2>6, <2>7, <2>8 DEF Meant
<1>6. CASE ~wish.long
  <2>1. Front = 0
    BY <1>6 DEF Front
  <2>2. /\ Len(r) = 2 + n + m /\ r[1] = wish.ns /\ r[2] = wish.kind
        /\ n = 1 => r[3] = wish.name
        /\ m = 1 => r[4] = wish.container
    BY <1>1, <1>4, <2>1
  <2>3. ~\E i \in DOMAIN r : r[i] \in NamespacesLike
    BY <1>3, <1>6
  <2>4. Len(r) \in 2 .. 4
    BY <1>4, <2>2
  <2>5. Info = [gvk |-> <<Unset, "v1", r[2]>>, ns |-> r[1],
                name |-> IF Len(r) > 2 THEN r[3] ELSE Unset,
                container |-> IF Len(r) > 3 THEN r[4] ELSE Unset]
    BY <1>2, <2>3, <2>4 DEF getResourceInfo
  <2>6. (IF Len(r) > 2 THEN r[3] ELSE Unset) = wish.name
    BY <1>4, <2>2
  <2>7. (IF Len(r) > 3 THEN r[4] ELSE Unset) = wish.container
    BY <1>4, <2>2
  <2> QED
    BY <1>6, <2>2, <2>5, <2>6, <2>7 DEF Meant
<1> QED
  BY <1>5, <1>6

\* Nothing is read from an option that is not given.
LEMMA NothingRead ==
  ASSUME wish.kind = Unset
  PROVE  Info = NoInfo
<1>1. Resource = <<Unset>> /\ Len(<<Unset>>) = 1
  BY DEF Resource
<1> QED
  BY <1>1 DEF Info, getResourceInfo

-----------------------------------------------------------------------------
(* What is asked for. *)

\* The last of the labels with a key is one of them.
LEMMA LastWithIsOne ==
  ASSUME NEW labels \in Seq(Seq(STRING)), NEW k \in DOMAIN labels
  PROVE  LET i == LastWith(labels, Key(labels[k])) IN
         i \in DOMAIN labels /\ Key(labels[i]) = Key(labels[k])
<1> DEFINE key == Key(labels[k])
           Same == {i \in DOMAIN labels : Key(labels[i]) = key}
<1>1. DOMAIN labels = 1 .. Len(labels) /\ Len(labels) \in Nat
  BY LenProperties
<1>2. IsFiniteSet(Same) /\ Same \in SUBSET Int /\ k \in Same
  <2>1. Same \subseteq 1 .. Len(labels) /\ k \in Same
    BY <1>1
  <2>2. IsFiniteSet(1 .. Len(labels))
    BY <1>1, FS_Interval
  <2> QED
    BY <2>1, <2>2, FS_Subset
<1>3. PICK m \in Same : \A n \in Same : n <= m
  <2> HIDE DEF Same
  <2> QED
    BY <1>2, LargestOf
<1>4. \E i \in DOMAIN labels :
        Key(labels[i]) = key /\ \A j \in DOMAIN labels : Key(labels[j]) = key => j <= i
  BY <1>3
<1> QED
  BY <1>4, Zenon DEF LastWith

\* An object that has all the labels is selected.
LEMMA AllLabelsMatch ==
  ASSUME NEW labels \in Seq(Seq(STRING)), NEW given,
         \A i \in DOMAIN labels :
           Key(labels[i]) \in DOMAIN given /\ given[Key(labels[i])] = labels[i][2]
  PROVE  Matches(getListOptions(labels), given)
<1> DEFINE asked == getListOptions(labels)
<1>1. ASSUME NEW key \in DOMAIN asked
      PROVE  key \in DOMAIN given /\ given[key] = asked[key]
  <2>1. PICK k \in DOMAIN labels : key = Key(labels[k])
    BY <1>1 DEF getListOptions
  <2>2. asked[key] = labels[LastWith(labels, key)][2]
    BY <1>1 DEF getListOptions
  <2> DEFINE i == LastWith(labels, key)
  <2>3. i \in DOMAIN labels /\ Key(labels[i]) = key
    BY <2>1, LastWithIsOne, Zenon
  <2> HIDE DEF i
  <2>4. key \in DOMAIN given /\ given[key] = labels[i][2]
    BY <2>3, Zenon
  <2> QED
    BY <2>2, <2>4 DEF i
<1> QED
  BY <1>1, Zenon DEF Matches

\* An object that is selected has all the labels, if no two of them contradict each
\* other.
LEMMA MatchHasAllLabels ==
  ASSUME NEW labels \in Seq(Seq(STRING)), NEW given,
         \A i, j \in DOMAIN labels :
           Key(labels[i]) = Key(labels[j]) => labels[i][2] = labels[j][2],
         Matches(getListOptions(labels), given),
         NEW k \in DOMAIN labels
  PROVE  Key(labels[k]) \in DOMAIN given /\ given[Key(labels[k])] = labels[k][2]
<1> DEFINE asked == getListOptions(labels)
           key == Key(labels[k])
           i == LastWith(labels, key)
<1>1. key \in DOMAIN asked
  BY DEF getListOptions
<1>2. asked[key] = labels[i][2]
  BY <1>1 DEF getListOptions
<1>3. key \in DOMAIN given /\ given[key] = asked[key]
  BY <1>1, Zenon DEF Matches
<1>4. i \in DOMAIN labels /\ Key(labels[i]) = key
  BY LastWithIsOne, Zenon
<1>5. labels[i][2] = labels[k][2]
  <2> HIDE DEF i
  <2> QED
    BY <1>4, Zenon
<1> QED
  BY <1>2, <1>3, <1>5, Zenon

\* The labels are well formed unless one is bad, and have the documented keys.
LEMMA LabelsAsked ==
  ASSUME wish \in Wishes, NEW o
  PROVE  (\A i \in DOMAIN wish.labels :
             LET key == IF wish.labels[i][1] = "oid" THEN "opnum" ELSE wish.labels[i][1] IN
             /\ Len(wish.labels[i]) > 1 /\ key \in DOMAIN Desc[o].labels
             /\ Desc[o].labels[key] = wish.labels[i][2])
         <=> ~BadLabel /\ \A i \in DOMAIN wish.labels :
               /\ Key(wish.labels[i]) \in DOMAIN Desc[o].labels
               /\ Desc[o].labels[Key(wish.labels[i])] = wish.labels[i][2]
<1>1. ASSUME NEW i \in DOMAIN wish.labels
      PROVE  Len(wish.labels[i]) \in Nat
  <2>1. wish.labels[i] \in Seq(STRING)
    BY <1>1, WishParts
  <2> QED
    BY <2>1, LenProperties
<1>2. ~BadLabel <=> \A i \in DOMAIN wish.labels : Len(wish.labels[i]) > 1
  BY <1>1 DEF BadLabel
<1> QED
  BY <1>2 DEF Key

\* What is asked for is found when the cluster has what the documentation says, and
\* nothing else is unless two labels contradict each other.
LEMMA FoundIsMet ==
  ASSUME wish \in Wishes, wish.kind # Unset, Info = Meant
  PROVE  /\ ResourceMet => Found /\ ~NotRunning
         /\ Found /\ ~NotRunning /\ ~(wish.name = Unset /\ (BadLabel \/ Contradictory))
              => ResourceMet
<1> DEFINE Labelled(o) ==
      \A i \in DOMAIN wish.labels :
        LET key == IF wish.labels[i][1] = "oid" THEN "opnum" ELSE wish.labels[i][1] IN
        /\ Len(wish.labels[i]) > 1 /\ key \in DOMAIN Desc[o].labels
        /\ Desc[o].labels[key] = wish.labels[i][2]
     Selected(o) == Matches(getListOptions(wish.labels), Desc[o].labels)
<1>1. Info.gvk = <<IF wish.long THEN wish.group ELSE Unset,
                   IF wish.long THEN wish.version ELSE "v1", wish.kind>>
      /\ Info.ns = wish.ns /\ Info.name = wish.name /\ Info.container = wish.container
  BY DEF Meant
<1>2. wish.container # Unset => wish.name # Unset
  BY WishParts
<1>3. wish.labels \in Seq(Seq(STRING))
  BY WishParts
<1>4. ASSUME NEW o, Labelled(o) PROVE Selected(o)
  <2>1. \A i \in DOMAIN wish.labels :
          /\ Key(wish.labels[i]) \in DOMAIN Desc[o].labels
          /\ Desc[o].labels[Key(wish.labels[i])] = wish.labels[i][2]
    BY <1>4, LabelsAsked
  <2> QED
    BY <1>3, <2>1, AllLabelsMatch, Zenon
<1>5. ASSUME NEW o, Selected(o), ~BadLabel, ~Contradictory PROVE Labelled(o)
  <2>1. \A i, j \in DOMAIN wish.labels :
          Key(wish.labels[i]) = Key(wish.labels[j]) => wish.labels[i][2] = wish.labels[j][2]
    BY <1>5 DEF Contradictory
  <2>2. \A k \in DOMAIN wish.labels :
          /\ Key(wish.labels[k]) \in DOMAIN Desc[o].labels
          /\ Desc[o].labels[Key(wish.labels[k])] = wish.labels[k][2]
    BY <1>3, <1>5, <2>1, MatchHasAllLabels
  <2> QED
    BY <1>5, <2>2, LabelsAsked
<1> HIDE DEF Labelled, Selected
<1>6. ResourceMet <=>
        \E o \in alive :
          /\ OfKind(o, Info)
          /\ wish.name # Unset => Desc[o].name = wish.name
          /\ wish.container # Unset => o \in running
          /\ wish.name = Unset => Labelled(o)
  BY <1>1 DEF ResourceMet, OfKind, Labelled
<1>7. Found <=>
        \E o \in alive :
          /\ OfKind(o, Info)
          /\ IF wish.name # Unset THEN Desc[o].name = wish.name ELSE Selected(o)
  BY <1>1 DEF Found, Named, Selected
<1>8. ~NotRunning <=>
        \/ wish.container = Unset
        \/ \E o \in alive :
             OfKind(o, Info) /\ Desc[o].name = wish.name /\ o \in running
  BY <1>1 DEF NotRunning, Named, PhaseOk
<1> QED
  BY <1>2, <1>4, <1>5, <1>6, <1>7, <1>8

-----------------------------------------------------------------------------
(* A check, step by step. *)

\* The part of Ignored that is about the resource, which a check decides first.
Unchecked ==
  \/ ~Understood
  \/ wish.kind # Unset /\ wish.ns = Unset
  \/ wish.kind # Unset /\ wish.name = Unset /\ Contradictory

\* The sleep and the command come while there is time left; and when the command
\* comes, the resource was found as wished or is ignored, which is what the second
\* half of a check relies on and does not look at again.
CheckInv ==
  /\ TypeOK
  /\ pc \in {"sleep", "command"} => totalWait < timeout
  /\ pc = "command" => wish.command /\ (met \/ Unchecked)
  /\ PassedAsDocumented
  /\ WaitsAsDocumented

\* The first half finds what is wished for, and goes to sleep without it.
LEMMA FirstHalf ==
  ASSUME wish \in Wishes, CheckResource
  PROVE  /\ pc' = "passed" => ResourceMet \/ Unchecked \/ NotAPod
         /\ pc' = "command" => ResourceMet \/ Unchecked
         /\ pc' = "sleep" /\ Understood => ~ResourceMet \/ ~answered'
         /\ pc' = "command" => wish.command
         /\ pc' \in {"passed", "panic", "sleep", "command"}
<1>1. pc' = IF (Info.gvk = << >> \/ Info.ns = Unset) /\ ~wish.command THEN "passed"
            ELSE IF Info.gvk = << >> THEN "command"
            ELSE IF Info.name = Unset /\ BadLabel THEN "panic"
            ELSE IF ~answered' \/ ~Found THEN "sleep"
            ELSE IF NotAPod THEN "passed"
            ELSE IF NotRunning THEN "sleep"
            ELSE IF wish.command THEN "command" ELSE "passed"
  BY DEF CheckResource
<1>2. wish.command \in BOOLEAN /\ (wish.kind # Unset /\ wish.ns = Unset => ~wish.command)
  BY WishParts
<1>3. CASE wish.kind = Unset
  <2>1. Info.gvk = << >>
    BY <1>3, NothingRead DEF NoInfo
  <2> QED
    BY <1>1, <1>2, <1>3, <2>1 DEF ResourceMet
<1>4. CASE wish.kind # Unset /\ ~Understood
  BY <1>1, <1>2, <1>4 DEF Unchecked
<1>5. CASE wish.kind # Unset /\ Understood
  <2>1. Info = Meant
    BY <1>5, ReadAsWritten
  <2>2. Info.gvk # << >> /\ Info.ns = wish.ns /\ Info.name = wish.name
    BY <2>1 DEF Meant
  <2>3. /\ ResourceMet => Found /\ ~NotRunning
        /\ Found /\ ~NotRunning /\ ~(wish.name = Unset /\ (BadLabel \/ Contradictory))
             => ResourceMet
    BY <1>5, <2>1, FoundIsMet
  <2> QED
    BY <1>1, <1>2, <1>5, <2>2, <2>3 DEF Unchecked
<1> QED
  BY <1>3, <1>4, <1>5

\* What is ignored depends on the predicate and the command's output only.
LEMMA IgnoredStays ==
  ASSUME UNCHANGED wish
  PROVE  /\ Unchecked' <=> Unchecked
         /\ NotAPod' <=> NotAPod
         /\ UNCHANGED output => (Ignored' <=> Ignored)
         /\ Understood' <=> Understood
<1>1. Resource' = Resource
  BY DEF Resource
<1>2. Info' = Info
  BY <1>1 DEF Info
<1>3. Place' = Place
  BY <1>2 DEF Place, Named, OfKind
<1>6. NotAPod' <=> NotAPod
  BY <1>2 DEF NotAPod, Named, OfKind
<1>4. Understood' <=> Understood
  BY <1>1 DEF Understood
<1>5. Contradictory' <=> Contradictory
  BY DEF Contradictory
<1> QED
  BY <1>3, <1>4, <1>5, <1>6 DEF Unchecked, Ignored

\* A step that leaves the check and the predicate alone keeps what is known.
LEMMA CheckStays ==
  ASSUME CheckInv, TypeOK', UNCHANGED <<wish, answered, met>>,
         pc' = "passed" => pc = "passed" /\ UNCHANGED output,
         pc' \in {"sleep", "command"} => pc' = pc /\ UNCHANGED totalWait
  PROVE  CheckInv'
<1>1. timeout' = timeout
  OBVIOUS
<1>2. pc' \in {"sleep", "command"} => totalWait' < timeout
  BY DEF CheckInv
<1>3. pc' = "command" => wish'.command /\ (met' \/ Unchecked')
  BY IgnoredStays DEF CheckInv
<1>4. PassedAsDocumented'
  BY IgnoredStays DEF CheckInv, PassedAsDocumented
<1>5. WaitsAsDocumented'
  BY IgnoredStays DEF CheckInv, WaitsAsDocumented
<1> QED
  BY <1>2, <1>3, <1>4, <1>5 DEF CheckInv

\* Every step keeps the types; the time waited grows by an interval and only while
\* it is below the timeout.
LEMMA TypesStay ==
  ASSUME TypeOK, pc = "sleep" => totalWait < timeout, [Next]_vars
  PROVE  TypeOK'
<1> USE TimeAssumption
<1>1. CASE CheckResource
  <2>1. pc' \in {"passed", "panic", "sleep", "command"}
    BY <1>1, FirstHalf DEF TypeOK
  <2>2. met' \in BOOLEAN /\ answered' \in BOOLEAN
    BY <1>1 DEF CheckResource, ResourceMet
  <2> QED
    BY <1>1, <2>1, <2>2 DEF TypeOK, CheckResource, clusterVars
<1>2. CASE CheckCommand
  <2>1. met' \in BOOLEAN /\ pc' \in {"passed", "sleep"}
    BY <1>2 DEF CheckCommand
  <2> QED
    BY <1>2, <2>1 DEF TypeOK, CheckCommand, clusterVars
<1>3. CASE Sleep
  BY <1>3 DEF TypeOK, Sleep, clusterVars
<1>4. CASE TimeOut
  BY <1>4 DEF TypeOK, TimeOut, clusterVars
<1>5. CASE ClusterStep
  BY <1>5 DEF TypeOK, ClusterStep
<1>6. CASE UNCHANGED vars
  BY <1>6 DEF TypeOK, vars, clusterVars
<1> QED
  BY <1>1, <1>2, <1>3, <1>4, <1>5, <1>6 DEF Next, HandlePredicate

\* Every step keeps the invariant.
LEMMA CheckInvInductive == CheckInv /\ [Next]_vars => CheckInv'
<1> SUFFICES ASSUME CheckInv, [Next]_vars PROVE CheckInv'
  OBVIOUS
<1>0. TypeOK' /\ wish \in Wishes
  BY TypesStay DEF CheckInv, TypeOK
<1>1. CASE CheckResource
  <2>1. /\ totalWait' < timeout /\ wish' = wish
        /\ (met' <=> ResourceMet)
    BY <1>1 DEF CheckResource, TimeLeft
  <2>2. /\ pc' = "passed" => met' \/ Unchecked' \/ NotAPod'
        /\ pc' = "command" => met' \/ Unchecked'
    BY <1>0, <1>1, <2>1, FirstHalf, IgnoredStays
  <2>3. PassedAsDocumented'
    BY <2>2 DEF PassedAsDocumented, Unchecked, Ignored
  <2>4. WaitsAsDocumented'
    BY <1>0, <1>1, <2>1, FirstHalf, IgnoredStays DEF WaitsAsDocumented
  <2>5. pc' = "command" => wish'.command
    BY <1>0, <1>1, <2>1, FirstHalf
  <2> QED
    BY <1>0, <2>1, <2>2, <2>3, <2>4, <2>5 DEF CheckInv
<1>2. CASE CheckCommand
  <2>1. /\ wish' = wish /\ output' = output /\ totalWait' = totalWait
        /\ pc' = IF CommandOk THEN "passed" ELSE "sleep"
        /\ met' <=> met /\ ((wish.expect = "contains") <=> (output = "has"))
    BY <1>2 DEF CheckCommand, clusterVars
  <2>2. wish.command /\ (met \/ Unchecked) /\ totalWait < timeout
    BY <1>2 DEF CheckInv, CheckCommand
  <2>3. wish.expect \in {"contains", "!contains", "nonsense"}
    BY <1>0, WishParts
  <2>4. ASSUME pc' = "passed" PROVE met' \/ Ignored
    <3>1. CommandOk
      BY <2>1, <2>4
    <3>2. \/ wish.expect = "nonsense" \/ Place = "nowhere" \/ output = "fail"
          \/ (wish.expect = "contains") <=> (output = "has")
      BY <2>3, <3>1 DEF CommandOk, isPredicateExpected
    <3> QED
      BY <2>1, <2>2, <3>2 DEF Ignored, Unchecked
  <2>5. ASSUME pc' = "sleep" PROVE ~met'
    <3>1. ~CommandOk
      BY <2>1, <2>5
    <3>2. ~((wish.expect = "contains") <=> (output = "has"))
      BY <2>3, <3>1 DEF CommandOk, isPredicateExpected
    <3> QED
      BY <2>1, <3>2
  <2>6. PassedAsDocumented' /\ WaitsAsDocumented'
    BY <2>1, <2>4, <2>5, IgnoredStays DEF PassedAsDocumented, WaitsAsDocumented
  <2>7. pc' \in {"passed", "sleep"} /\ totalWait' < timeout
    BY <2>1, <2>2
  <2> QED
    BY <1>0, <2>6, <2>7 DEF CheckInv
<1>3. CASE Sleep
  BY <1>0, <1>3, CheckStays DEF Sleep, clusterVars
<1>4. CASE TimeOut
  BY <1>0, <1>4, CheckStays DEF TimeOut, clusterVars
<1>5. CASE ClusterStep
  BY <1>0, <1>5, CheckStays DEF ClusterStep, Waiting
<1>6. CASE UNCHANGED vars
  BY <1>0, <1>6, CheckStays DEF vars, clusterVars
<1> QED
  BY <1>1, <1>2, <1>3, <1>4, <1>5, <1>6 DEF Next, HandlePredicate

THEOREM CheckInvariant == Spec => []CheckInv
<1>1. ASSUME Init PROVE CheckInv
  <2>1. pc = "check" /\ totalWait = 0 /\ met = FALSE /\ answered = TRUE /\ wish \in Wishes
    BY <1>1 DEF Init
  <2>2. alive \subseteq Objects /\ running \subseteq alive /\ output \in {"has", "lacks", "fail"}
    BY <1>1 DEF Init
  <2>3. 0 \in 0 .. timeout + interval
    BY TimeAssumption
  <2>4. TypeOK
    BY <2>1, <2>2, <2>3 DEF TypeOK
  <2> QED
    BY <2>1, <2>4 DEF CheckInv, PassedAsDocumented, WaitsAsDocumented
<1> QED
  BY <1>1, CheckInvInductive, PTL DEF Spec

\* Every state has its types: no more than an interval is waited beyond the timeout.
THEOREM PredicateTypes == Spec => []TypeOK
<1>1. CheckInv => TypeOK
  BY DEF CheckInv
<1> QED
  BY <1>1, CheckInvariant, PTL

\* An operation whose predicate passes was found by the last check to have what the
\* documentation says, unless the predicate is one of those the code ignores.
THEOREM PassesAsDocumented == Spec => []PassedAsDocumented
<1>1. CheckInv => PassedAsDocumented
  BY DEF CheckInv
<1> QED
  BY <1>1, CheckInvariant, PTL

\* An operation whose predicate holds when it is checked is delayed only by a request
\* that fails.
THEOREM DelaysAsDocumented == Spec => []WaitsAsDocumented
<1>1. CheckInv => WaitsAsDocumented
  BY DEF CheckInv
<1> QED
  BY <1>1, CheckInvariant, PTL

=============================================================================
