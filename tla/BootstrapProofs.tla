---------------------------- MODULE BootstrapProofs ----------------------------
(***************************************************************************)
(* What a start of the persistence, and the writes after it, keep true,     *)
(* for any goals and any file a build could leave.                          *)
(*                                                                         *)
(* EveryTableIsThere: that a file has the tables of its version             *)
(* (VersionOK) makes the steps that are left enough, and that they have all *)
(* been done when the version is about to be stamped (StampOK) makes it     *)
(* safe to skip them at every later start.                                  *)
(*                                                                         *)
(* EarnedBadges: while a badge is due, somebody is still to be told of the  *)
(* races that earned it (AskedAgain).                                       *)
(*                                                                         *)
(* DurableMeansKept: from its hydration on, a domain's file is what its     *)
(* store shows but for the writes that have not settled (OnItsWay); and the *)
(* file's badges are those of the store, each with its first time, but for  *)
(* the ones that are on their way (FirstTime, BadgesTrue, BadgesComing).    *)
(***************************************************************************)
EXTENDS Bootstrap, FiniteSetTheorems, TLAPS

Closed == {"off", "open", "migrate", "stamp"}

VersionOK ==
  /\ version \in Nat
  /\ 1 .. version \subseteq tables

StampOK == pc = "stamp" => ToDo(version) \subseteq tables

MemoryOK == memory \subseteq Domains

IInv == VersionOK /\ StampOK /\ MemoryOK /\ SchemaReady

\* After a domain comes another one, or the wiring.
LEMMA Stages ==
  /\ Domains \cap Closed = {}
  /\ \A d \in Domains : After(d) \notin Closed
  <1>1. Domains \cap Closed = {}
    BY DEF Domains, Order, Closed
  <1>2. ASSUME NEW d \in Domains PROVE After(d) \notin Closed
    <2> DEFINE i == CHOOSE i \in DOMAIN Order : Order[i] = d
    <2>1. DOMAIN Order = 1 .. 6 /\ Len(Order) = 6
      BY DEF Order
    <2>2. i \in 1 .. 6
      BY <2>1 DEF Domains
    <2>0. After(d) = IF i < Len(Order) THEN Order[i + 1] ELSE "wire"
      BY DEF After
    <2> HIDE DEF i
    <2>3. CASE i < Len(Order)
      <3>1. After(d) = Order[i + 1] /\ i + 1 \in DOMAIN Order
        BY <2>0, <2>1, <2>2, <2>3
      <3> QED
        BY <3>1, <1>1 DEF Domains
    <2>4. CASE ~(i < Len(Order))
      BY <2>0, <2>4 DEF Closed
    <2> QED
      BY <2>3, <2>4
  <1> QED
    BY <1>1, <1>2

\* A file of a version has the tables of that version, or one more.
LEMMA Initially == ASSUME Init PROVE IInv
  <1>1. version \in Nat /\ 1 .. version \subseteq tables
    BY DEF Init, Files, MIGRATIONS
  <1> QED
    BY <1>1 DEF Init, IInv, VersionOK, StampOK, MemoryOK, SchemaReady

LEMMA Preserved == ASSUME IInv, [Next]_vars PROVE IInv'
  <1> USE DEF IInv, VersionOK, StampOK, MemoryOK, SchemaReady, MIGRATIONS
  <1>1. CASE Start
    BY <1>1 DEF Start, file, stores, calls
  <1>2. CASE InMemory
    BY <1>2, Stages DEF InMemory, file, stores, calls
  <1>3. CASE Open
    <2>1. version >= 6 => 1 .. 6 \subseteq tables
      OBVIOUS
    <2> QED
      BY <1>3, <2>1 DEF Open, file, stores, calls
  <1>4. CASE Migrate
    BY <1>4 DEF Migrate, ToDo, stores, calls
  <1>5. CASE Stamp
    <2>1. 1 .. 6 \subseteq tables
      BY <1>5 DEF Stamp, ToDo
    <2> QED
      BY <1>5, <2>1 DEF Stamp, ToDo, stores, calls
  <1>6. CASE Wire
    BY <1>6 DEF Wire, file
  <1>7. ASSUME NEW d \in Domains, Initialize(d) PROVE IInv'
    <2>1. /\ pc = d /\ pc' = After(d) /\ pc \notin Closed /\ pc' \notin Closed
          /\ version' = version /\ tables' = tables
          /\ memory' \in {memory, memory \cup {d}}
      BY <1>7, Stages DEF Initialize, file
    <2> QED
      BY <2>1 DEF Closed
  <1>8. ASSUME UNCHANGED <<pc, memory, version, tables>> PROVE IInv'
    BY <1>8 DEF ToDo
  <1>9. CASE (\E v \in 0 .. 1 : ChangeSetting(v) \/ Identify(v)) \/ FinishRace \/ CollectCar
    BY <1>9, <1>8 DEF ChangeSetting, Identify, FinishRace, CollectCar, Persist, file
  <1>10. CASE Settle \/ Aggregate \/ (\E races \in answers : Apply(races)) \/ UNCHANGED vars
    BY <1>10, <1>8 DEF Settle, Aggregate, Apply, file, vars
  <1>11. CASE Crash
    BY <1>11 DEF Crash, file
  <1> QED
    BY <1>1, <1>2, <1>3, <1>4, <1>5, <1>6, <1>7, <1>9, <1>10, <1>11 DEF Next

(***************************************************************************)
(* A database in use has every table (sqliteDb.ts:110-145).                 *)
(***************************************************************************)
THEOREM EveryTableIsThere == Spec => []SchemaReady
  <1>1. Init => IInv
    BY Initially
  <1>2. IInv /\ [Next]_vars => IInv'
    BY Preserved
  <1>3. IInv => SchemaReady
    BY DEF IInv
  <1> QED
    BY <1>1, <1>2, <1>3, PTL DEF Spec

-----------------------------------------------------------------------------
Added     == {"Race", "Garage"}           \* a write adds a row
Replaced  == {"Settings", "Identity"}     \* a write replaces the value

\* What a sink hands to a repository.
Write ==
  [op : {"put"}, domain : Replaced, arg : 0 .. 1] \cup
  [op : {"add"}, domain : Added, arg : {1}] \cup
  [op : {"unlock"}, domain : {"Achievements"}, arg : Ids, at : Nat \ {0}]

\* initializeRepository has been through domain d in this run.
Hydrated(d) ==
  \/ pc \in {"wire", "done"}
  \/ \E i, j \in DOMAIN Order : i < j /\ Order[i] = d /\ Order[j] = pc

TypeOK ==
  /\ pc \in Domains \cup Closed \cup {"wire", "done"}
  /\ shown \in [Valued -> Int] /\ disk \in [Valued -> Int]
  /\ \A d \in Added : disk[d] \in Nat
  /\ unlocked \in [Ids -> Nat] /\ badges \in [Ids -> Nat]
  /\ kept \in Nat /\ asked \in Nat /\ starts \in Nat
  /\ pc # "off" => starts > 0
  /\ writes \in Seq(Write)
  /\ pc # "done" => writes = <<>> /\ asked = 0 /\ answers = {}

\* A goal that the stored races and the cars meet, and whose badge is locked:
\* an aggregate is still to be computed, or one that earns it to be delivered.
AskedAgain ==
  pc = "done" /\ ~unasked =>
    \A g \in Ids : unlocked[g] = 0 /\ IsMet(g, Races, shown["Garage"]) =>
      asked > 0 \/ \E r \in answers : IsMet(g, r, shown["Garage"])

\* The writes of domain d that have not settled.
Positions(s, d) == {i \in DOMAIN s : s[i].domain = d}
Pending(d) == Positions(writes, d)

\* A domain of rows has those that are on their way besides the stored ones;
\* a domain of values has the last one that is, or else the stored one.
OnItsWay(d) ==
  /\ d \in Added => shown[d] = disk[d] + Cardinality(Pending(d))
  /\ d \in Replaced =>
       /\ Pending(d) = {} => shown[d] = Valid(disk[d])
       /\ \A i \in Pending(d) : (\A j \in Pending(d) : j <= i) => writes[i].arg = shown[d]

\* A stored badge has the time the store shows: INSERT OR IGNORE drops no other.
FirstTime ==
  \A g \in Ids : badges[g] # 0 => unlocked[g] = badges[g]

\* So has a badge on its way.
BadgesTrue ==
  \A i \in Pending("Achievements") : writes[i].at = unlocked[writes[i].arg]

\* A badge that is shown and not stored is on its way.
BadgesComing ==
  \A g \in Ids : unlocked[g] # 0 /\ badges[g] = 0 =>
    \E i \in Pending("Achievements") : writes[i].arg = g

StatusOK ==
  /\ status.mode \in {"durable", "partial"} => pc = "done"
  /\ status.mode = "durable" => memory = {}
  /\ status.mode = "partial" => memory = status.domains

KeptOK ==
  /\ StatusOK
  /\ \A d \in Valued \ (memory \cup early \cup lost) : Hydrated(d) => OnItsWay(d)
  /\ Hydrated("Achievements") /\ "Achievements" \notin memory =>
       FirstTime /\ BadgesTrue /\ ("Achievements" \notin lost => BadgesComing)
  /\ "Achievements" \notin early

-----------------------------------------------------------------------------
(* Lemmas on sequences of writes, and on the list of a finite set.          *)

\* SetToSeq lists every element.
LEMMA Listing ==
  ASSUME NEW S, IsFiniteSet(S)
  PROVE  /\ Cardinality(S) \in Nat
         /\ SetToSeq(S) \in [1 .. Cardinality(S) -> S]
         /\ \A x \in S : \E i \in 1 .. Cardinality(S) : SetToSeq(S)[i] = x
  <1> DEFINE n == Cardinality(S)
  <1>1. n \in Nat /\ ExistsBijection(1 .. n, S)
    BY FS_CardinalityType
  <1>2. PICK f \in [1 .. n -> S] : IsInjective(f)
    BY <1>1 DEF ExistsBijection, Bijection, Injection
  <1>3. SetToSeq(S) \in [1 .. n -> S] /\ IsInjective(SetToSeq(S))
    BY <1>2 DEF SetToSeq
  <1>4. SetToSeq(S) \in Injection(1 .. n, S)
    BY <1>3 DEF Injection
  <1>5. Cardinality(1 .. n) = n
    BY <1>1, FS_Interval
  <1> HIDE DEF n
  <1>6. SetToSeq(S) \in Surjection(1 .. n, S)
    BY <1>4, <1>5, FS_Injection DEF n
  <1> QED
    BY <1>1, <1>3, <1>6 DEF Surjection, n

LEMMA PositionsFinite ==
  ASSUME NEW T, NEW s \in Seq(T), NEW d
  PROVE  IsFiniteSet(Positions(s, d)) /\ Cardinality(Positions(s, d)) \in Nat
  <1>1. IsFiniteSet(1 .. Len(s)) /\ Positions(s, d) \in SUBSET (1 .. Len(s))
    BY FS_Interval DEF Positions
  <1> QED
    BY <1>1, FS_Subset, FS_CardinalityType

\* A write that is appended is one more of its domain, and of no other.
LEMMA OneMore ==
  ASSUME NEW T, NEW s \in Seq(T), NEW w \in T, NEW d
  PROVE  Cardinality(Positions(Append(s, w), d)) =
           Cardinality(Positions(s, d)) + (IF w.domain = d THEN 1 ELSE 0)
  <1>1. Positions(Append(s, w), d) =
          IF w.domain = d THEN Positions(s, d) \cup {Len(s) + 1} ELSE Positions(s, d)
    BY DEF Positions
  <1>2. Len(s) + 1 \notin Positions(s, d)
    BY DEF Positions
  <1>3. IsFiniteSet(Positions(s, d)) /\ Cardinality(Positions(s, d)) \in Nat
    BY PositionsFinite
  <1>4. Cardinality(Positions(s, d) \cup {Len(s) + 1}) = Cardinality(Positions(s, d)) + 1
    BY <1>2, <1>3, FS_AddElement
  <1> QED
    BY <1>1, <1>3, <1>4

\* The first write taken off is one less.
LEMMA OneLess ==
  ASSUME NEW T, NEW s \in Seq(T), s # <<>>, NEW d
  PROVE  Cardinality(Positions(s, d)) =
           Cardinality(Positions(Tail(s), d)) + (IF Head(s).domain = d THEN 1 ELSE 0)
  <1> DEFINE P == Positions(s, d)
             Q == Positions(Tail(s), d)
             f == [i \in Q |-> i + 1]
  <1>1. Tail(s) \in Seq(T) /\ Len(Tail(s)) = Len(s) - 1 /\ Head(s) = s[1] /\ Len(s) \in Nat \ {0}
        /\ \A i \in 1 .. Len(s) - 1 : Tail(s)[i] = s[i + 1]
    OBVIOUS
  <1>2. Q \subseteq 1 .. Len(s) - 1 /\ P \subseteq 1 .. Len(s)
    BY <1>1 DEF Positions
  <1>3. \A i \in 1 .. Len(s) - 1 : i \in Q <=> i + 1 \in P
    BY <1>1 DEF Positions
  <1>4. 1 \in P <=> Head(s).domain = d
    BY <1>1 DEF Positions
  <1> HIDE DEF P, Q
  <1>5. f \in Bijection(Q, P \ {1})
    <2>1. f \in [Q -> P \ {1}]
      BY <1>1, <1>2, <1>3
    <2>2. \A i, j \in Q : f[i] = f[j] => i = j
      BY <1>2
    <2>3. \A k \in P \ {1} : \E i \in Q : f[i] = k
      <3> TAKE k \in P \ {1}
      <3>1. k - 1 \in Q /\ k - 1 + 1 = k
        BY <1>1, <1>2, <1>3
      <3> QED
        BY <3>1
    <2> QED
      BY <2>1, <2>2, <2>3 DEF Bijection, Injection, Surjection, IsInjective
  <1>6. IsFiniteSet(P) /\ IsFiniteSet(Q) /\ Cardinality(P) \in Nat /\ Cardinality(Q) \in Nat
    BY <1>1, PositionsFinite DEF P, Q
  <1>7. Cardinality(P \ {1}) = Cardinality(Q)
    BY <1>5, <1>6, FS_Bijection DEF ExistsBijection
  <1>8. Cardinality(P \ {1}) = IF 1 \in P THEN Cardinality(P) - 1 ELSE Cardinality(P)
    BY <1>6, FS_RemoveElement
  <1> QED
    BY <1>4, <1>6, <1>7, <1>8 DEF P, Q

-----------------------------------------------------------------------------
(* The types.                                                               *)

LEMMA StagesAre ==
  ASSUME NEW d \in Domains
  PROVE  After(d) \in Domains \cup {"wire"}
  <1> DEFINE i == CHOOSE i \in DOMAIN Order : Order[i] = d
  <1>1. DOMAIN Order = 1 .. 6 /\ Len(Order) = 6
    BY DEF Order
  <1>2. i \in 1 .. 6
    BY <1>1 DEF Domains
  <1>3. After(d) = IF i < Len(Order) THEN Order[i + 1] ELSE "wire"
    BY DEF After
  <1> HIDE DEF i
  <1>4. i < 6 => i + 1 \in DOMAIN Order
    BY <1>1, <1>2
  <1> QED
    BY <1>1, <1>3, <1>4 DEF Domains

LEMMA DomainsAre ==
  /\ Domains = {"Race", "Garage", "History", "Settings", "Achievements", "Identity"}
  /\ Valued = Added \cup Replaced
  /\ "off" \notin Domains /\ "done" \notin Domains /\ "wire" \notin Domains
  <1>1. DOMAIN Order = 1 .. 6
    BY DEF Order
  <1>2. Domains = {"Race", "Garage", "History", "Settings", "Achievements", "Identity"}
    BY <1>1 DEF Domains, Order
  <1> QED
    BY <1>2 DEF Valued, Added, Replaced

LEMMA TypesInitially == ASSUME Init PROVE TypeOK
  <1>1. Fresh \in [Valued -> Int] /\ \A d \in Valued : Fresh[d] = 0
    BY DEF Fresh
  <1>2. disk \in [Valued -> Int] /\ \A d \in Added : disk[d] \in Nat
    BY <1>1, DomainsAre DEF Init, Corrupt, Added, Replaced
  <1> QED
    BY <1>1, <1>2 DEF Init, TypeOK, Closed

\* The changes of a store.
LEMMA PersistTypes ==
  ASSUME TypeOK, NEW d \in Valued, NEW v \in Int, NEW op, NEW arg,
         [op |-> op, domain |-> d, arg |-> arg] \in Write,
         Persist(d, v, op, arg)
  PROVE  /\ shown' \in [Valued -> Int]
         /\ writes' \in Seq(Write)
         /\ pc' = pc /\ memory' = memory /\ disk' = disk /\ badges' = badges
         /\ unlocked' = unlocked /\ starts' = starts /\ answers' = answers
         /\ pc' # "done" => writes' = writes
  BY DEF TypeOK, Persist, Wired, file

LEMMA TypesPreserved ==
  ASSUME TypeOK, [Next]_vars
  PROVE  TypeOK'
  <1>1. CASE Start
    BY <1>1 DEF TypeOK, Start, file, stores, calls, Closed
  <1>2. CASE InMemory
    BY <1>2, DomainsAre DEF TypeOK, InMemory, file, stores, calls, Closed
  <1>3. CASE Open
    BY <1>3, DomainsAre DEF TypeOK, Open, file, stores, calls, Closed
  <1>4. CASE Migrate
    BY <1>4, DomainsAre DEF TypeOK, Migrate, stores, calls, Closed
  <1>5. CASE Stamp
    BY <1>5, DomainsAre DEF TypeOK, Stamp, stores, calls, Closed
  <1>6. CASE Wire
    BY <1>6, DomainsAre DEF TypeOK, Wire, file, stores, Closed
  <1>7. ASSUME NEW d \in Domains, Initialize(d) PROVE TypeOK'
    <2>1. pc' \in Domains \cup {"wire"}
      BY <1>7, StagesAre DEF Initialize
    <2>2. shown' \in [Valued -> Int]
      BY <1>7 DEF TypeOK, Initialize, Hydrate, Valid
    <2>3. unlocked' \in [Ids -> Nat]
      BY <1>7 DEF TypeOK, Initialize
    <2> QED
      BY <1>7, <2>1, <2>2, <2>3, DomainsAre DEF TypeOK, Initialize, calls, file
  <1>8. ASSUME NEW v \in 0 .. 1, ChangeSetting(v) PROVE TypeOK'
    <2>1. [op |-> "put", domain |-> "Settings", arg |-> v] \in Write
      BY DEF Write, Replaced
    <2>2. "Settings" \in Valued /\ v \in Int
      BY DomainsAre DEF Replaced
    <2> QED
      BY <1>8, <2>1, <2>2, PersistTypes DEF ChangeSetting, TypeOK
  <1>9. ASSUME NEW v \in 0 .. 1, Identify(v) PROVE TypeOK'
    <2>1. [op |-> "put", domain |-> "Identity", arg |-> v] \in Write
      BY DEF Write, Replaced
    <2>2. "Identity" \in Valued /\ v \in Int
      BY DomainsAre DEF Replaced
    <2> QED
      BY <1>9, <2>1, <2>2, PersistTypes DEF Identify, TypeOK
  <1>10. CASE FinishRace
    <2>1. [op |-> "add", domain |-> "Race", arg |-> 1] \in Write
      BY DEF Write, Added
    <2>2. "Race" \in Valued /\ shown["Race"] + 1 \in Int
      BY DomainsAre DEF Added, TypeOK
    <2>3. Persist("Race", shown["Race"] + 1, "add", 1)
      BY <1>10 DEF FinishRace
    <2>4. kept' \in Nat /\ asked' \in Nat /\ (pc # "done" => asked' = asked)
      BY <1>10 DEF FinishRace, TypeOK, Wired
    <2> QED
      BY <2>1, <2>2, <2>3, <2>4, PersistTypes DEF TypeOK
  <1>11. CASE CollectCar
    <2>1. [op |-> "add", domain |-> "Garage", arg |-> 1] \in Write
      BY DEF Write, Added
    <2>2. "Garage" \in Valued /\ shown["Garage"] + 1 \in Int
      BY DomainsAre DEF Added, TypeOK
    <2>3. Persist("Garage", shown["Garage"] + 1, "add", 1) /\ pc = "done"
      BY <1>11 DEF CollectCar, Wired
    <2>4. kept' \in Nat /\ asked' \in Nat
      BY <1>11 DEF CollectCar, TypeOK
    <2> QED
      BY <2>1, <2>2, <2>3, <2>4, PersistTypes DEF TypeOK
  <1>12. CASE Settle
    <2> DEFINE w == Head(writes)
    <2>1. w \in Write /\ Tail(writes) \in Seq(Write) /\ writes' = Tail(writes) /\ pc = "done"
      BY <1>12 DEF Settle, TypeOK
    <2>2. disk' \in [Valued -> Int] /\ \A d \in Added : disk'[d] \in Nat
      <3>1. CASE w.op = "put"
        <4>1. w.domain \in Replaced /\ w.arg \in Int
          BY <2>1, <3>1 DEF Write
        <4>2. disk' = disk \/ disk' = [disk EXCEPT ![w.domain] = w.arg]
          BY <1>12, <3>1 DEF Settle
        <4>3. w.domain \notin Added
          BY <4>1 DEF Added, Replaced
        <4> HIDE DEF w
        <4>4. \A d \in Added : disk'[d] = disk[d]
          BY <4>2, <4>3, DomainsAre DEF TypeOK
        <4>5. disk' \in [Valued -> Int]
          BY <4>1, <4>2 DEF TypeOK
        <4> QED
          BY <4>4, <4>5 DEF TypeOK
      <3>2. CASE w.op = "add"
        BY <1>12, <2>1, <3>2, DomainsAre DEF Settle, TypeOK, Write, Added, Replaced
      <3>3. CASE w.op \notin {"put", "add"}
        BY <1>12, <3>3 DEF Settle, TypeOK
      <3> QED
        BY <3>1, <3>2, <3>3
    <2>3. badges' \in [Ids -> Nat]
      BY <1>12, <2>1 DEF Settle, TypeOK, Write
    <2>4. asked' \in Nat
      BY <1>12 DEF Settle, TypeOK
    <2> QED
      BY <1>12, <2>1, <2>2, <2>3, <2>4 DEF Settle, TypeOK, stores
  <1>13. CASE Aggregate
    BY <1>13 DEF TypeOK, Aggregate, stores, file
  <1>14. ASSUME NEW races \in answers, Apply(races) PROVE TypeOK'
    <2> DEFINE fresh == NewlyUnlocked(races)
               new == [i \in 1 .. Cardinality(fresh) |->
                         [op |-> "unlock", domain |-> "Achievements", arg |-> SetToSeq(fresh)[i],
                          at |-> starts]]
    <2>1. pc = "done" /\ starts \in Nat \ {0}
      BY DEF TypeOK
    <2>2. IsFiniteSet(fresh) /\ fresh \subseteq Ids
      BY GoalsAssumption, FS_Subset DEF Ids, NewlyUnlocked
    <2>3. new \in Seq(Write)
      <3> HIDE DEF fresh
      <3>1. Cardinality(fresh) \in Nat /\ SetToSeq(fresh) \in [1 .. Cardinality(fresh) -> fresh]
        BY <2>2, Listing
      <3>2. \A i \in 1 .. Cardinality(fresh) : new[i] \in Write
        BY <2>1, <2>2, <3>1 DEF Write
      <3> QED
        BY <3>1, <3>2
    <2>4. writes' \in Seq(Write)
      <3> HIDE DEF new
      <3> QED
        BY <1>14, <2>3 DEF Apply, TypeOK, new
    <2>5. unlocked' \in [Ids -> Nat]
      BY <1>14, <2>1 DEF Apply, TypeOK
    <2> QED
      BY <1>14, <2>1, <2>4, <2>5 DEF Apply, TypeOK, file
  <1>15. CASE Crash
    BY <1>15 DEF Crash, TypeOK, file, Fresh, Closed
  <1>16. CASE UNCHANGED vars
    BY <1>16 DEF TypeOK, vars, stores, calls, file
  <1> QED
    BY <1>1, <1>2, <1>3, <1>4, <1>5, <1>6, <1>7, <1>8, <1>9, <1>10, <1>11, <1>12, <1>13, <1>14,
       <1>15, <1>16 DEF Next

-----------------------------------------------------------------------------
(* Badges that are due.                                                     *)

LEMMA AskedPreserved ==
  ASSUME TypeOK, AskedAgain, [Next]_vars
  PROVE  AskedAgain'
  <1>1. CASE Start \/ InMemory \/ Open \/ Migrate \/ Stamp \/ Crash
    BY <1>1 DEF AskedAgain, Start, InMemory, Open, Migrate, Stamp, Crash
  <1>2. CASE Wire
    BY <1>2 DEF AskedAgain, Wire, TypeOK
  <1>3. ASSUME NEW d \in Domains, Initialize(d) PROVE AskedAgain'
    <2>1. pc' # "done"
      BY <1>3, StagesAre, DomainsAre DEF Initialize
    <2> QED
      BY <2>1 DEF AskedAgain
  <1>4. ASSUME NEW v \in 0 .. 1, NEW d \in Replaced, Persist(d, v, "put", v),
               UNCHANGED <<kept, asked>>
        PROVE  AskedAgain'
    <2>1. shown'["Garage"] = shown["Garage"] /\ Races' = Races
      BY <1>4, DomainsAre DEF Persist, TypeOK, Races, Replaced, Added, file
    <2> QED
      BY <1>4, <2>1 DEF AskedAgain, Persist, IsMet
  <1>5. CASE \E v \in 0 .. 1 : ChangeSetting(v) \/ Identify(v)
    BY <1>5, <1>4 DEF ChangeSetting, Identify, Replaced
  <1>6. CASE FinishRace
    <2>1. CASE pc = "done" /\ "Race" \in memory
      BY <1>6, <2>1 DEF FinishRace, AskedAgain, TypeOK, Wired
    <2>2. CASE ~(pc = "done" /\ "Race" \in memory)
      <3>1. shown'["Garage"] = shown["Garage"] /\ (pc = "done" => Races' = Races)
        BY <1>6, <2>2, DomainsAre DEF FinishRace, Persist, TypeOK, Races, Added, file, Wired
      <3> QED
        BY <1>6, <2>2, <3>1 DEF FinishRace, Persist, AskedAgain, IsMet, Wired
    <2> QED
      BY <2>1, <2>2
  <1>7. CASE CollectCar
    BY <1>7 DEF CollectCar, AskedAgain, TypeOK
  <1>8. CASE Settle
    <2>1. CASE asked' = asked + 1
      BY <2>1 DEF AskedAgain, TypeOK
    <2>2. CASE asked' # asked + 1
      <3>1. disk'["Race"] = disk["Race"]
        <4> DEFINE w == Head(writes)
        <4>1. w \in Write
          BY <1>8 DEF Settle, TypeOK
        <4>2. disk' = disk \/ w.domain # "Race"
          BY <1>8, <2>2 DEF Settle, Asks
        <4>3. \/ disk' = disk \/ disk' = [disk EXCEPT ![w.domain] = w.arg]
              \/ disk' = [disk EXCEPT ![w.domain] = @ + w.arg]
          BY <1>8 DEF Settle
        <4> HIDE DEF w
        <4> QED
          BY <4>1, <4>2, <4>3, DomainsAre DEF TypeOK, Added
      <3>2. UNCHANGED <<pc, memory, shown, unlocked, kept, answers, unasked>> /\ asked' = asked
        BY <1>8, <2>2 DEF Settle, stores
      <3> QED
        BY <3>1, <3>2 DEF AskedAgain, Races, IsMet
    <2> QED
      BY <2>1, <2>2
  <1>9. CASE Aggregate
    <2>1. UNCHANGED <<pc, shown, unlocked>> /\ Races' = Races
      BY <1>9 DEF Aggregate, stores, file, Races
    <2>2. unasked' \/ (unasked' = unasked /\ answers' = answers \cup {Races})
      BY <1>9 DEF Aggregate
    <2> QED
      BY <2>1, <2>2 DEF AskedAgain, IsMet
  <1>10. ASSUME NEW races \in answers, Apply(races) PROVE AskedAgain'
    <2>1. UNCHANGED <<pc, shown, asked, unasked>> /\ Races' = Races /\ answers' = answers \ {races}
      BY <1>10 DEF Apply, file, Races
    <2>2. starts > 0 /\ starts \in Nat
      BY DEF TypeOK, Closed
    <2>3. \A g \in Ids : unlocked'[g] = 0 =>
            unlocked[g] = 0 /\ ~IsMet(g, races, shown["Garage"])
      BY <1>10, <2>2 DEF Apply, NewlyUnlocked
    <2> QED
      BY <2>1, <2>3 DEF AskedAgain, IsMet
  <1>11. CASE UNCHANGED vars
    BY <1>11 DEF vars, stores, calls, file, AskedAgain, Races, IsMet
  <1> QED
    BY <1>1, <1>2, <1>3, <1>5, <1>6, <1>7, <1>8, <1>9, <1>10, <1>11 DEF Next

-----------------------------------------------------------------------------
(* What is shown, what is stored, and the writes between them.              *)

LEMMA NothingYet ==
  ASSUME pc \in Closed \cup {"Race"}
  PROVE  \A d \in Domains : ~Hydrated(d)
  BY DomainsAre DEF Hydrated, Closed, Order

\* A step of initializeRepositories hydrates one domain.
LEMMA OneByOne ==
  ASSUME NEW d \in Domains, pc = d, pc' = After(d)
  PROVE  \A e \in Domains : Hydrated(e)' => Hydrated(e) \/ e = d
  <1> DEFINE i == CHOOSE i \in DOMAIN Order : Order[i] = d
  <1>1. DOMAIN Order = 1 .. 6 /\ Len(Order) = 6
    BY DEF Order
  <1>2. i \in 1 .. 6 /\ Order[i] = d
    BY <1>1 DEF Domains
  <1>3. pc' = IF i < 6 THEN Order[i + 1] ELSE "wire"
    BY <1>1 DEF After
  <1> HIDE DEF i
  <1>4. \A j, k \in 1 .. 6 : Order[j] = Order[k] => j = k
    BY <1>1 DEF Order
  <1>5. \A j \in 1 .. 6 : Order[j] \notin {"wire", "done"}
    BY <1>1 DEF Order
  <1>6. ASSUME NEW e \in Domains, Hydrated(e)', e # d
        PROVE  \E a, b \in 1 .. 6 : a < b /\ Order[a] = e /\ Order[b] = d
    <2>1. PICK a \in 1 .. 6 : Order[a] = e
      BY <1>1 DEF Domains
    <2>2. a < i
      <3>1. CASE i = 6
        BY <1>2, <1>6, <2>1, <3>1
      <3>2. CASE i < 6
        <4>0. pc' = Order[i + 1] /\ i + 1 \in 1 .. 6
          BY <1>2, <1>3, <3>2
        <4>1. pc' \notin {"wire", "done"}
          BY <1>5, <4>0
        <4>2. PICK x, y \in 1 .. 6 : x < y /\ Order[x] = e /\ Order[y] = pc'
          BY <1>1, <1>6, <4>1 DEF Hydrated
        <4>3. x = a /\ y = i + 1
          BY <1>4, <2>1, <4>0, <4>2
        <4> QED
          BY <1>2, <1>6, <2>1, <4>2, <4>3
      <3> QED
        BY <1>2, <3>1, <3>2
    <2> QED
      BY <1>2, <2>1, <2>2
  <1> QED
    BY <1>1, <1>6 DEF Hydrated

LEMMA NonePending ==
  ASSUME writes = <<>>, NEW d
  PROVE  Pending(d) = {} /\ Cardinality(Pending(d)) = 0
  BY FS_EmptySet DEF Pending, Positions

\* A change, with the write its sink issues.
LEMMA PersistKeeps ==
  ASSUME TypeOK, KeptOK,
         NEW d \in Valued, NEW v \in Int, NEW op, NEW arg,
         [op |-> op, domain |-> d, arg |-> arg] \in Write,
         Persist(d, v, op, arg),
         d \in Added => v = shown[d] + 1, d \in Replaced => v = arg
  PROVE  KeptOK'
  <1> DEFINE w == [op |-> op, domain |-> d, arg |-> arg]
  <1>1. UNCHANGED <<pc, memory, status, unlocked, disk, badges, lost>>
    BY DEF Persist, file
  <1>2. /\ shown' = [shown EXCEPT ![d] = v]
        /\ writes' = IF Wired /\ d \notin memory THEN Append(writes, w) ELSE writes
        /\ early' = IF Wired THEN early ELSE early \cup {d}
    BY DEF Persist
  <1>3. w \in Write /\ w.domain = d /\ w.arg = arg
    OBVIOUS
  <1>4. \A e \in Domains : Hydrated(e)' <=> Hydrated(e)
    BY <1>1 DEF Hydrated
  <1>5. /\ d # "Achievements" /\ d \in Domains /\ "Achievements" \in Domains
        /\ Valued \subseteq Domains
    BY DomainsAre DEF Added, Replaced
  <1> HIDE DEF w
  <1>6. \A e \in Domains \ {d} : Pending(e)' = Pending(e)
    BY <1>2, <1>3 DEF Pending, Positions, TypeOK
  <1>7. \A i \in DOMAIN writes : i \in DOMAIN writes' /\ writes'[i] = writes[i]
    BY <1>2, <1>3 DEF TypeOK
  <1>8. \A e \in Domains : Pending(e) \subseteq DOMAIN writes
    BY DEF Pending, Positions
  <1>9. ASSUME NEW e \in Valued \ (memory \cup early \cup lost)', Hydrated(e)'
        PROVE  OnItsWay(e)'
    <2>1. e \notin memory \cup early \cup lost /\ Hydrated(e) /\ e \in Domains
      BY <1>1, <1>2, <1>4, <1>5, <1>9
    <2>2. OnItsWay(e)
      BY <2>1 DEF KeptOK
    <2>3. CASE e # d
      <3>1. shown'[e] = shown[e] /\ Pending(e)' = Pending(e) /\ disk'[e] = disk[e]
        BY <1>1, <1>2, <1>6, <2>1, <2>3 DEF TypeOK
      <3>2. \A i \in Pending(e) : writes'[i] = writes[i]
        BY <1>7, <1>8, <2>1
      <3> QED
        BY <2>2, <3>1, <3>2 DEF OnItsWay
    <2>4. CASE e = d
      <3>1. Wired /\ writes' = Append(writes, w)
        BY <1>1, <1>2, <1>9, <2>1, <2>4
      <3>2. shown'[e] = v
        BY <1>2, <2>4 DEF TypeOK
      <3>3. writes \in Seq(Write) /\ writes' \in Seq(Write) /\ Len(writes') = Len(writes) + 1
            /\ writes'[Len(writes')] = w
        BY <1>3, <3>1 DEF TypeOK
      <3>4. Len(writes') \in Pending(e)' /\ \A i \in Pending(e)' : i <= Len(writes')
        BY <1>3, <2>4, <3>3 DEF Pending, Positions
      <3>5. e \in Replaced => OnItsWay(e)'
        <4>1. e \in Replaced => e \notin Added
          BY DEF Added, Replaced
        <4>2. ASSUME NEW i \in Pending(e)', \A j \in Pending(e)' : j <= i
              PROVE  i = Len(writes')
          <5>1. Pending(e)' \subseteq 1 .. Len(writes')
            BY <3>3 DEF Pending, Positions
          <5> QED
            BY <3>3, <3>4, <4>2, <5>1
        <4> QED
          BY <1>3, <2>4, <3>2, <3>3, <3>4, <4>1, <4>2 DEF OnItsWay
      <3>6. e \in Added => OnItsWay(e)'
        <4>1. e \in Added => e \notin Replaced
          BY DEF Added, Replaced
        <4>2. Cardinality(Pending(e)') = Cardinality(Pending(e)) + 1
          BY <1>3, <2>4, <3>1, <3>3, OneMore DEF Pending
        <4>3. Cardinality(Pending(e)) \in Nat
          BY <3>3, PositionsFinite DEF Pending
        <4>4. e \in Added => shown'[e] = disk'[e] + Cardinality(Pending(e)')
          BY <1>1, <2>2, <2>4, <3>2, <4>2, <4>3 DEF OnItsWay, TypeOK
        <4> QED
          BY <4>1, <4>4 DEF OnItsWay
      <3> QED
        BY <3>5, <3>6, DomainsAre
    <2> QED
      BY <2>3, <2>4
  <1>10. StatusOK'
    BY <1>1 DEF KeptOK, StatusOK
  <1>11. "Achievements" \notin early'
    BY <1>2, <1>5 DEF KeptOK
  <1>12. Pending("Achievements")' = Pending("Achievements")
         /\ \A i \in Pending("Achievements") : writes'[i] = writes[i]
    BY <1>5, <1>6, <1>7, <1>8
  <1>13. Hydrated("Achievements")' /\ "Achievements" \notin memory' =>
           (FirstTime /\ BadgesTrue /\ ("Achievements" \notin lost => BadgesComing))'
    BY <1>1, <1>4, <1>5, <1>12 DEF KeptOK, FirstTime, BadgesTrue, BadgesComing
  <1> QED
    BY <1>9, <1>10, <1>11, <1>13 DEF KeptOK

\* One domain is hydrated.
LEMMA InitializeKeeps ==
  ASSUME TypeOK, KeptOK, NEW d \in Domains, Initialize(d)
  PROVE  KeptOK'
  <1>1. pc = d /\ pc' = After(d) /\ pc # "done" /\ pc' # "done" /\ writes = <<>> /\ writes' = <<>>
    BY StagesAre, DomainsAre DEF Initialize, TypeOK, calls
  <1>2. /\ UNCHANGED <<status, disk, badges, lost>> /\ early' = early \ {d}
        /\ memory \subseteq memory' /\ memory' \subseteq memory \cup {d}
    BY DEF Initialize, file
  <1>3. \A e \in Domains : Hydrated(e)' => Hydrated(e) \/ e = d
    BY <1>1, OneByOne
  <1>4. \A e : /\ Pending(e) = {} /\ Cardinality(Pending(e)) = 0
               /\ Pending(e)' = {} /\ Cardinality(Pending(e)') = 0
    BY <1>1, NonePending DEF Pending
  <1>5. "Achievements" \in Domains /\ Valued \subseteq Domains /\ "Achievements" \notin Valued
    BY DomainsAre DEF Added, Replaced
  <1>6. ASSUME NEW e \in Valued \ (memory \cup early \cup lost)', Hydrated(e)'
        PROVE  OnItsWay(e)'
    <2>1. CASE e = d
      <3>1. shown'[e] = Valid(disk[e])
        BY <1>2, <1>6, <2>1 DEF Initialize, Hydrate, TypeOK
      <3>2. e \in Added => Valid(disk[e]) = disk[e] + 0
        BY DEF Valid, Corrupt, TypeOK
      <3> QED
        BY <1>2, <1>4, <3>1, <3>2 DEF OnItsWay, Valid
    <2>2. CASE e # d
      <3>1. OnItsWay(e)
        BY <1>2, <1>3, <1>5, <1>6, <2>2 DEF KeptOK
      <3>2. shown'[e] = shown[e] /\ disk'[e] = disk[e]
        BY <1>2, <2>2 DEF Initialize, Hydrate, TypeOK
      <3> QED
        BY <1>4, <3>1, <3>2 DEF OnItsWay, Valid
    <2> QED
      BY <2>1, <2>2
  <1>7. StatusOK'
    BY <1>1, <1>2 DEF KeptOK, StatusOK
  <1>8. ASSUME Hydrated("Achievements")', "Achievements" \notin memory'
        PROVE  (FirstTime /\ BadgesTrue /\ ("Achievements" \notin lost => BadgesComing))'
    <2>1. CASE d = "Achievements"
      <3>1. unlocked' = badges
        BY <1>8, <2>1 DEF Initialize
      <3> QED
        BY <1>2, <1>4, <3>1 DEF FirstTime, BadgesTrue, BadgesComing, TypeOK
    <2>2. CASE d # "Achievements"
      <3>1. unlocked' = unlocked /\ Hydrated("Achievements") /\ "Achievements" \notin memory
        BY <1>2, <1>3, <1>5, <1>8, <2>2 DEF Initialize
      <3> QED
        BY <1>2, <1>4, <3>1 DEF FirstTime, BadgesTrue, BadgesComing, KeptOK
    <2> QED
      BY <2>1, <2>2
  <1> QED
    BY <1>2, <1>6, <1>7, <1>8 DEF KeptOK

\* The oldest write settles, one way or the other.
LEMMA SettleKeeps ==
  ASSUME TypeOK, KeptOK, Settle
  PROVE  KeptOK'
  <1> DEFINE w == Head(writes)
  <1>1. /\ w \in Write /\ w = writes[1] /\ 1 \in DOMAIN writes
        /\ writes \in Seq(Write) /\ writes # <<>>
        /\ writes' = Tail(writes) /\ writes' \in Seq(Write)
        /\ DOMAIN writes = 1 .. Len(writes) /\ DOMAIN writes' = 1 .. Len(writes) - 1
        /\ Len(writes) \in Nat
        /\ \A i \in DOMAIN writes' : writes'[i] = writes[i + 1]
    BY DEF Settle, TypeOK
  <1>2. UNCHANGED <<pc, memory, status, shown, unlocked, early>>
    BY DEF Settle, stores
  <1>3. \/ /\ disk' = CASE w.op = "put" -> [disk EXCEPT ![w.domain] = w.arg]
                       [] w.op = "add" -> [disk EXCEPT ![w.domain] = @ + w.arg]
                       [] OTHER        -> disk
           /\ badges' = IF w.op = "unlock" /\ badges[w.arg] = 0
                          THEN [badges EXCEPT ![w.arg] = w.at] ELSE badges
           /\ lost' = lost
        \/ /\ lost' = lost \cup {w.domain}
           /\ UNCHANGED <<disk, badges>>
    BY DEF Settle
  <1> HIDE DEF w
  <1>4. \A e : \A i \in DOMAIN writes' : i \in Pending(e)' <=> i + 1 \in Pending(e)
    BY <1>1 DEF Pending, Positions
  <1>5. \A e : /\ Pending(e)' \subseteq DOMAIN writes' /\ Pending(e) \subseteq DOMAIN writes
               /\ 1 \in Pending(e) <=> w.domain = e
    BY <1>1 DEF Pending, Positions
  <1>6. \A e : \A k \in Pending(e) : k # 1 => k - 1 \in Pending(e)' /\ k - 1 + 1 = k
    BY <1>1, <1>4, <1>5
  <1>7. \A e \in Domains : Hydrated(e)' <=> Hydrated(e)
    BY <1>2 DEF Hydrated
  <1>8. "Achievements" \in Domains /\ Valued \subseteq Domains
        /\ "Achievements" \notin Valued
    BY DomainsAre DEF Added, Replaced
  <1>9. /\ w.op = "put" => w.domain \in Replaced /\ w.arg \in 0 .. 1
        /\ w.op = "add" => w.domain \in Added /\ w.arg = 1
        /\ w.op = "unlock" => w.domain = "Achievements" /\ w.arg \in Ids /\ w.at \in Nat \ {0}
        /\ w.op \in {"put", "add", "unlock"}
    BY <1>1 DEF Write
  <1>10. w.domain \in Replaced <=> w.op = "put"
    BY <1>9 DEF Replaced, Added
  <1>11. w.domain \in Added <=> w.op = "add"
    BY <1>9 DEF Replaced, Added
  <1>12. ASSUME NEW e \in Valued \ (memory \cup early \cup lost)', Hydrated(e)'
         PROVE  OnItsWay(e)'
    <2>1. OnItsWay(e) /\ e \notin lost'
      BY <1>2, <1>3, <1>7, <1>8, <1>12 DEF KeptOK
    <2>2. CASE w.domain # e
      <3>1. disk'[e] = disk[e]
        <4>1. disk' = disk \/ disk' = [disk EXCEPT ![w.domain] = w.arg]
              \/ disk' = [disk EXCEPT ![w.domain] = @ + w.arg]
          BY <1>3, <1>9
        <4> QED
          BY <2>2, <4>1 DEF TypeOK
      <3>2. Cardinality(Pending(e)') = Cardinality(Pending(e))
        <4>1. Cardinality(Pending(e)') \in Nat
          BY <1>1, PositionsFinite DEF Pending
        <4> QED
          BY <1>1, <2>2, <4>1, OneLess DEF Pending, w
      <3>3. e \in Replaced => OnItsWay(e)'
        <4>0. e \in Replaced => e \notin Added
          BY DEF Replaced, Added
        <4>1. e \in Replaced /\ Pending(e)' = {} => shown'[e] = Valid(disk'[e])
          <5>1. Pending(e)' = {} => Pending(e) = {}
            BY <1>5, <1>6, <2>2
          <5> QED
            BY <1>2, <2>1, <3>1, <5>1 DEF OnItsWay
        <4>2. ASSUME e \in Replaced, NEW i \in Pending(e)', \A j \in Pending(e)' : j <= i
              PROVE  writes'[i].arg = shown'[e]
          <5>1. i + 1 \in Pending(e) /\ writes'[i] = writes[i + 1] /\ i \in Int
            BY <1>1, <1>4, <1>5
          <5>2. \A k \in Pending(e) : k <= i + 1
            <6> TAKE k \in Pending(e)
            <6>1. k # 1 /\ k \in Int
              BY <1>1, <1>5, <2>2
            <6> QED
              BY <1>6, <4>2, <5>1, <6>1
          <5> QED
            BY <1>2, <2>1, <4>2, <5>1, <5>2 DEF OnItsWay
        <4> QED
          BY <4>0, <4>1, <4>2 DEF OnItsWay, Valid
      <3>4. e \in Added => OnItsWay(e)'
        BY <1>2, <2>1, <3>1, <3>2 DEF OnItsWay, Replaced, Added
      <3> QED
        BY <3>3, <3>4, DomainsAre
    <2>3. CASE w.domain = e
      <3>1. lost' = lost
        BY <1>3, <2>1, <2>3
      <3>2. CASE e \in Replaced
        <4>1. disk'[e] = w.arg /\ e \notin Added /\ Valid(disk'[e]) = w.arg
          BY <1>3, <1>9, <1>10, <2>1, <2>3, <3>2, DomainsAre
             DEF TypeOK, Replaced, Added, Valid, Corrupt
        <4>2. 1 \in Pending(e) /\ writes[1].arg = w.arg
          BY <1>1, <1>5, <2>3
        <4>3. Pending(e)' = {} => shown'[e] = w.arg
          <5>1. ASSUME Pending(e)' = {} PROVE \A k \in Pending(e) : k <= 1
            BY <1>1, <1>5, <1>6, <5>1
          <5> QED
            BY <1>2, <2>1, <3>2, <4>2, <5>1 DEF OnItsWay
        <4>4. ASSUME NEW i \in Pending(e)', \A j \in Pending(e)' : j <= i
              PROVE  writes'[i].arg = shown'[e]
          <5>1. i + 1 \in Pending(e) /\ writes'[i] = writes[i + 1] /\ i \in Nat
            BY <1>1, <1>4, <1>5
          <5>2. \A k \in Pending(e) : k <= i + 1
            <6> TAKE k \in Pending(e)
            <6>1. k \in Int
              BY <1>1, <1>5
            <6> QED
              BY <1>6, <4>4, <5>1, <6>1
          <5> QED
            BY <1>2, <2>1, <3>2, <5>1, <5>2 DEF OnItsWay
        <4> QED
          BY <4>1, <4>3, <4>4 DEF OnItsWay, Valid
      <3>3. CASE e \in Added
        <4>1. disk'[e] = disk[e] + 1 /\ e \notin Replaced
          BY <1>3, <1>9, <1>11, <2>1, <2>3, <3>3, DomainsAre DEF TypeOK, Replaced, Added
        <4>2. Cardinality(Pending(e)') \in Nat
          BY <1>1, PositionsFinite DEF Pending
        <4>3. Cardinality(Pending(e)) = Cardinality(Pending(e)') + 1
          BY <1>1, <2>3, OneLess DEF Pending, w
        <4> QED
          BY <1>2, <2>1, <3>3, <4>1, <4>2, <4>3 DEF OnItsWay, TypeOK
      <3> QED
        BY <3>2, <3>3, DomainsAre
    <2> QED
      BY <2>2, <2>3
  <1>13. ASSUME Hydrated("Achievements")', "Achievements" \notin memory'
         PROVE  (FirstTime /\ BadgesTrue /\ ("Achievements" \notin lost => BadgesComing))'
    <2>1. FirstTime /\ BadgesTrue /\ ("Achievements" \notin lost => BadgesComing)
      BY <1>2, <1>7, <1>8, <1>13 DEF KeptOK
    <2> DEFINE lands == w.op = "unlock" /\ badges[w.arg] = 0 /\ badges' # badges
    <2>2. lands => /\ badges' = [badges EXCEPT ![w.arg] = w.at] /\ w.at = unlocked[w.arg]
                   /\ w.arg \in Ids /\ badges[w.arg] = 0
      BY <1>1, <1>3, <1>5, <1>9, <2>1 DEF BadgesTrue
    <2>3. ~lands => badges' = badges
      BY <1>3
    <2> HIDE DEF lands
    <2>4. \A g \in Ids : badges'[g] = badges[g] \/ (lands /\ g = w.arg /\ badges'[g] = unlocked[g])
      BY <2>2, <2>3 DEF TypeOK
    <2>5. FirstTime'
      BY <1>2, <2>1, <2>4 DEF FirstTime
    <2>6. BadgesTrue'
      BY <1>1, <1>2, <1>4, <1>5, <2>1 DEF BadgesTrue
    <2>7. ASSUME "Achievements" \notin lost', NEW g \in Ids, unlocked'[g] # 0, badges'[g] = 0
          PROVE  \E i \in Pending("Achievements")' : writes'[i].arg = g
      <3>1. badges[g] = 0 /\ unlocked[g] # 0 /\ "Achievements" \notin lost
        BY <1>2, <1>3, <2>4, <2>7
      <3>2. PICK k \in Pending("Achievements") : writes[k].arg = g
        BY <2>1, <3>1 DEF BadgesComing
      <3>3. CASE k = 1
        <4>1. w.domain = "Achievements" /\ w.arg = g /\ w.op = "unlock"
          BY <1>1, <1>5, <1>9, <3>2, <3>3 DEF Added, Replaced
        <4>2. badges' = [badges EXCEPT ![g] = w.at]
          BY <1>3, <2>7, <3>1, <4>1
        <4> QED
          BY <1>9, <2>7, <4>1, <4>2 DEF TypeOK
      <3>4. CASE k # 1
        BY <1>1, <1>5, <1>6, <3>2, <3>4
      <3> QED
        BY <3>3, <3>4
    <2> QED
      BY <2>5, <2>6, <2>7 DEF BadgesComing
  <1>14. StatusOK'
    BY <1>2 DEF KeptOK, StatusOK
  <1> QED
    BY <1>2, <1>12, <1>13, <1>14 DEF KeptOK

\* The positions of a sequence and those of another put after it.
LEMMA Joined ==
  ASSUME NEW T, NEW s \in Seq(T), NEW t \in Seq(T)
  PROVE  /\ \A i \in DOMAIN s : i \in DOMAIN (s \o t) /\ (s \o t)[i] = s[i]
         /\ \A j \in DOMAIN t : Len(s) + j \in DOMAIN (s \o t) /\ (s \o t)[Len(s) + j] = t[j]
         /\ \A k \in DOMAIN (s \o t) :
              k \in DOMAIN s \/ \E j \in DOMAIN t : k = Len(s) + j
  <1>1. DOMAIN (s \o t) = 1 .. Len(s) + Len(t) /\ Len(s) \in Nat /\ Len(t) \in Nat
    OBVIOUS
  <1>2. ASSUME NEW k \in DOMAIN (s \o t), k \notin DOMAIN s
        PROVE  \E j \in DOMAIN t : k = Len(s) + j
    <2>1. k - Len(s) \in DOMAIN t /\ k = Len(s) + (k - Len(s))
      BY <1>1, <1>2
    <2> QED
      BY <2>1
  <1> QED
    BY <1>1, <1>2

\* The badges of an applied total get a time, and a write each.
LEMMA ApplyKeeps ==
  ASSUME TypeOK, KeptOK, NEW races \in answers, Apply(races)
  PROVE  KeptOK'
  <1> DEFINE fresh == NewlyUnlocked(races)
             new == [i \in 1 .. Cardinality(fresh) |->
                       [op |-> "unlock", domain |-> "Achievements", arg |-> SetToSeq(fresh)[i],
                        at |-> starts]]
  <1>1. UNCHANGED <<pc, memory, status, shown, disk, badges, early, lost>>
    BY DEF Apply, file
  <1>2. starts \in Nat \ {0} /\ writes \in Seq(Write) /\ Len(writes) \in Nat
        /\ DOMAIN writes = 1 .. Len(writes)
    BY DEF TypeOK
  <1>3. fresh \subseteq Ids /\ \A g \in fresh : unlocked[g] = 0
    BY DEF NewlyUnlocked
  <1>4. /\ unlocked' = [g \in Ids |-> IF g \in fresh THEN starts ELSE unlocked[g]]
        /\ writes' = IF "Achievements" \in memory THEN writes ELSE writes \o new
    BY DEF Apply
  <1>5. IsFiniteSet(fresh)
    BY <1>3, GoalsAssumption, FS_Subset DEF Ids
  <1> HIDE DEF fresh
  <1>6. Cardinality(fresh) \in Nat /\ SetToSeq(fresh) \in [1 .. Cardinality(fresh) -> fresh]
        /\ \A g \in fresh : \E i \in 1 .. Cardinality(fresh) : SetToSeq(fresh)[i] = g
    BY <1>5, Listing
  <1>7. /\ new \in Seq(Write) /\ Len(new) = Cardinality(fresh) /\ DOMAIN new = 1 .. Len(new)
        /\ \A i \in DOMAIN new :
             new[i].domain = "Achievements" /\ new[i].at = starts /\ new[i].arg \in fresh
        /\ \A g \in fresh : \E i \in DOMAIN new : new[i].arg = g
    <2>1. \A i \in 1 .. Cardinality(fresh) : new[i] \in Write
      BY <1>2, <1>3, <1>6 DEF Write
    <2> QED
      BY <1>6, <2>1
  <1> HIDE DEF new
  <1>9. /\ \A i \in DOMAIN writes : i \in DOMAIN writes' /\ writes'[i] = writes[i]
        /\ \A k \in DOMAIN writes' :
             \/ k \in DOMAIN writes
             \/ \E j \in DOMAIN new : k = Len(writes) + j /\ writes'[k] = new[j]
    <2>1. CASE writes' = writes
      BY <2>1
    <2>2. CASE writes' = writes \o new
      <3> DEFINE both == writes \o new
      <3>1. /\ \A i \in DOMAIN writes : i \in DOMAIN both /\ both[i] = writes[i]
            /\ \A j \in DOMAIN new :
                 Len(writes) + j \in DOMAIN both /\ both[Len(writes) + j] = new[j]
            /\ \A k \in DOMAIN both :
                 k \in DOMAIN writes \/ \E j \in DOMAIN new : k = Len(writes) + j
        BY <1>2, <1>7, Joined
      <3>2. writes' = both
        BY <2>2
      <3> HIDE DEF both
      <3> QED
        BY <3>1, <3>2
    <2> QED
      BY <1>4, <2>1, <2>2
  <1>10. \A e : e # "Achievements" => Pending(e)' = Pending(e)
    BY <1>7, <1>9 DEF Pending, Positions
  <1>11. \A e \in Domains : Hydrated(e)' <=> Hydrated(e)
    BY <1>1 DEF Hydrated
  <1>12. "Achievements" \in Domains /\ Valued \subseteq Domains /\ "Achievements" \notin Valued
    BY DomainsAre DEF Added, Replaced
  <1>13. ASSUME NEW e \in Valued \ (memory \cup early \cup lost)', Hydrated(e)'
         PROVE  OnItsWay(e)'
    <2>1. OnItsWay(e)
      BY <1>1, <1>11, <1>12, <1>13 DEF KeptOK
    <2>2. Pending(e)' = Pending(e) /\ \A i \in Pending(e) : writes'[i] = writes[i]
      BY <1>9, <1>10, <1>12 DEF Pending, Positions
    <2> QED
      BY <1>1, <2>1, <2>2 DEF OnItsWay, Valid
  <1>14. ASSUME Hydrated("Achievements")', "Achievements" \notin memory'
         PROVE  (FirstTime /\ BadgesTrue /\ ("Achievements" \notin lost => BadgesComing))'
    <2>1. FirstTime /\ BadgesTrue /\ ("Achievements" \notin lost => BadgesComing)
      BY <1>1, <1>11, <1>12, <1>14 DEF KeptOK
    <2>2. writes' = writes \o new
      BY <1>1, <1>4, <1>14
    <2>3. \A g \in Ids : unlocked'[g] = IF g \in fresh THEN starts ELSE unlocked[g]
      BY <1>4
    <2>4. \A g \in fresh : badges[g] = 0
      BY <1>3, <2>1 DEF FirstTime, TypeOK
    <2>5. FirstTime'
      BY <1>1, <2>1, <2>3, <2>4 DEF FirstTime
    <2>6. ASSUME NEW k \in Pending("Achievements")'
          PROVE  writes'[k].at = unlocked'[writes'[k].arg]
      <3>1. k \in DOMAIN writes' /\ writes'[k].domain = "Achievements"
        BY <2>6 DEF Pending, Positions
      <3>2. CASE k \in DOMAIN writes
        <4>1. k \in Pending("Achievements") /\ writes'[k] = writes[k]
          BY <1>9, <3>1, <3>2 DEF Pending, Positions
        <4>2. writes[k].arg \in Ids /\ writes[k].at # 0
          BY <1>2, <3>1, <3>2, <4>1 DEF Write, Added, Replaced
        <4>3. unlocked[writes[k].arg] = writes[k].at
          BY <2>1, <4>1 DEF BadgesTrue
        <4>4. writes[k].arg \notin fresh
          BY <1>3, <4>2, <4>3
        <4> QED
          BY <2>3, <4>1, <4>2, <4>3, <4>4
      <3>3. CASE k \notin DOMAIN writes
        BY <1>3, <1>7, <1>9, <2>3, <3>1, <3>3
      <3> QED
        BY <3>2, <3>3
    <2>7. ASSUME "Achievements" \notin lost', NEW g \in Ids, unlocked'[g] # 0, badges'[g] = 0
          PROVE  \E i \in Pending("Achievements")' : writes'[i].arg = g
      <3>1. CASE g \in fresh
        <4>1. PICK j \in DOMAIN new : new[j].arg = g
          BY <1>7, <3>1
        <4>2. Len(writes) + j \in DOMAIN writes' /\ writes'[Len(writes) + j] = new[j]
          BY <1>2, <1>7, <2>2, <4>1, Joined
        <4>3. Len(writes) + j \in Pending("Achievements")'
          BY <1>7, <4>2 DEF Pending, Positions
        <4> QED
          BY <4>1, <4>2, <4>3
      <3>2. CASE g \notin fresh
        <4>1. unlocked[g] # 0 /\ badges[g] = 0 /\ "Achievements" \notin lost
          BY <1>1, <2>3, <2>7, <3>2
        <4>2. PICK k \in Pending("Achievements") : writes[k].arg = g
          BY <2>1, <4>1 DEF BadgesComing
        <4>3. k \in Pending("Achievements")' /\ writes'[k] = writes[k]
          BY <1>9, <4>2 DEF Pending, Positions
        <4> QED
          BY <4>2, <4>3
      <3> QED
        BY <3>1, <3>2
    <2> QED
      BY <2>5, <2>6, <2>7 DEF BadgesTrue, BadgesComing
  <1>15. StatusOK'
    BY <1>1 DEF KeptOK, StatusOK
  <1> QED
    BY <1>1, <1>13, <1>14, <1>15 DEF KeptOK

LEMMA KeptInitially == ASSUME Init PROVE KeptOK
  <1>1. \A d \in Domains : ~Hydrated(d)
    BY NothingYet DEF Init, Closed
  <1>2. Valued \subseteq Domains /\ "Achievements" \in Domains
    BY DomainsAre DEF Added, Replaced
  <1> QED
    BY <1>1, <1>2 DEF KeptOK, StatusOK, Init, NotYet

LEMMA KeptPreserved ==
  ASSUME TypeOK, KeptOK, [Next]_vars
  PROVE  KeptOK'
  <1>0. Valued \subseteq Domains /\ "Achievements" \in Domains
    BY DomainsAre DEF Added, Replaced
  <1>1. ASSUME pc \in Closed, pc' \in Closed \cup {"Race"}, UNCHANGED <<status, early>>
        PROVE  KeptOK'
    <2>1. \A d \in Domains : ~Hydrated(d)'
      BY <1>1, NothingYet DEF Hydrated, Closed, DomainsAre, Order
    <2>2. status.mode \notin {"durable", "partial"}
      BY <1>1 DEF KeptOK, StatusOK, Closed
    <2> QED
      BY <1>0, <1>1, <2>1, <2>2 DEF KeptOK, StatusOK
  <1>2. CASE Start \/ InMemory \/ Open \/ Migrate \/ Stamp
    BY <1>1, <1>2 DEF Start, InMemory, Open, Migrate, Stamp, Closed
  <1>3. CASE Wire
    <2>1. UNCHANGED <<memory, shown, unlocked, writes, disk, badges, early, lost>>
      BY <1>3 DEF Wire, stores, file
    <2>2. \A d \in Domains : Hydrated(d) /\ Pending(d)' = Pending(d)
      BY <1>3, <2>1 DEF Wire, Hydrated, Pending
    <2>3. StatusOK'
      BY <1>3 DEF Wire, StatusOK
    <2> QED
      BY <1>0, <2>1, <2>2, <2>3 DEF KeptOK, OnItsWay, Valid, FirstTime, BadgesTrue, BadgesComing
  <1>4. ASSUME NEW d \in Domains, Initialize(d) PROVE KeptOK'
    BY <1>4, InitializeKeeps
  <1>5. ASSUME NEW v \in 0 .. 1, ChangeSetting(v) \/ Identify(v) PROVE KeptOK'
    <2>1. PICK d \in Replaced : Persist(d, v, "put", v)
      BY <1>5 DEF ChangeSetting, Identify, Replaced
    <2>2. /\ [op |-> "put", domain |-> d, arg |-> v] \in Write
          /\ v \in Int /\ d \in Valued /\ d \notin Added
      BY DomainsAre DEF Write, Replaced, Added
    <2> QED
      BY <2>1, <2>2, PersistKeeps
  <1>6. ASSUME FinishRace \/ CollectCar PROVE KeptOK'
    <2>1. PICK d \in Added : Persist(d, shown[d] + 1, "add", 1)
      BY <1>6 DEF FinishRace, CollectCar, Added
    <2>2. /\ [op |-> "add", domain |-> d, arg |-> 1] \in Write
          /\ shown[d] + 1 \in Int /\ d \in Valued /\ d \notin Replaced
      BY DomainsAre DEF Write, Replaced, Added, TypeOK
    <2> QED
      BY <2>1, <2>2, PersistKeeps
  <1>7. CASE Settle
    BY <1>7, SettleKeeps
  <1>8. CASE Aggregate \/ UNCHANGED vars
    <2>1. UNCHANGED <<pc, memory, status, shown, unlocked, writes, disk, badges, early, lost>>
      BY <1>8 DEF Aggregate, vars, stores, calls, file
    <2> QED
      BY <2>1 DEF KeptOK, StatusOK, Hydrated, OnItsWay, Pending, Valid, FirstTime, BadgesTrue,
                  BadgesComing
  <1>9. ASSUME NEW races \in answers, Apply(races) PROVE KeptOK'
    BY <1>9, ApplyKeeps
  <1>10. CASE Crash
    <2>1. \A d \in Domains : ~Hydrated(d)'
      BY <1>10, DomainsAre DEF Crash, Hydrated, Order
    <2> QED
      BY <1>0, <1>10, <2>1 DEF Crash, KeptOK, StatusOK, NotYet
  <1> QED
    BY <1>2, <1>3, <1>4, <1>5, <1>6, <1>7, <1>8, <1>9, <1>10 DEF Next

-----------------------------------------------------------------------------
(***************************************************************************)
(* Types; before the wiring nothing is written and nothing asked for        *)
(* (initPersistence.ts: sinks are registered last).                         *)
(***************************************************************************)
THEOREM TypeCorrect == Spec => []TypeOK
  BY TypesInitially, TypesPreserved, PTL DEF Spec

(***************************************************************************)
(* Once every aggregate was delivered, a badge that is earned is unlocked   *)
(* (achievementsStore.ts refresh, applyStats), unless an aggregate failed.  *)
(***************************************************************************)
THEOREM EarnedBadges == Spec => []EarnedIsUnlocked
  <1>1. Init => AskedAgain
    BY DEF Init, AskedAgain
  <1>2. TypeOK /\ AskedAgain /\ [Next]_vars => AskedAgain'
    BY AskedPreserved
  <1>3. TypeOK /\ AskedAgain => EarnedIsUnlocked
    BY DEF AskedAgain, EarnedIsUnlocked, Wired
  <1> QED
    BY <1>1, <1>2, <1>3, TypeCorrect, PTL DEF Spec

(***************************************************************************)
(* A domain the status calls durable shows what the next start loads, once  *)
(* its writes settled and none was rejected (initPersistence.ts).           *)
(***************************************************************************)
THEOREM DurableMeansKept == Spec => []ShownIsKept
  <1>1. TypeOK /\ KeptOK => ShownIsKept
    <2> SUFFICES ASSUME TypeOK, KeptOK, writes = <<>>,
                        NEW d \in Domains \ (lost \cup early), Promised(d)
                 PROVE  /\ d \in Valued => shown[d] = Valid(disk[d])
                        /\ d = "Achievements" => unlocked = badges
      BY DEF ShownIsKept
    <2>1. d \notin memory /\ Hydrated(d)
      BY DEF Promised, KeptOK, StatusOK, Hydrated
    <2>2. Pending(d) = {} /\ Cardinality(Pending(d)) = 0
      BY NonePending
    <2>3. d \in Added => Valid(disk[d]) = disk[d] /\ disk[d] + 0 = disk[d]
      BY DEF Valid, Corrupt, TypeOK
    <2>4. d \in Valued => shown[d] = Valid(disk[d])
      BY <2>1, <2>2, <2>3, DomainsAre DEF KeptOK, OnItsWay
    <2>5. d = "Achievements" => \A g \in Ids : unlocked[g] = badges[g]
      BY <2>1, <2>2 DEF KeptOK, FirstTime, BadgesComing
    <2> QED
      BY <2>4, <2>5 DEF TypeOK
  <1>2. TypeOK /\ KeptOK /\ [Next]_vars => KeptOK'
    BY KeptPreserved
  <1>3. Init => KeptOK
    BY KeptInitially
  <1> QED
    BY <1>1, <1>2, <1>3, TypeCorrect, PTL DEF Spec
=============================================================================
