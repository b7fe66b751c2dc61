---------------------------- MODULE RaceNightProofs ----------------------------
(***************************************************************************)
(* Proofs about the race night, for any number of racers, any times and     *)
(* any lineup.                                                              *)
(*                                                                         *)
(* HeatIsCredited is inductive by itself: the lineup, which RunnerFor reads *)
(* again at "Continue", is edited only where no bracket is being played,    *)
(* and every handler that changes the bracket or the times announces whom   *)
(* RunnerFor then names.                                                    *)
(*                                                                         *)
(* The bracket needs more (BInv):                                           *)
(*                                                                         *)
(*   Sound     its matches are filled from the matches before them (Fed),   *)
(*             no racer is twice in a round (OncePerRound) or later than    *)
(*             where it lost (CameThrough), all start in the first round    *)
(*             (Entered), and the final crowns (Crowned); decide() keeps    *)
(*             it (DecideKeeps), for byes and for heats                     *)
(*   Resolved  no bye is left to resolve                                    *)
(*   Timed     the times are those of the matches: an undecided one lacks   *)
(*             its second time, a raced one has both and the faster won     *)
(*   LineupOK  nobody is in the lineup twice, so it fits the rounds         *)
(*             (LineupFits), and while a bracket is played its racers are   *)
(*             in the lineup                                                *)
(*                                                                         *)
(* That createTournament() makes a sound bracket (Created) rests on the     *)
(* seeds: SeedOrder is a permutation in which the two seeds of a match add  *)
(* up to the size plus one (SeedsAre), so each has a racer.  The functions  *)
(* that recurse along a number are reasoned about by the least number at    *)
(* which a claim fails (Least, Upward, Onward).                             *)
(***************************************************************************)
EXTENDS RaceNight, FiniteSetTheorems, SequenceTheorems, TLAPS

-----------------------------------------------------------------------------
(* Whom a heat is credited to.                                              *)

\* The runner is looked up in the lineup of the moment.
LEMMA SameRunner ==
  ASSUME UNCHANGED lineup
  PROVE  RunnerFor(tournament, matchTimes)' = RunnerFor(tournament', matchTimes')
  BY DEF RunnerFor, RunnerId, CurrentMatch, Ready

LEMMA RunnerKept ==
  ASSUME UNCHANGED <<lineup, tournament, matchTimes>>
  PROVE  RunnerFor(tournament, matchTimes)' = RunnerFor(tournament, matchTimes)
  BY SameRunner

\* Without a bracket there is nothing to show.
LEMMA NoBracket ==
  ASSUME UNCHANGED tournament, ~InTournament
  PROVE  HeatIsCredited'
  BY DEF HeatIsCredited, InTournament

LEMMA SetupCredits ==
  ASSUME Setup
  PROVE  HeatIsCredited'
  <1>1. phase' = "idle"
    BY DEF Setup, AddRacer, ChangeMode, ToggleTournament, RemoveRacer, ChooseNext, EditLineup,
           InSetup, race
  <1> QED
    BY <1>1 DEF HeatIsCredited

LEMMA CasualCredits ==
  ASSUME Casual
  PROVE  HeatIsCredited'
  <1>1. UNCHANGED tournament /\ ~InTournament
    BY DEF Casual, OnStart, OnAdvanceLineup, RaceAgain, InSetup, InTournament, bracket
  <1> QED
    BY <1>1, NoBracket

LEMMA BracketCredits ==
  ASSUME Bracket
  PROVE  HeatIsCredited'
  <1>1. ASSUME phase' = "idle" PROVE HeatIsCredited'
    BY <1>1 DEF HeatIsCredited
  <1>2. ASSUME UNCHANGED lineup, player' = RunnerFor(tournament', matchTimes')
        PROVE  HeatIsCredited'
    BY <1>2, SameRunner DEF HeatIsCredited
  <1>3. CASE OnStartTournament
    BY <1>1, <1>2, <1>3 DEF OnStartTournament, InSetup, setup, race, Heat!Announce
  <1>4. CASE OnResetTournament
    BY <1>1, <1>4 DEF OnResetTournament, Heat!Abandon
  <1>5. CASE OnResumeTournament
    BY <1>2, <1>5 DEF OnResumeTournament, setup, bracket, Heat!Announce
  <1>6. CASE OnTournamentContinue
    BY <1>1, <1>2, <1>6 DEF OnTournamentContinue, setup, Heat!Announce, Heat!Abandon
  <1> QED
    BY <1>3, <1>4, <1>5, <1>6 DEF Bracket

LEMMA RaceCredits ==
  ASSUME HeatIsCredited, RaceGoes
  PROVE  HeatIsCredited'
  <1>1. UNCHANGED <<lineup, tournament, matchTimes, player>> /\ (phase' = "idle" \/ phase # "idle")
    BY DEF RaceGoes, setup, bracket, Heat!Go, Heat!FinishWith, Heat!Abandon
  <1> QED
    BY <1>1, RunnerKept DEF HeatIsCredited, InTournament

(***************************************************************************)
(* The race under way in a bracket is of the racer who will be credited     *)
(* with its time (app/(tabs)/race.tsx: runnerId, onTournamentContinue).     *)
(***************************************************************************)
THEOREM Credited == Spec => []HeatIsCredited
  <1>1. Init => HeatIsCredited
    BY DEF Init, HeatIsCredited
  <1>2. HeatIsCredited /\ [Next]_vars => HeatIsCredited'
    <2> SUFFICES ASSUME HeatIsCredited, [Next]_vars
                 PROVE  HeatIsCredited'
      OBVIOUS
    <2>1. CASE UNCHANGED vars
      BY <2>1, RunnerKept DEF vars, race, setup, bracket, HeatIsCredited, InTournament
    <2> QED
      BY <2>1, SetupCredits, CasualCredits, BracketCredits, RaceCredits DEF Next
  <1> QED
    BY <1>1, <1>2, PTL DEF Spec

-----------------------------------------------------------------------------
(* Counting up, and the sizes of brackets.                                  *)

\* A set of numbers has a least.
LEMMA Least ==
  ASSUME NEW T \in SUBSET Nat, T # {}
  PROVE  \E m \in T : \A y \in T : m <= y
  <1> DEFINE U == {0 .. n : n \in T}
             S == FiniteSubsetsOf(Nat)
  <1>0. PICK k \in T : TRUE
    OBVIOUS
  <1>1. U \subseteq S /\ U # {}
    <2>1. ASSUME NEW n \in T PROVE 0 .. n \in S
      BY <2>1, FS_Interval DEF FiniteSubsetsOf
    <2> QED
      BY <2>1, <1>0
  <1>2. PICK x \in U : \A y \in U : <<y, x>> \notin StrictSubsetOrdering(Nat)
    <2> HIDE DEF U, S
    <2> QED
      BY <1>1, WFMin, FS_StrictSubsetOrderingWellFounded DEF S
  <1>3. PICK m \in T : x = 0 .. m
    BY <1>2
  <1>4. ASSUME NEW y \in T, y < m PROVE FALSE
    <2>1. 0 .. y \subseteq x /\ 0 .. y # x /\ x \in SUBSET Nat
      BY <1>3, <1>4
    <2>2. <<0 .. y, x>> \in StrictSubsetOrdering(Nat)
      BY <2>1 DEF StrictSubsetOrdering
    <2> QED
      BY <2>2, <1>2
  <1>5. m \in Nat /\ T \subseteq Nat
    BY <1>3
  <1>6. ASSUME NEW y \in T PROVE m <= y
    BY <1>4, <1>5
  <1> QED
    BY <1>3, <1>6

\* What holds at 0 and, from every number below n, of the next, holds up to n.
LEMMA Upward ==
  ASSUME NEW n \in Nat, NEW P, 0 \in P, \A k \in 0 .. n - 1 : k \in P => k + 1 \in P
  PROVE  \A k \in 0 .. n : k \in P
  <1> DEFINE T == {k \in 0 .. n : k \notin P}
  <1>1. ASSUME T # {} PROVE FALSE
    <2>0. T \in SUBSET Nat
      OBVIOUS
    <2>1. PICK m \in T : \A y \in T : m <= y
      <3> HIDE DEF T
      <3> QED
        BY <1>1, <2>0, Least
    <2>2. m # 0 /\ m - 1 \in 0 .. n - 1 /\ m - 1 \in 0 .. n /\ ~(m <= m - 1) /\ (m - 1) + 1 = m
      BY <2>1
    <2>3. m - 1 \in P
      BY <2>1, <2>2
    <2> QED
      BY <2>1, <2>2, <2>3
  <1> QED
    BY <1>1

\* What holds at 0 and, of any number, of the next, holds of every number.
LEMMA Onward ==
  ASSUME NEW P, 0 \in P, \A k \in Nat : k \in P => k + 1 \in P
  PROVE  Nat \subseteq P
  <1> SUFFICES ASSUME NEW n \in Nat PROVE n \in P
    OBVIOUS
  <1>1. \A k \in 0 .. n - 1 : k \in P => k + 1 \in P
    OBVIOUS
  <1>2. \A k \in 0 .. n : k \in P
    BY <1>1, Upward
  <1> QED
    BY <1>2

\* What takes a value to the next makes a function of the first.
Steps(F, S, base, step) ==
  F \in [Nat -> S] /\ F[0] = base /\ \A k \in Nat : F[k + 1] = step[<<k, F[k]>>]

LEMMA Recursion ==
  ASSUME NEW S, NEW base \in S, NEW step \in [Nat \X S -> S]
  PROVE  \E F : Steps(F, S, base, step)
  <1> DEFINE Runs(n, f) == f \in [0 .. n -> S] /\ f[0] = base /\ \A k \in 0 .. n - 1 : f[k + 1] = step[<<k, f[k]>>]
             P == {n \in Nat : \E f : Runs(n, f)}
  <1>1. 0 \in P
    <2>1. Runs(0, [k \in 0 .. 0 |-> base])
      OBVIOUS
    <2> QED
      BY <2>1
  <1>2. ASSUME NEW n \in Nat, n \in P PROVE n + 1 \in P
    <2>1. PICK f : Runs(n, f)
      BY <1>2
    <2> DEFINE g == [k \in 0 .. n + 1 |-> IF k = n + 1 THEN step[<<n, f[n]>>] ELSE f[k]]
    <2>2. f[n] \in S /\ step[<<n, f[n]>>] \in S
      BY <2>1
    <2>3. g \in [0 .. n + 1 -> S] /\ g[0] = base
      <3>1. ASSUME NEW k \in 0 .. n + 1 PROVE g[k] \in S
        <4>1. k # n + 1 => k \in 0 .. n
          OBVIOUS
        <4> QED
          BY <2>1, <2>2, <4>1
      <3>2. 0 \in 0 .. n + 1 /\ 0 # n + 1
        OBVIOUS
      <3>3. g[0] = base
        BY <2>1, <3>2
      <3> QED
        BY <3>1, <3>3
    <2>4. ASSUME NEW k \in 0 .. (n + 1) - 1 PROVE g[k + 1] = step[<<k, g[k]>>]
      <3>1. CASE k = n
        <4>1. n + 1 \in 0 .. n + 1 /\ n \in 0 .. n + 1 /\ n # n + 1
          OBVIOUS
        <4>2. g[n + 1] = step[<<n, f[n]>>] /\ g[n] = f[n]
          BY <4>1
        <4> QED
          BY <3>1, <4>2
      <3>2. CASE k # n
        <4>1. k \in 0 .. n - 1 /\ k + 1 \in 0 .. n + 1 /\ k \in 0 .. n + 1 /\ k + 1 # n + 1 /\ k # n + 1
          BY <3>2
        <4>2. g[k + 1] = f[k + 1] /\ g[k] = f[k]
          BY <4>1
        <4> QED
          BY <2>1, <4>1, <4>2
      <3> QED
        BY <3>1, <3>2
    <2> HIDE DEF g
    <2>5. Runs(n + 1, g)
      BY <2>3, <2>4
    <2> HIDE DEF Runs
    <2> QED
      BY <2>5
  <1>3. \A n \in Nat : \E f : Runs(n, f)
    <2> HIDE DEF Runs
    <2>1. Nat \subseteq P
      <3> HIDE DEF P
      <3> QED
        BY <1>1, <1>2, Onward
    <2> QED
      BY <2>1
  <1>4. ASSUME NEW m \in Nat, NEW n \in Nat, m <= n, NEW f, NEW g, Runs(m, f), Runs(n, g)
        PROVE  f[m] = g[m]
    <2> DEFINE Q == {k \in 0 .. m : f[k] = g[k]}
    <2>1. 0 \in Q
      BY <1>4
    <2>2. ASSUME NEW k \in 0 .. m - 1, k \in Q PROVE k + 1 \in Q
      <3>1. k \in 0 .. n - 1 /\ k + 1 \in 0 .. m
        BY <1>4
      <3> QED
        BY <1>4, <2>2, <3>1
    <2>3. \A k \in 0 .. m : k \in Q
      <3> HIDE DEF Q, Runs
      <3> QED
        BY <2>1, <2>2, Upward
    <2>4. m \in 0 .. m
      OBVIOUS
    <2> QED
      BY <2>3, <2>4
  <1> DEFINE At(n) == CHOOSE f : Runs(n, f)
             F == [n \in Nat |-> At(n)[n]]
  <1>5. \A n \in Nat : Runs(n, At(n))
    <2> HIDE DEF Runs
    <2> QED
      BY <1>3
  <1> HIDE DEF At
  <1>6. F \in [Nat -> S] /\ F[0] = base
    BY <1>5
  <1>7. ASSUME NEW k \in Nat PROVE F[k + 1] = step[<<k, F[k]>>]
    <2>1. Runs(k + 1, At(k + 1)) /\ Runs(k, At(k)) /\ k <= k + 1 /\ k + 1 \in Nat
      BY <1>5
    <2>2. At(k)[k] = At(k + 1)[k]
      <3> HIDE DEF Runs
      <3> QED
        BY <1>4, <2>1
    <2>3. k \in 0 .. (k + 1) - 1
      OBVIOUS
    <2>4. At(k + 1)[k + 1] = step[<<k, At(k + 1)[k]>>]
      BY <2>1, <2>3
    <2> QED
      BY <2>1, <2>2, <2>4
  <1>8. Steps(F, S, base, step)
    BY <1>6, <1>7 DEF Steps
  <1> QED
    BY <1>8

-----------------------------------------------------------------------------
(* The bracket's shape.                                                     *)

LEMMA SizeIs ==
  /\ Size[0] = 1
  /\ \A k \in Nat : Size[k] \in Nat \ {0} /\ Size[k + 1] = 2 * Size[k]
  <1> DEFINE step == [p \in Nat \X (Nat \ {0}) |-> 2 * p[2]]
  <1>1. step \in [Nat \X (Nat \ {0}) -> Nat \ {0}]
    <2>1. ASSUME NEW p \in Nat \X (Nat \ {0}) PROVE 2 * p[2] \in Nat \ {0}
      <3>1. p[2] \in Nat \ {0}
        OBVIOUS
      <3> QED
        BY <3>1
    <2> QED
      BY <2>1
  <1>2. PICK F \in [Nat -> Nat \ {0}] : F[0] = 1 /\ \A k \in Nat : F[k + 1] = step[<<k, F[k]>>]
    <2> DEFINE S == Nat \ {0}
    <2>1. 1 \in S /\ step \in [Nat \X S -> S]
      BY <1>1
    <2> HIDE DEF step, S
    <2>2. PICK F : Steps(F, S, 1, step)
      BY <2>1, Recursion
    <2> QED
      BY <2>2 DEF S, Steps
  <1>3. \A k \in Nat : F[k + 1] = 2 * F[k]
    BY <1>2
  <1>4. F = [k \in Nat |-> IF k = 0 THEN 1 ELSE 2 * F[k - 1]]
    <2>1. ASSUME NEW k \in Nat PROVE F[k] = IF k = 0 THEN 1 ELSE 2 * F[k - 1]
      <3>1. CASE k # 0
        <4>1. k - 1 \in Nat /\ (k - 1) + 1 = k
          BY <3>1
        <4> QED
          BY <1>3, <3>1, <4>1
      <3> QED
        BY <1>2, <3>1
    <2> QED
      BY <1>2, <2>1
  <1> DEFINE Doubles(f) == f = [k \in Nat |-> IF k = 0 THEN 1 ELSE 2 * f[k - 1]]
  <1>5. Size = CHOOSE f : Doubles(f)
    BY DEF Size
  <1>6. Doubles(Size)
    <2>1. Doubles(F)
      BY <1>4
    <2> HIDE DEF Doubles
    <2> QED
      BY <1>5, <2>1
  <1>7. Size[0] = 1
    BY <1>6
  <1>8. ASSUME NEW k \in Nat PROVE Size[k + 1] = 2 * Size[k]
    BY <1>6
  <1>9. ASSUME NEW k \in Nat, Size[k] \in Nat \ {0} PROVE Size[k + 1] \in Nat \ {0}
    BY <1>8, <1>9
  <1> DEFINE P == {k \in Nat : Size[k] \in Nat \ {0}}
  <1>10. Nat \subseteq P
    <2>1. 0 \in P /\ \A k \in Nat : k \in P => k + 1 \in P
      BY <1>7, <1>9
    <2> HIDE DEF P
    <2> QED
      BY <2>1, Onward
  <1> QED
    BY <1>7, <1>8, <1>10

LEMMA Halves ==
  ASSUME NEW m \in Nat
  PROVE  /\ m \div 2 \in Nat /\ m % 2 \in {0, 1}
         /\ m = 2 * (m \div 2) + (m % 2)
  OBVIOUS

LEMMA Grows ==
  ASSUME NEW k \in Nat, NEW n \in Nat, k <= n
  PROVE  Size[k] <= Size[n]
  <1> DEFINE P == {d \in Nat : Size[k] <= Size[k + d]}
  <1>1. 0 \in P
    BY SizeIs
  <1>2. ASSUME NEW d \in Nat, d \in P PROVE d + 1 \in P
    <2>1. k + d \in Nat /\ k + (d + 1) = (k + d) + 1
      OBVIOUS
    <2>2. Size[k + (d + 1)] = 2 * Size[k + d] /\ Size[k + d] \in Nat /\ Size[k] \in Nat
      BY <2>1, SizeIs
    <2> QED
      BY <1>2, <2>2
  <1>3. Nat \subseteq P
    <2> HIDE DEF P
    <2> QED
      BY <1>1, <1>2, Onward
  <1>4. n - k \in Nat /\ k + (n - k) = n
    OBVIOUS
  <1> QED
    BY <1>3, <1>4

LEMMA MatchIs ==
  ASSUME NEW R \in Nat
  PROVE  \A id : id \in Matches(R) <=>
           \E r \in 1 .. R, m \in Nat : id = <<r, m>> /\ m < Size[R - r]
  <1>1. ASSUME NEW id \in Matches(R) PROVE \E r \in 1 .. R, m \in Nat : id = <<r, m>> /\ m < Size[R - r]
    <2>1. PICK r \in 1 .. R, m \in 0 .. Size[R] - 1 : id = <<r, m>>
      BY <1>1 DEF Matches, MatchIds
    <2>2. m < Size[R - r] /\ m \in Nat
      BY <1>1, <2>1, SizeIs DEF Matches
    <2> QED
      BY <2>1, <2>2
  <1>2. ASSUME NEW r \in 1 .. R, NEW m \in Nat, m < Size[R - r] PROVE <<r, m>> \in Matches(R)
    <2>1. R - r \in Nat /\ R - r <= R
      OBVIOUS
    <2>2. Size[R - r] <= Size[R] /\ Size[R - r] \in Nat /\ Size[R] \in Nat
      BY <2>1, Grows, SizeIs
    <2>3. m \in 0 .. Size[R] - 1
      BY <1>2, <2>2
    <2> QED
      BY <1>2, <2>3 DEF Matches, MatchIds
  <1> QED
    BY <1>1, <1>2

Slots == {"a", "b"}

\* Every slot of a later round has one match it is fed from, whose parent it is.
LEMMA ParentIn ==
  ASSUME NEW R \in Nat, NEW id \in Matches(R), id[1] < R
  PROVE  Parent(id) \in Matches(R) /\ Parent(id)[1] = id[1] + 1 /\ ParentSlot(id) \in Slots /\ id[1] \in 1 .. R
  <1>1. PICK r \in 1 .. R, m \in Nat : id = <<r, m>> /\ m < Size[R - r]
    BY MatchIs
  <1>2. R - (r + 1) \in Nat /\ R - r = (R - (r + 1)) + 1 /\ r + 1 \in 1 .. R
    BY <1>1
  <1>3. Size[R - r] = 2 * Size[R - (r + 1)] /\ Size[R - (r + 1)] \in Nat
    BY <1>2, SizeIs
  <1>4. m \div 2 \in Nat /\ m \div 2 < Size[R - (r + 1)]
    <2> DEFINE s == Size[R - (r + 1)]
    <2>1. m < 2 * s /\ s \in Nat
      BY <1>1, <1>3
    <2> HIDE DEF s
    <2>2. m \div 2 \in Nat /\ m \div 2 < s
      BY <2>1, Halves
    <2> QED
      BY <2>2 DEF s
  <1>5. Parent(id) = <<r + 1, m \div 2>>
    BY <1>1 DEF Parent
  <1> QED
    BY <1>1, <1>2, <1>4, <1>5, MatchIs DEF ParentSlot, Slots

LEMMA ChildIn ==
  ASSUME NEW R \in Nat, NEW id \in Matches(R), id[1] # 1, NEW s \in Slots
  PROVE  \E c \in Matches(R) : Parent(c) = id /\ ParentSlot(c) = s /\ c[1] = id[1] - 1
  <1>1. PICK r \in 1 .. R, m \in Nat : id = <<r, m>> /\ m < Size[R - r]
    BY MatchIs
  <1> DEFINE n == IF s = "a" THEN 2 * m ELSE 2 * m + 1
  <1>2. R - r \in Nat /\ R - (r - 1) = (R - r) + 1 /\ r - 1 \in 1 .. R /\ (r - 1) + 1 = r
    BY <1>1
  <1>3. Size[R - (r - 1)] = 2 * Size[R - r] /\ Size[R - r] \in Nat
    BY <1>2, SizeIs
  <1>4. n \in Nat /\ n < Size[R - (r - 1)]
    BY <1>1, <1>3
  <1>5. n \div 2 = m /\ (n % 2 = 0 <=> s = "a")
    <2>1. (2 * m) \div 2 = m /\ (2 * m) % 2 = 0 /\ (2 * m + 1) \div 2 = m /\ (2 * m + 1) % 2 = 1
      OBVIOUS
    <2> QED
      BY <2>1
  <1> HIDE DEF n
  <1>6. <<r - 1, n>> \in Matches(R)
    BY <1>2, <1>4, MatchIs
  <1>7. Parent(<<r - 1, n>>) = id /\ ParentSlot(<<r - 1, n>>) = s /\ <<r - 1, n>>[1] = id[1] - 1
    BY <1>1, <1>2, <1>5 DEF Parent, ParentSlot, Slots
  <1> QED
    BY <1>6, <1>7

LEMMA OnlyChild ==
  ASSUME NEW R \in Nat, NEW c \in Matches(R), NEW d \in Matches(R),
         Parent(c) = Parent(d), ParentSlot(c) = ParentSlot(d)
  PROVE  c = d
  <1>1. PICK r \in 1 .. R, m \in Nat : c = <<r, m>>
    BY MatchIs
  <1>2. PICK q \in 1 .. R, n \in Nat : d = <<q, n>>
    BY MatchIs
  <1>3. r + 1 = q + 1 /\ m \div 2 = n \div 2
    BY <1>1, <1>2 DEF Parent
  <1>4. m % 2 = 0 <=> n % 2 = 0
    BY <1>1, <1>2 DEF ParentSlot
  <1>5. m = n
    BY <1>3, <1>4, Halves
  <1> QED
    BY <1>1, <1>2, <1>3, <1>5

LEMMA FinalIs ==
  ASSUME NEW R \in Nat \ {0}
  PROVE  <<R, 0>> \in Matches(R) /\ \A id \in Matches(R) : id[1] = R => id = <<R, 0>>
  <1>1. R - R = 0 /\ R \in 1 .. R /\ Size[0] = 1
    BY SizeIs
  <1>2. <<R, 0>> \in Matches(R)
    BY <1>1, MatchIs
  <1>3. ASSUME NEW id \in Matches(R), id[1] = R PROVE id = <<R, 0>>
    <2>1. PICK r \in 1 .. R, m \in Nat : id = <<r, m>> /\ m < Size[R - r]
      BY MatchIs
    <2> QED
      BY <1>1, <1>3, <2>1
  <1> QED
    BY <1>2, <1>3

-----------------------------------------------------------------------------
(* The seeds.                                                               *)

\* Every number up to n, once.
Perms(n) == {s \in [1 .. n -> 1 .. n] :
               /\ \A i, j \in 1 .. n : s[i] = s[j] => i = j
               /\ \A v \in 1 .. n : \E i \in 1 .. n : s[i] = v}

\* The seeds of twice the size n, from those of the size.
Doubled(n, s) == [i \in 1 .. 2 * n |-> IF i % 2 = 1 THEN s[(i + 1) \div 2] ELSE 2 * n + 1 - s[(i + 1) \div 2]]

LEMMA DoubledAt ==
  ASSUME NEW n \in Nat \ {0}, NEW s \in [1 .. n -> 1 .. n], NEW m \in 1 .. n
  PROVE  /\ 2 * m - 1 \in 1 .. 2 * n /\ 2 * m \in 1 .. 2 * n
         /\ Doubled(n, s)[2 * m - 1] = s[m] /\ Doubled(n, s)[2 * m] = 2 * n + 1 - s[m]
  <1>1. 2 * m - 1 \in 1 .. 2 * n /\ 2 * m \in 1 .. 2 * n
    OBVIOUS
  <1>2. /\ (2 * m - 1) % 2 = 1 /\ (2 * m) % 2 = 0
        /\ ((2 * m - 1) + 1) \div 2 = m /\ (2 * m + 1) \div 2 = m
    OBVIOUS
  <1> QED
    BY <1>1, <1>2 DEF Doubled

LEMMA Halved ==
  ASSUME NEW n \in Nat, NEW i \in 1 .. 2 * n
  PROVE  \E m \in 1 .. n : i = 2 * m - 1 \/ i = 2 * m
  <1>1. i \in Nat /\ i # 0 /\ i <= 2 * n
    OBVIOUS
  <1>2. PICK h \in Nat, o \in {0, 1} : i = 2 * h + o
    BY <1>1, Halves
  <1>3. CASE o = 0
    <2>1. h \in 1 .. n /\ i = 2 * h
      BY <1>1, <1>2, <1>3
    <2> QED
      BY <2>1
  <1>4. CASE o = 1
    <2>1. h + 1 \in 1 .. n /\ i = 2 * (h + 1) - 1
      BY <1>1, <1>2, <1>4
    <2> QED
      BY <2>1
  <1> QED
    BY <1>3, <1>4

LEMMA DoubledPerms ==
  ASSUME NEW n \in Nat \ {0}, NEW s \in Perms(n)
  PROVE  Doubled(n, s) \in Perms(2 * n)
  <1> DEFINE d == Doubled(n, s)
  <1>s. s \in [1 .. n -> 1 .. n] /\ (\A i, j \in 1 .. n : s[i] = s[j] => i = j)
        /\ (\A v \in 1 .. n : \E i \in 1 .. n : s[i] = v)
    BY DEF Perms
  <1>0. ASSUME NEW m \in 1 .. n
        PROVE  /\ 2 * m - 1 \in 1 .. 2 * n /\ 2 * m \in 1 .. 2 * n /\ s[m] \in 1 .. n
               /\ d[2 * m - 1] = s[m] /\ d[2 * m] = 2 * n + 1 - s[m]
    <2>1. s[m] \in 1 .. n
      BY <1>s
    <2>0. s \in [1 .. n -> 1 .. n]
      BY <1>s
    <2> HIDE DEF d
    <2>2. /\ 2 * m - 1 \in 1 .. 2 * n /\ 2 * m \in 1 .. 2 * n
          /\ Doubled(n, s)[2 * m - 1] = s[m] /\ Doubled(n, s)[2 * m] = 2 * n + 1 - s[m]
      BY <2>0, DoubledAt
    <2> QED
      BY <2>1, <2>2 DEF d
  <1>d. d = [i \in 1 .. 2 * n |-> d[i]]
    BY DEF Doubled
  <1> HIDE DEF d
  <1>1. ASSUME NEW i \in 1 .. 2 * n PROVE d[i] \in 1 .. 2 * n
    <2>1. PICK m \in 1 .. n : i = 2 * m - 1 \/ i = 2 * m
      BY Halved
    <2>2. CASE i = 2 * m - 1
      <3>1. d[i] = s[m] /\ s[m] \in 1 .. n
        BY <1>0, <2>2
      <3> QED
        BY <3>1
    <2>3. CASE i = 2 * m
      <3>1. d[i] = 2 * n + 1 - s[m] /\ s[m] \in 1 .. n
        BY <1>0, <2>3
      <3> QED
        BY <3>1
    <2> QED
      BY <2>1, <2>2, <2>3
  <1>2. ASSUME NEW i \in 1 .. 2 * n, NEW j \in 1 .. 2 * n, d[i] = d[j] PROVE i = j
    <2>1. PICK m \in 1 .. n : i = 2 * m - 1 \/ i = 2 * m
      BY Halved
    <2>2. PICK k \in 1 .. n : j = 2 * k - 1 \/ j = 2 * k
      BY Halved
    <2>3. s[m] \in 1 .. n /\ s[k] \in 1 .. n
      BY <1>0
    <2>4. CASE i = 2 * m - 1 /\ j = 2 * k - 1
      <3>1. d[2 * m - 1] = s[m] /\ d[2 * k - 1] = s[k]
        BY <1>0
      <3>2. s[m] = s[k]
        BY <1>2, <2>4, <3>1
      <3> QED
        BY <1>s, <2>4, <3>2
    <2>5. CASE i = 2 * m /\ j = 2 * k
      <3>1. 2 * n + 1 - s[m] = 2 * n + 1 - s[k]
        BY <1>0, <1>2, <2>5
      <3>2. s[m] = s[k]
        BY <2>3, <3>1
      <3> QED
        BY <1>s, <2>5, <3>2
    <2>6. CASE i = 2 * m - 1 /\ j = 2 * k
      <3>1. s[m] = 2 * n + 1 - s[k]
        BY <1>0, <1>2, <2>6
      <3> QED
        BY <2>3, <3>1
    <2>7. CASE i = 2 * m /\ j = 2 * k - 1
      <3>1. s[k] = 2 * n + 1 - s[m]
        BY <1>0, <1>2, <2>7
      <3> QED
        BY <2>3, <3>1
    <2> QED
      BY <2>1, <2>2, <2>4, <2>5, <2>6, <2>7
  <1>3. ASSUME NEW v \in 1 .. 2 * n PROVE \E i \in 1 .. 2 * n : d[i] = v
    <2>1. CASE v <= n
      <3>1. PICK m \in 1 .. n : s[m] = v
        BY <1>s, <2>1
      <3> QED
        BY <1>0, <3>1
    <2>2. CASE v > n
      <3>1. 2 * n + 1 - v \in 1 .. n
        BY <2>2
      <3>2. PICK m \in 1 .. n : s[m] = 2 * n + 1 - v
        BY <1>s, <3>1
      <3>3. d[2 * m] = v /\ 2 * m \in 1 .. 2 * n
        BY <1>0, <3>2
      <3> QED
        BY <3>3
    <2> QED
      BY <2>1, <2>2
  <1>4. d \in [1 .. 2 * n -> 1 .. 2 * n]
    BY <1>d, <1>1
  <1>5. d \in Perms(2 * n)
    BY <1>2, <1>3, <1>4 DEF Perms
  <1> QED
    BY <1>5 DEF d

\* Two seeds that meet in the first round add up to one more than the size.
LEMMA SeedsAre ==
  ASSUME NEW k \in Nat \ {0}
  PROVE  /\ SeedOrder[k] \in Perms(Size[k])
         /\ \A m \in 1 .. Size[k - 1] : /\ 2 * m - 1 \in 1 .. Size[k] /\ 2 * m \in 1 .. Size[k]
                                        /\ SeedOrder[k][2 * m - 1] + SeedOrder[k][2 * m] = Size[k] + 1
  <1> DEFINE S == UNION {Perms(Size[n]) : n \in Nat}
             Next1(n, s) == IF n # 0 /\ s \in Perms(Size[n]) THEN Doubled(Size[n], s) ELSE <<1, 2>>
             step == [p \in Nat \X S |-> Next1(p[1], p[2])]
  <1>1. Size[1] = 2 /\ <<1, 2>> \in Perms(Size[1]) /\ <<1, 2>> \in S
    <2>1. Size[1] = 2
      <3>1. Size[0 + 1] = 2 * Size[0] /\ Size[0] = 1
        BY SizeIs
      <3> QED
        BY <3>1
    <2>2. <<1, 2>> \in Perms(2)
      <3>1. <<1, 2>> \in [1 .. 2 -> 1 .. 2]
        OBVIOUS
      <3>2. \A i, j \in 1 .. 2 : <<1, 2>>[i] = <<1, 2>>[j] => i = j
        OBVIOUS
      <3>3. \A v \in 1 .. 2 : <<1, 2>>[v] = v
        OBVIOUS
      <3> QED
        BY <3>1, <3>2, <3>3 DEF Perms
    <2> QED
      BY <2>1, <2>2
  <1>2. ASSUME NEW n \in Nat, NEW s \in Perms(Size[n])
        PROVE  Doubled(Size[n], s) \in Perms(Size[n + 1])
    BY SizeIs, DoubledPerms
  <1>3. step \in [Nat \X S -> S]
    <2>1. ASSUME NEW n \in Nat, NEW s \in S PROVE Next1(n, s) \in S
      <3>1. CASE n # 0 /\ s \in Perms(Size[n])
        <4>1. Doubled(Size[n], s) \in Perms(Size[n + 1]) /\ n + 1 \in Nat
          BY <1>2, <3>1
        <4> QED
          BY <3>1, <4>1
      <3>2. CASE ~(n # 0 /\ s \in Perms(Size[n]))
        BY <1>1, <3>2
      <3> QED
        BY <3>1, <3>2
    <2> HIDE DEF S, Next1
    <2> QED
      BY <2>1
  <1>4. PICK F \in [Nat -> S] : F[0] = <<1, 2>> /\ \A n \in Nat : F[n + 1] = step[<<n, F[n]>>]
    <2>1. <<1, 2>> \in S
      BY <1>1
    <2> DEFINE first == <<1, 2>>
    <2>2. first \in S /\ step \in [Nat \X S -> S]
      BY <1>3, <2>1
    <2> HIDE DEF S, step, first, Next1
    <2>3. PICK F : Steps(F, S, first, step)
      BY <2>2, Recursion
    <2> QED
      BY <2>3 DEF first, Steps
  <1>5. ASSUME NEW n \in Nat PROVE F[n + 1] = Next1(n, F[n])
    <2> HIDE DEF S, Next1
    <2> QED
      BY <1>4
  <1>6. ASSUME NEW n \in Nat PROVE F[n + 1] \in Perms(Size[n + 1])
    <2> DEFINE P == {j \in Nat : F[j + 1] \in Perms(Size[j + 1])}
    <2>1. 0 \in P
      <3>1. F[0 + 1] = Next1(0, F[0])
        BY <1>5
      <3>2. F[1] = <<1, 2>>
        BY <3>1
      <3> QED
        BY <1>1, <3>2
    <2>2. ASSUME NEW j \in Nat, j \in P PROVE j + 1 \in P
      <3>0. j + 1 \in Nat /\ j + 1 # 0 /\ F[j + 1] \in Perms(Size[j + 1])
        BY <2>2
      <3>1. F[(j + 1) + 1] = Next1(j + 1, F[j + 1])
        BY <1>5, <3>0
      <3>2. F[(j + 1) + 1] = Doubled(Size[j + 1], F[j + 1])
        BY <3>0, <3>1
      <3>3. F[(j + 1) + 1] \in Perms(Size[(j + 1) + 1])
        BY <1>2, <3>0, <3>2
      <3> QED
        BY <3>0, <3>3
    <2>3. Nat \subseteq P
      <3> HIDE DEF P
      <3> QED
        BY <2>1, <2>2, Onward
    <2> QED
      BY <2>3
  <1> DEFINE Seeds(f) == f = [n \in Nat |-> IF n <= 1 THEN <<1, 2>>
                                ELSE [i \in 1 .. Size[n] |-> LET s == f[n - 1][(i + 1) \div 2]
                                                            IN  IF i % 2 = 1 THEN s ELSE Size[n] + 1 - s]]
  <1>7. ASSUME NEW n \in Nat, n > 1
        PROVE  F[n] = [i \in 1 .. Size[n] |-> LET s == F[n - 1][(i + 1) \div 2]
                                            IN  IF i % 2 = 1 THEN s ELSE Size[n] + 1 - s]
    <2>1. n - 1 \in Nat /\ n - 1 # 0 /\ n - 2 \in Nat /\ (n - 1) + 1 = n /\ (n - 2) + 1 = n - 1
      BY <1>7
    <2>2. F[n - 1] \in Perms(Size[n - 1])
      BY <1>6, <2>1
    <2>3. F[n] = Next1(n - 1, F[n - 1])
      BY <1>5, <2>1
    <2>4. F[n] = Doubled(Size[n - 1], F[n - 1])
      BY <2>1, <2>2, <2>3
    <2>5. Size[n] = 2 * Size[n - 1]
      BY <2>1, SizeIs
    <2> QED
      BY <2>4, <2>5 DEF Doubled
  <1>8. Seeds(F)
    <2>1. F[0] = <<1, 2>> /\ F[1] = <<1, 2>>
      <3>1. F[0 + 1] = Next1(0, F[0])
        BY <1>5
      <3> QED
        BY <1>4, <3>1
    <2>2. ASSUME NEW n \in Nat
          PROVE  F[n] = IF n <= 1 THEN <<1, 2>>
                                ELSE [i \in 1 .. Size[n] |-> LET s == F[n - 1][(i + 1) \div 2]
                                                            IN  IF i % 2 = 1 THEN s ELSE Size[n] + 1 - s]
      <3>1. CASE n <= 1
        <4>1. n = 0 \/ n = 1
          BY <3>1
        <4> QED
          BY <2>1, <3>1, <4>1
      <3>2. CASE ~(n <= 1)
        <4>1. n > 1
          BY <3>2
        <4> QED
          BY <1>7, <3>2, <4>1
      <3> QED
        BY <3>1, <3>2
    <2> HIDE DEF S
    <2> QED
      BY <1>4, <2>2
  <1>9. Seeds(SeedOrder)
    <2>1. SeedOrder = CHOOSE f : Seeds(f)
      BY DEF SeedOrder
    <2> HIDE DEF Seeds
    <2> QED
      BY <1>8, <2>1
  <1>10. ASSUME NEW n \in Nat PROVE SeedOrder[n] = F[n]
    <2> DEFINE P == {j \in Nat : SeedOrder[j] = F[j]}
    <2>1. 0 \in P
      BY <1>8, <1>9
    <2>2. ASSUME NEW j \in Nat, j \in P PROVE j + 1 \in P
      <3>1. j + 1 \in Nat /\ (j + 1) - 1 = j /\ SeedOrder[j] = F[j]
        BY <2>2
      <3>2. SeedOrder[j + 1] = F[j + 1]
        <4> DEFINE Body(f, l) == IF l <= 1 THEN <<1, 2>>
                                ELSE [i \in 1 .. Size[l] |-> LET s == f[l - 1][(i + 1) \div 2]
                                                            IN  IF i % 2 = 1 THEN s ELSE Size[l] + 1 - s]
        <4>1. SeedOrder[j + 1] = Body(SeedOrder, j + 1) /\ F[j + 1] = Body(F, j + 1)
          BY <1>8, <1>9, <3>1
        <4>2. Body(SeedOrder, j + 1) = Body(F, j + 1)
          BY <3>1
        <4> HIDE DEF Body
        <4> QED
          BY <4>1, <4>2
      <3> QED
        BY <3>1, <3>2
    <2>3. Nat \subseteq P
      <3> HIDE DEF P
      <3> QED
        BY <2>1, <2>2, Onward
    <2> QED
      BY <2>3
  <1>11. k - 1 \in Nat /\ (k - 1) + 1 = k
    OBVIOUS
  <1>12. SeedOrder[k] \in Perms(Size[k])
    BY <1>6, <1>10, <1>11
  <1>13. ASSUME NEW m \in 1 .. Size[k - 1]
         PROVE  /\ 2 * m - 1 \in 1 .. Size[k] /\ 2 * m \in 1 .. Size[k]
                /\ SeedOrder[k][2 * m - 1] + SeedOrder[k][2 * m] = Size[k] + 1
    <2>1. CASE k = 1
      <3>1. m = 1 /\ SeedOrder[k] = <<1, 2>> /\ Size[k] = 2
        <4>1. Size[k - 1] = 1
          BY <2>1, SizeIs
        <4>2. SeedOrder[1] = <<1, 2>>
          BY <1>9
        <4> QED
          BY <1>1, <2>1, <4>1, <4>2
      <3> QED
        BY <3>1
    <2>2. CASE k # 1
      <3>1. k - 1 \in Nat /\ (k - 2) \in Nat /\ (k - 2) + 1 = k - 1 /\ k - 1 # 0
        BY <2>2
      <3>2. F[k - 1] \in Perms(Size[k - 1])
        BY <1>6, <3>1
      <3>3. F[(k - 1) + 1] = Next1(k - 1, F[k - 1])
        BY <1>5, <3>1
      <3>4. SeedOrder[k] = Doubled(Size[k - 1], F[k - 1])
        BY <1>10, <1>11, <3>1, <3>2, <3>3
      <3>5. Size[k] = 2 * Size[k - 1] /\ Size[k - 1] \in Nat \ {0}
        BY <1>11, SizeIs
      <3>6. F[k - 1] \in [1 .. Size[k - 1] -> 1 .. Size[k - 1]]
        BY <3>2 DEF Perms
      <3>7. F[k - 1][m] \in 1 .. Size[k - 1]
        BY <3>6
      <3>8. /\ 2 * m - 1 \in 1 .. 2 * Size[k - 1] /\ 2 * m \in 1 .. 2 * Size[k - 1]
            /\ SeedOrder[k][2 * m - 1] = F[k - 1][m] /\ SeedOrder[k][2 * m] = 2 * Size[k - 1] + 1 - F[k - 1][m]
        <4> DEFINE h == Size[k - 1]
                   s == F[k - 1]
        <4>1. h \in Nat \ {0} /\ s \in [1 .. h -> 1 .. h] /\ m \in 1 .. h
          BY <3>5, <3>6
        <4> HIDE DEF h, s
        <4>2. /\ 2 * m - 1 \in 1 .. 2 * h /\ 2 * m \in 1 .. 2 * h
              /\ Doubled(h, s)[2 * m - 1] = s[m] /\ Doubled(h, s)[2 * m] = 2 * h + 1 - s[m]
          BY <4>1, DoubledAt
        <4> QED
          BY <3>4, <4>2 DEF h, s
      <3> QED
        BY <3>5, <3>7, <3>8
    <2> QED
      BY <2>1, <2>2
  <1> QED
    BY <1>12, <1>13

LEMMA RoundsAre ==
  ASSUME NEW n \in Nat \ {0, 1}
  PROVE  /\ RoundsFor(n) \in Nat \ {0}
         /\ n <= Size[RoundsFor(n)] /\ Size[RoundsFor(n) - 1] < n
         /\ \A k \in Nat : Size[k] >= n => RoundsFor(n) <= k
  <1> DEFINE T == {k \in Nat : Size[k] >= n}
             Is(k) == Size[k] >= n /\ \A j \in 0 .. k - 1 : Size[j] < n
  <1>1. n \in T
    <2> DEFINE P == {k \in Nat : Size[k] >= k + 1}
    <2>1. 0 \in P
      BY SizeIs
    <2>2. ASSUME NEW k \in Nat, k \in P PROVE k + 1 \in P
      <3>1. Size[k + 1] = 2 * Size[k] /\ Size[k] \in Nat /\ Size[k] >= k + 1
        BY <2>2, SizeIs
      <3> QED
        BY <3>1
    <2>3. Nat \subseteq P
      <3> HIDE DEF P
      <3> QED
        BY <2>1, <2>2, Onward
    <2>4. Size[n] >= n + 1 /\ Size[n] \in Nat
      BY <2>3, SizeIs
    <2> QED
      BY <2>4
  <1>2. PICK k \in T : \A y \in T : k <= y
    <2>1. T \in SUBSET Nat /\ T # {}
      BY <1>1
    <2> HIDE DEF T
    <2> QED
      BY <2>1, Least
  <1>3. k \in 0 .. n /\ Is(k)
    <2>1. k \in Nat /\ k <= n /\ Size[k] >= n
      BY <1>1, <1>2
    <2>2. ASSUME NEW j \in 0 .. k - 1 PROVE Size[j] < n
      <3>1. j \in Nat /\ ~(k <= j) /\ Size[j] \in Nat
        BY <2>1, SizeIs
      <3> QED
        BY <1>2, <3>1
    <2> QED
      BY <2>1, <2>2
  <1>4. RoundsFor(n) \in 0 .. n /\ Is(RoundsFor(n))
    <2>1. RoundsFor(n) = CHOOSE j \in 0 .. n : Is(j)
      BY DEF RoundsFor
    <2> HIDE DEF Is
    <2> QED
      BY <1>3, <2>1
  <1>5. RoundsFor(n) # 0
    BY <1>4, SizeIs
  <1>6. Size[RoundsFor(n) - 1] < n
    BY <1>4, <1>5
  <1>7. ASSUME NEW j \in Nat, Size[j] >= n PROVE RoundsFor(n) <= j
    BY <1>4, <1>7, SizeIs
  <1>8. Size[RoundsFor(n)] \in Nat
    BY <1>4, SizeIs
  <1> QED
    BY <1>4, <1>5, <1>6, <1>7, <1>8

-----------------------------------------------------------------------------
(* A sound bracket, and what a decision makes of it.                        *)

Racers(t) == ToSet(t.racerIds)
MatchOf(t) == [a : Racers(t) \cup {None}, b : Racers(t) \cup {None}, winner : Racers(t) \cup {None}]

Shape(t) ==
  /\ t = [racerIds |-> t.racerIds, rounds |-> t.rounds, championId |-> t.championId, matches |-> t.matches]
  /\ t.rounds \in Nat \ {0} /\ None \notin Racers(t)
  /\ t.matches \in [Matches(t.rounds) -> MatchOf(t)]

\* Who wins a match was in it, and after the first round both racers were there.
WonInside(t) ==
  \A id \in Matches(t.rounds) : t.matches[id].winner # None =>
    /\ t.matches[id].winner \in {t.matches[id].a, t.matches[id].b}
    /\ id[1] # 1 => t.matches[id].a # None /\ t.matches[id].b # None

\* A slot of a later round holds who won the match that feeds it, or none yet.
Fed(t) ==
  \A id \in Matches(t.rounds) :
    id[1] < t.rounds => t.matches[Parent(id)][ParentSlot(id)] = t.matches[id].winner

\* A racer is in one match of a round, once.
OncePerRound(t) ==
  \A id, other \in Matches(t.rounds), s, u \in Slots :
    id[1] = other[1] /\ t.matches[id][s] # None /\ t.matches[id][s] = t.matches[other][u] =>
      id = other /\ s = u

\* Who is in a round has won in the rounds before.
CameThrough(t) ==
  \A id, other \in Matches(t.rounds), s, u \in Slots :
    id[1] < other[1] /\ t.matches[id][s] # None /\ t.matches[id][s] = t.matches[other][u] =>
      t.matches[id].winner = t.matches[id][s]

Entered(t) ==
  \A x \in Racers(t) : \E id \in Matches(t.rounds), s \in Slots : id[1] = 1 /\ t.matches[id][s] = x

Crowned(t) == t.championId = t.matches[<<t.rounds, 0>>].winner

Sound(t) == Shape(t) /\ WonInside(t) /\ Fed(t) /\ OncePerRound(t) /\ CameThrough(t) /\ Entered(t) /\ Crowned(t)

\* What can be decided: who is in a match, which waits for nobody.
Decidable(t, id, w) ==
  /\ id \in Matches(t.rounds) /\ t.matches[id].winner = None
  /\ w # None /\ w \in {t.matches[id].a, t.matches[id].b}
  /\ id[1] # 1 => t.matches[id].a # None /\ t.matches[id].b # None

\* The slot that a decision fills.
Fills(t, id, j, s) == id[1] < t.rounds /\ j = Parent(id) /\ s = ParentSlot(id)

\* What a decision makes of a bracket.
Becomes(t, id, w, d) ==
  /\ Shape(d) /\ d.rounds = t.rounds /\ d.racerIds = t.racerIds
  /\ d.championId = d.matches[<<d.rounds, 0>>].winner
  /\ \A j \in Matches(t.rounds) : d.matches[j].winner = IF j = id THEN w ELSE t.matches[j].winner
  /\ \A j \in Matches(t.rounds), s \in Slots :
       d.matches[j][s] = IF Fills(t, id, j, s) THEN w ELSE t.matches[j][s]

LEMMA Decided ==
  ASSUME NEW t, Shape(t), NEW id, NEW w, Decidable(t, id, w), NEW d, d = Decide(t, id, w)
  PROVE  Becomes(t, id, w, d)
  <1> DEFINE won == [t.matches EXCEPT ![id].winner = w]
             fed == IF id[1] < t.rounds
                    THEN [won EXCEPT ![Parent(id)] = [@ EXCEPT ![ParentSlot(id)] = w]]
                    ELSE won
             M == MatchOf(t)
             K == Matches(t.rounds)
  <1>0. /\ t.matches \in [K -> M] /\ id \in K /\ w \in Racers(t) \cup {None} /\ t.rounds \in Nat
        /\ w # None /\ t.matches[id].winner = None /\ w \in {t.matches[id].a, t.matches[id].b}
    <2>1. t.matches \in [K -> M] /\ id \in K /\ t.rounds \in Nat
      BY DEF Shape, Decidable
    <2>2. t.matches[id] \in M
      BY <2>1
    <2> QED
      BY <2>1, <2>2 DEF Decidable, MatchOf
  <1>1. d = [t EXCEPT !.matches = fed, !.championId = fed[<<t.rounds, 0>>].winner]
    <2>1. DOMAIN t.matches = K
      BY <1>0
    <2> QED
      BY <1>0, <2>1 DEF Decide
  <1>2. won \in [K -> M] /\ \A j \in K : /\ won[j].winner = IF j = id THEN w ELSE t.matches[j].winner
                                         /\ \A s \in Slots : won[j][s] = t.matches[j][s]
    <2>1. won \in [K -> M]
      <3> HIDE DEF K
      <3> QED
        BY <1>0 DEF MatchOf
    <2>2. ASSUME NEW j \in K, NEW s \in Slots PROVE won[j][s] = t.matches[j][s]
      <3>1. t.matches[j] \in M
        BY <1>0
      <3> QED
        BY <1>0, <3>1 DEF MatchOf, Slots
    <2>3. ASSUME NEW j \in K PROVE won[j].winner = IF j = id THEN w ELSE t.matches[j].winner
      <3>1. t.matches[j] \in M
        BY <1>0
      <3> QED
        BY <1>0, <3>1 DEF MatchOf
    <2> QED
      BY <2>1, <2>2, <2>3
  <1> HIDE DEF won
  <1>3. fed \in [K -> M] /\ \A j \in K : /\ fed[j].winner = won[j].winner
                                         /\ \A s \in Slots : fed[j][s] = IF Fills(t, id, j, s) THEN w ELSE won[j][s]
    <2>1. CASE id[1] < t.rounds
      <3>1. Parent(id) \in K /\ ParentSlot(id) \in Slots
        BY <1>0, <2>1, ParentIn
      <3>2. fed = [won EXCEPT ![Parent(id)] = [@ EXCEPT ![ParentSlot(id)] = w]]
        BY <2>1
      <3> DEFINE p == Parent(id)
                 q == ParentSlot(id)
      <3>3. p \in K /\ q \in Slots /\ fed = [won EXCEPT ![p] = [@ EXCEPT ![q] = w]]
        BY <3>1, <3>2
      <3>4. \A j, s : Fills(t, id, j, s) <=> j = p /\ s = q
        BY <2>1 DEF Fills
      <3> HIDE DEF fed, p, q, K
      <3>5. fed \in [K -> M]
        BY <1>0, <1>2, <3>3 DEF MatchOf, Slots
      <3>6. ASSUME NEW j \in K
            PROVE  /\ fed[j].winner = won[j].winner
                   /\ \A s \in Slots : fed[j][s] = IF j = p /\ s = q THEN w ELSE won[j][s]
        <4>1. won[j] \in M
          BY <1>2
        <4>2. CASE j = p
          <5>1. fed[j] = [won[j] EXCEPT ![q] = w]
            BY <1>2, <3>3, <4>2
          <5> QED
            BY <3>3, <4>1, <4>2, <5>1 DEF MatchOf, Slots
        <4>3. CASE j # p
          <5>1. fed[j] = won[j]
            BY <1>2, <3>3, <4>3
          <5> QED
            BY <4>3, <5>1
        <4> QED
          BY <4>2, <4>3
      <3> QED
        BY <3>4, <3>5, <3>6
    <2>2. CASE ~(id[1] < t.rounds)
      <3>1. fed = won
        BY <2>2
      <3> QED
        BY <1>2, <2>2, <3>1 DEF Fills
    <2> QED
      BY <2>1, <2>2
  <1> HIDE DEF fed
  <1>4. d = [racerIds |-> t.racerIds, rounds |-> t.rounds, championId |-> fed[<<t.rounds, 0>>].winner, matches |-> fed]
    BY <1>1 DEF Shape
  <1>5. Shape(d)
    BY <1>3, <1>4 DEF Shape, MatchOf, Racers
  <1>6. d.championId = d.matches[<<d.rounds, 0>>].winner /\ d.rounds = t.rounds /\ d.racerIds = t.racerIds
    BY <1>4
  <1>7. ASSUME NEW j \in K PROVE d.matches[j].winner = IF j = id THEN w ELSE t.matches[j].winner
    BY <1>2, <1>3, <1>4
  <1>8. ASSUME NEW j \in K, NEW s \in Slots PROVE d.matches[j][s] = IF Fills(t, id, j, s) THEN w ELSE t.matches[j][s]
    BY <1>2, <1>3, <1>4
  <1> QED
    BY <1>5, <1>6, <1>7, <1>8 DEF Becomes

LEMMA DecideKeeps ==
  ASSUME NEW t, Sound(t), NEW id, NEW w, Decidable(t, id, w), NEW d, d = Decide(t, id, w)
  PROVE  Sound(d)
  <1> DEFINE R == t.rounds
             K == Matches(R)
             In(j, s) == t.matches[j][s]
             Won(j) == t.matches[j].winner
  <1>1. /\ Shape(d) /\ d.rounds = R /\ d.racerIds = t.racerIds
        /\ d.championId = d.matches[<<d.rounds, 0>>].winner
        /\ \A j \in K : d.matches[j].winner = IF j = id THEN w ELSE Won(j)
        /\ \A j \in K, s \in Slots : d.matches[j][s] = IF Fills(t, id, j, s) THEN w ELSE In(j, s)
    BY Decided DEF Sound, Becomes
  <1>2. /\ R \in Nat \ {0} /\ id \in K /\ w # None /\ Won(id) = None
        /\ \E z \in Slots : In(id, z) = w
    <2>1. t.matches[id] \in MatchOf(t)
      BY DEF Sound, Shape, Decidable
    <2>2. t.matches[id]["a"] = t.matches[id].a /\ t.matches[id]["b"] = t.matches[id].b
      BY <2>1 DEF MatchOf
    <2> QED
      BY <2>2 DEF Sound, Shape, Decidable, Slots
  <1>3. PICK z \in Slots : In(id, z) = w
    BY <1>2
  <1>w. \A j \in K : Won(j) # None => \E y \in Slots : In(j, y) = Won(j)
    <2> SUFFICES ASSUME NEW j \in K, Won(j) # None PROVE \E y \in Slots : In(j, y) = Won(j)
      OBVIOUS
    <2>1. t.matches[j] \in MatchOf(t)
      BY DEF Sound, Shape
    <2>2. t.matches[j]["a"] = t.matches[j].a /\ t.matches[j]["b"] = t.matches[j].b
      BY <2>1 DEF MatchOf
    <2> QED
      BY <2>2 DEF Sound, WonInside, Slots
  <1>b. \A j \in K : Won(j) # None /\ j[1] # 1 => \A s \in Slots : In(j, s) # None
    <2> SUFFICES ASSUME NEW j \in K, Won(j) # None, j[1] # 1, NEW s \in Slots PROVE In(j, s) # None
      OBVIOUS
    <2>1. t.matches[j] \in MatchOf(t)
      BY DEF Sound, Shape
    <2>2. t.matches[j]["a"] = t.matches[j].a /\ t.matches[j]["b"] = t.matches[j].b
      BY <2>1 DEF MatchOf
    <2> QED
      BY <2>2 DEF Sound, WonInside, Slots
  <1>once. \A j, k \in K, s, u \in Slots : j[1] = k[1] /\ In(j, s) # None /\ In(j, s) = In(k, u) => j = k /\ s = u
    BY DEF Sound, OncePerRound
  <1>thru. \A j, k \in K, s, u \in Slots : j[1] < k[1] /\ In(j, s) # None /\ In(j, s) = In(k, u) => Won(j) = In(j, s)
    BY DEF Sound, CameThrough
  <1>fed. \A j \in K : j[1] < R => In(Parent(j), ParentSlot(j)) = Won(j)
    BY DEF Sound, Fed
  <1>r. \A j \in K : j[1] \in 1 .. R
    BY <1>2, MatchIs
  <1>f. ASSUME NEW j, NEW s, Fills(t, id, j, s)
        PROVE  j \in K /\ s \in Slots /\ j[1] = id[1] + 1 /\ In(j, s) = None /\ Won(j) = None /\ j # id
    <2>1. id[1] < R /\ j = Parent(id) /\ s = ParentSlot(id)
      BY <1>f DEF Fills
    <2>2. j \in K /\ s \in Slots /\ j[1] = id[1] + 1 /\ id[1] \in 1 .. R
      BY <1>2, <2>1, ParentIn
    <2>3. In(j, s) = None
      BY <1>2, <1>fed, <2>1
    <2>4. j[1] # 1 /\ j # id
      BY <2>2
    <2> QED
      BY <1>b, <2>2, <2>3, <2>4
  <1> DEFINE InD(j, s) == d.matches[j][s]
             WonD(j) == d.matches[j].winner
  <1>in. \A j \in K, s \in Slots : InD(j, s) = IF Fills(t, id, j, s) THEN w ELSE In(j, s)
    BY <1>1
  <1>won. \A j \in K : WonD(j) = IF j = id THEN w ELSE Won(j)
    BY <1>1
  <1>d. ASSUME NEW j \in K
        PROVE  d.matches[j].a = InD(j, "a") /\ d.matches[j].b = InD(j, "b")
    <2>1. d.matches[j] \in MatchOf(d)
      BY <1>1 DEF Shape
    <2> QED
      BY <2>1 DEF MatchOf
  <1>e. Decidable(t, id, w)
    OBVIOUS
  <1>i. \A s \in Slots : id[1] # 1 => In(id, s) # None
    <2>1. t.matches[id] \in MatchOf(t)
      BY DEF Sound, Shape, Decidable
    <2>2. t.matches[id]["a"] = t.matches[id].a /\ t.matches[id]["b"] = t.matches[id].b
      BY <2>1 DEF MatchOf
    <2> QED
      BY <2>2 DEF Decidable, Slots
  <1> HIDE DEF In, Won, InD, WonD, K, R
  <1>4. WonInside(d)
    <2>1. ASSUME NEW j \in K, WonD(j) # None
          PROVE  /\ \E y \in Slots : InD(j, y) = WonD(j)
                 /\ j[1] # 1 => \A s \in Slots : InD(j, s) # None
      <3>1. CASE j = id
        <4>1. \A s \in Slots : InD(j, s) = In(j, s)
          BY <1>in, <1>f, <3>1
        <4> QED
          BY <1>3, <1>i, <1>won, <3>1, <4>1
      <3>2. CASE j # id
        <4>1. Won(j) # None /\ WonD(j) = Won(j)
          BY <1>won, <2>1, <3>2
        <4>2. \A s \in Slots : InD(j, s) = In(j, s)
          BY <1>in, <1>f, <4>1
        <4> QED
          BY <1>w, <1>b, <4>1, <4>2
      <3> QED
        BY <3>1, <3>2
    <2>2. ASSUME NEW j \in K, WonD(j) # None
          PROVE  /\ WonD(j) \in {InD(j, "a"), InD(j, "b")}
                 /\ j[1] # 1 => InD(j, "a") # None /\ InD(j, "b") # None
      BY <2>1, <2>2 DEF Slots
    <2> QED
      BY <1>1, <1>d, <2>2 DEF WonInside, WonD, K
  <1>5. Fed(d)
    <2>1. ASSUME NEW j \in K, j[1] < R PROVE InD(Parent(j), ParentSlot(j)) = WonD(j)
      <3>1. Parent(j) \in K /\ ParentSlot(j) \in Slots
        BY <1>2, <2>1, ParentIn DEF K
      <3>2. CASE j = id
        <4>1. Fills(t, id, Parent(j), ParentSlot(j))
          BY <2>1, <3>2 DEF Fills, R
        <4> QED
          BY <1>in, <1>won, <3>1, <3>2, <4>1
      <3>3. CASE j # id
        <4>1. ~Fills(t, id, Parent(j), ParentSlot(j))
          BY <1>2, <3>3, OnlyChild DEF Fills, K
        <4> QED
          BY <1>in, <1>won, <1>fed, <2>1, <3>1, <3>3, <4>1
      <3> QED
        BY <3>2, <3>3
    <2> QED
      BY <1>1, <2>1 DEF Fed, K, InD, WonD
  <1>6. OncePerRound(d)
    <2>0. ASSUME NEW j \in K, NEW s \in Slots, NEW k \in K, NEW u \in Slots, j[1] = k[1],
                 Fills(t, id, j, s), ~Fills(t, id, k, u), In(k, u) = w
          PROVE  FALSE
      <3>1. k[1] = id[1] + 1 /\ id[1] \in 1 .. R /\ k[1] # 1
        BY <1>f, <1>r, <1>2, <2>0
      <3>2. PICK c \in K : Parent(c) = k /\ ParentSlot(c) = u /\ c[1] = k[1] - 1
        BY <1>2, <3>1, ChildIn DEF K
      <3>3. c[1] = id[1] /\ c[1] < R
        <4>1. k[1] \in 1 .. R /\ R \in Nat
          BY <1>r, <1>2
        <4> QED
          BY <3>1, <3>2, <4>1
      <3>4. Won(c) = w
        BY <1>fed, <2>0, <3>2, <3>3
      <3>5. PICK y \in Slots : In(c, y) = w
        BY <1>w, <1>2, <3>4
      <3>6. c = id
        BY <1>once, <1>2, <1>3, <3>3, <3>5
      <3> QED
        BY <1>2, <3>4, <3>6
    <2>1. ASSUME NEW j \in K, NEW k \in K, NEW s \in Slots, NEW u \in Slots,
                 j[1] = k[1], InD(j, s) # None, InD(j, s) = InD(k, u)
          PROVE  j = k /\ s = u
      <3>1. CASE Fills(t, id, j, s) /\ Fills(t, id, k, u)
        BY <3>1 DEF Fills
      <3>2. CASE Fills(t, id, j, s) /\ ~Fills(t, id, k, u)
        <4>1. In(k, u) = w
          BY <1>in, <2>1, <3>2
        <4> QED
          BY <2>0, <2>1, <3>2, <4>1
      <3>3. CASE ~Fills(t, id, j, s) /\ Fills(t, id, k, u)
        <4>1. In(j, s) = w
          BY <1>in, <2>1, <3>3
        <4> QED
          BY <2>0, <2>1, <3>3, <4>1
      <3>4. CASE ~Fills(t, id, j, s) /\ ~Fills(t, id, k, u)
        <4>1. InD(j, s) = In(j, s) /\ InD(k, u) = In(k, u)
          BY <1>in, <3>4
        <4>2. In(j, s) # None /\ In(j, s) = In(k, u)
          BY <2>1, <4>1
        <4> QED
          BY <1>once, <2>1, <4>2
      <3> QED
        BY <3>1, <3>2, <3>3, <3>4
    <2> QED
      BY <1>1, <2>1 DEF OncePerRound, K, InD
  <1>7. CameThrough(d)
    <2>1. ASSUME NEW j \in K, NEW k \in K, NEW s \in Slots, NEW u \in Slots,
                 j[1] < k[1], InD(j, s) # None, InD(j, s) = InD(k, u)
          PROVE  WonD(j) = InD(j, s)
      <3>0. j[1] \in Nat /\ k[1] \in Nat /\ id[1] \in Nat
        BY <1>r, <1>2
      <3>1. CASE Fills(t, id, k, u)
        <4>1. k[1] = id[1] + 1
          BY <1>f, <3>1
        <4>2. ~Fills(t, id, j, s)
          <5>1. Fills(t, id, j, s) => j[1] = id[1] + 1
            BY <1>f
          <5> QED
            BY <2>1, <3>0, <4>1, <5>1
        <4>3. InD(j, s) = w /\ In(j, s) = w
          BY <1>in, <2>1, <3>1, <4>2
        <4>4. CASE j[1] = id[1]
          <5>1. j = id
            BY <1>once, <1>2, <1>3, <4>3, <4>4
          <5> QED
            BY <1>won, <4>3, <5>1
        <4>5. CASE j[1] # id[1]
          <5>1. j[1] < id[1]
            BY <2>1, <3>0, <4>1, <4>5
          <5>2. Won(j) = w /\ j # id
            BY <1>thru, <1>2, <1>3, <4>3, <5>1, <3>0
          <5> QED
            BY <1>won, <4>3, <5>2
        <4> QED
          BY <4>4, <4>5
      <3>2. CASE ~Fills(t, id, k, u) /\ Fills(t, id, j, s)
        <4>1. In(k, u) = w /\ j[1] = id[1] + 1
          BY <1>in, <1>f, <2>1, <3>2
        <4>2. id[1] < k[1]
          BY <2>1, <3>0, <4>1
        <4>3. Won(id) = w
          BY <1>thru, <1>2, <1>3, <4>1, <4>2
        <4> QED
          BY <1>2, <4>3
      <3>3. CASE ~Fills(t, id, k, u) /\ ~Fills(t, id, j, s)
        <4>1. InD(j, s) = In(j, s) /\ InD(k, u) = In(k, u)
          BY <1>in, <3>3
        <4>2. Won(j) = In(j, s)
          BY <1>thru, <2>1, <4>1
        <4>3. j # id
          BY <1>2, <2>1, <4>1, <4>2
        <4> QED
          BY <1>won, <4>1, <4>2, <4>3
      <3> QED
        BY <3>1, <3>2, <3>3
    <2> QED
      BY <1>1, <2>1 DEF CameThrough, K, InD, WonD
  <1>8. Entered(d)
    <2> SUFFICES ASSUME NEW x \in Racers(t)
                 PROVE  \E j \in K, s \in Slots : j[1] = 1 /\ InD(j, s) = x
      BY <1>1 DEF Entered, Racers, K, InD
    <2>1. PICK j \in K, s \in Slots : j[1] = 1 /\ In(j, s) = x
      BY DEF Sound, Entered, K, In, R
    <2>2. ~Fills(t, id, j, s)
      <3>1. Fills(t, id, j, s) => j[1] = id[1] + 1 /\ id[1] \in 1 .. R
        BY <1>f, <1>r, <1>2
      <3> QED
        BY <2>1, <3>1
    <2>3. InD(j, s) = x
      BY <1>in, <2>1, <2>2
    <2> QED
      BY <2>1, <2>3
  <1> QED
    BY <1>1, <1>4, <1>5, <1>6, <1>7, <1>8 DEF Sound, Crowned

-----------------------------------------------------------------------------
(* What such a bracket says of its races.                                   *)

\* After the byes: a first match that is not decided has its two racers.
Resolved(t) ==
  \A id \in Matches(t.rounds) : id[1] = 1 /\ t.matches[id].winner = None =>
    t.matches[id].a # None /\ t.matches[id].b # None

LEMMA SlotsOf ==
  ASSUME NEW t, Shape(t), NEW id \in Matches(t.rounds)
  PROVE  /\ t.matches[id]["a"] = t.matches[id].a /\ t.matches[id]["b"] = t.matches[id].b
         /\ t.matches[id] \in MatchOf(t) /\ id[1] \in 1 .. t.rounds /\ t.rounds \in Nat
         /\ id = <<id[1], id[2]>> /\ id[2] \in Nat
  <1>1. t.matches[id] \in MatchOf(t)
    BY DEF Shape
  <1>2. id[1] \in 1 .. t.rounds /\ t.rounds \in Nat /\ id = <<id[1], id[2]>> /\ id[2] \in Nat
    BY MatchIs DEF Shape
  <1> QED
    BY <1>1, <1>2 DEF MatchOf

\* Both slots of a later round are filled when the matches before it are decided.
LEMMA FilledFrom ==
  ASSUME NEW t, Sound(t), NEW id \in Matches(t.rounds), id[1] # 1,
         \A c \in Matches(t.rounds) : c[1] = id[1] - 1 => t.matches[c].winner # None
  PROVE  t.matches[id].a # None /\ t.matches[id].b # None
  <1>1. ASSUME NEW s \in Slots PROVE t.matches[id][s] # None
    <2>1. PICK c \in Matches(t.rounds) : Parent(c) = id /\ ParentSlot(c) = s /\ c[1] = id[1] - 1
      BY ChildIn DEF Sound, Shape
    <2>2. c[1] < t.rounds
      BY <2>1, SlotsOf DEF Sound
    <2> QED
      BY <2>1, <2>2 DEF Sound, Fed
  <1>2. t.matches[id]["a"] # None /\ t.matches[id]["b"] # None
    BY <1>1 DEF Slots
  <1> QED
    BY <1>2, SlotsOf DEF Sound

\* A champion is the last to win: every match was decided.
LEMMA AllDecided ==
  ASSUME NEW t, Sound(t), t.championId # None
  PROVE  \A id \in Matches(t.rounds) : t.matches[id].winner # None
  <1> DEFINE R == t.rounds
             K == Matches(R)
             P == {d \in 0 .. R - 1 : \A id \in K : id[1] = R - d => t.matches[id].winner # None}
  <1>1. R \in Nat \ {0} /\ R - 1 \in Nat
    BY DEF Sound, Shape
  <1>2. 0 \in P
    <2>0. R - 0 = R
      BY <1>1
    <2>1. \A id \in K : id[1] = R - 0 => id = <<R, 0>>
      <3> HIDE DEF R
      <3> QED
        BY <1>1, <2>0, FinalIs
    <2>2. t.matches[<<R, 0>>].winner # None
      BY DEF Sound, Crowned
    <2> QED
      BY <1>1, <2>1, <2>2
  <1>3. ASSUME NEW d \in 0 .. (R - 1) - 1, d \in P PROVE d + 1 \in P
    <2>1. ASSUME NEW c \in K, c[1] = R - (d + 1) PROVE t.matches[c].winner # None
      <3>1. c[1] < R
        BY <1>1, <2>1
      <3>2. /\ Parent(c) \in K /\ Parent(c)[1] = c[1] + 1 /\ ParentSlot(c) \in Slots
        BY <1>1, <3>1, ParentIn
      <3>3. Parent(c)[1] = R - d /\ Parent(c)[1] # 1
        BY <1>1, <2>1, <3>2
      <3>4. t.matches[Parent(c)].winner # None
        BY <1>3, <3>2, <3>3
      <3>5. t.matches[Parent(c)].a # None /\ t.matches[Parent(c)].b # None
        BY <3>2, <3>3, <3>4 DEF Sound, WonInside
      <3>6. t.matches[Parent(c)][ParentSlot(c)] # None
        BY <3>2, <3>5, SlotsOf DEF Sound, Slots
      <3> QED
        BY <3>1, <3>6 DEF Sound, Fed
    <2> QED
      BY <1>1, <2>1
  <1>4. \A d \in 0 .. R - 1 : d \in P
    <2> HIDE DEF P
    <2> QED
      BY <1>1, <1>2, <1>3, Upward
  <1>5. ASSUME NEW id \in K PROVE t.matches[id].winner # None
    <2>1. id[1] \in 1 .. R /\ R - id[1] \in 0 .. R - 1 /\ id[1] = R - (R - id[1])
      BY <1>1, SlotsOf DEF Sound
    <2> QED
      BY <1>4, <2>1
  <1> QED
    BY <1>5

\* Without a champion some match can be run: the first that is not decided.
LEMMA SomeReady ==
  ASSUME NEW t, Sound(t), Resolved(t), t.championId = None
  PROVE  Ready(t) # {}
  <1> DEFINE K == Matches(t.rounds)
             T == {r \in Nat : \E id \in K : id[1] = r /\ t.matches[id].winner = None}
  <1>1. t.rounds \in T
    <2>1. <<t.rounds, 0>> \in K
      BY FinalIs DEF Sound, Shape
    <2> QED
      BY <2>1 DEF Sound, Crowned, Shape
  <1>2. PICK r \in T : \A y \in T : r <= y
    <2>1. T \in SUBSET Nat /\ T # {}
      BY <1>1
    <2> HIDE DEF T
    <2> QED
      BY <2>1, Least
  <1>3. PICK id \in K : id[1] = r /\ t.matches[id].winner = None
    BY <1>2
  <1>4. t.matches[id].a # None /\ t.matches[id].b # None
    <2>1. CASE id[1] = 1
      BY <1>3, <2>1 DEF Resolved
    <2>2. CASE id[1] # 1
      <3>1. ASSUME NEW c \in K, c[1] = id[1] - 1 PROVE t.matches[c].winner # None
        <4>1. c[1] \in Nat /\ ~(r <= c[1])
          BY <1>3, <3>1, SlotsOf DEF Sound
        <4> QED
          BY <1>2, <4>1
      <3> QED
        BY <2>2, <3>1, FilledFrom
    <2> QED
      BY <2>1, <2>2
  <1>5. DOMAIN t.matches = K
    BY DEF Sound, Shape
  <1> QED
    BY <1>3, <1>4, <1>5 DEF Ready

\* The match that runs is one of those that can.
LEMMA CurrentIs ==
  ASSUME NEW t, Sound(t), CurrentMatch(t) # NoMatch \/ Ready(t) # {}
  PROVE  /\ CurrentMatch(t) # NoMatch /\ CurrentMatch(t) \in Ready(t) /\ CurrentMatch(t) \in Matches(t.rounds)
  <1> DEFINE K == Matches(t.rounds)
             Q == Ready(t)
             First(id) == \A other \in Q \ {id} : Before(id, other)
  <1>1. Q \subseteq K /\ Q # {}
    <2>1. Q \subseteq K
      BY DEF Sound, Shape, Ready
    <2>2. Q # {}
      BY DEF CurrentMatch
    <2> QED
      BY <2>1, <2>2
  <1>2. \A id \in Q : id[1] \in Nat /\ id[2] \in Nat /\ id = <<id[1], id[2]>> /\ id[1] # 0
    BY <1>1, SlotsOf DEF Sound
  <1> HIDE DEF Q, K
  <1>3. PICK r \in Nat : (\E id \in Q : id[1] = r) /\ \A id \in Q : r <= id[1]
    <2> DEFINE T == {id[1] : id \in Q}
    <2>1. T \in SUBSET Nat /\ T # {}
      BY <1>1, <1>2
    <2> HIDE DEF T
    <2>2. PICK r \in T : \A y \in T : r <= y
      BY <2>1, Least
    <2>3. r \in Nat
      BY <2>1
    <2>4. \E id \in Q : id[1] = r
      BY <2>2 DEF T
    <2>5. \A id \in Q : id[1] \in T
      BY DEF T
    <2> QED
      BY <2>2, <2>3, <2>4, <2>5
  <1>4. PICK m \in Nat : (\E id \in Q : id[1] = r /\ id[2] = m) /\ \A id \in Q : id[1] = r => m <= id[2]
    <2> DEFINE T == {id[2] : id \in {x \in Q : x[1] = r}}
    <2>1. T \in SUBSET Nat /\ T # {}
      BY <1>2, <1>3
    <2> HIDE DEF T
    <2>2. PICK m \in T : \A y \in T : m <= y
      BY <2>1, Least
    <2> QED
      BY <2>1, <2>2 DEF T
  <1>5. PICK id \in Q : id[1] = r /\ id[2] = m
    BY <1>4
  <1>6. First(id)
    <2> SUFFICES ASSUME NEW other \in Q \ {id} PROVE Before(id, other)
      OBVIOUS
    <2>1. other = <<other[1], other[2]>> /\ id = <<id[1], id[2]>> /\ other[1] \in Nat /\ other[2] \in Nat
      BY <1>2
    <2>2. r <= other[1] /\ (other[1] = r => m <= other[2])
      BY <1>3, <1>4
    <2>3. other[1] # r \/ other[2] # m
      BY <1>5, <2>1
    <2> QED
      BY <1>5, <2>1, <2>2, <2>3 DEF Before
  <1>7. CurrentMatch(t) \in Q
    <2>1. CurrentMatch(t) = CHOOSE x \in Q : First(x)
      BY <1>1 DEF CurrentMatch, Q
    <2> HIDE DEF First
    <2> QED
      BY <1>6, <2>1
  <1>8. CurrentMatch(t) # NoMatch
    BY <1>2, <1>7 DEF NoMatch
  <1> QED
    BY <1>1, <1>7, <1>8 DEF Q, K

LoserOf(m) == IF m.winner = m.a THEN m.b ELSE m.a
IsPlayed(m) == m.a # None /\ m.b # None /\ m.winner # None

\* The loser of a match is in no later one.
LEMMA LoserIsOut ==
  ASSUME NEW t, Sound(t), NEW id \in Matches(t.rounds), IsPlayed(t.matches[id]),
         NEW other \in Matches(t.rounds), Before(id, other)
  PROVE  LoserOf(t.matches[id]) \notin {t.matches[other].a, t.matches[other].b}
  <1> DEFINE m == t.matches[id]
             x == LoserOf(m)
  <1>1. m.a # m.b
    <2>1. m["a"] # None /\ ("a" # "b")
      BY SlotsOf DEF Sound, IsPlayed
    <2>2. m["a"] # m["b"]
      BY <2>1 DEF Sound, OncePerRound, Slots
    <2> QED
      BY <2>2, SlotsOf DEF Sound
  <1>2. PICK s \in Slots : m[s] = x /\ x # None /\ x # m.winner
    <2>1. m.winner \in {m.a, m.b}
      BY DEF Sound, WonInside, IsPlayed
    <2>2. x \in {m.a, m.b} /\ x # None /\ x # m.winner
      BY <1>1, <2>1 DEF LoserOf, IsPlayed
    <2> QED
      BY <2>2, SlotsOf DEF Sound, Slots
  <1> HIDE DEF x
  <1>3. ASSUME NEW u \in Slots, t.matches[other][u] = x PROVE FALSE
    <2>1. id[1] \in Nat /\ other[1] \in Nat
      BY SlotsOf DEF Sound
    <2>2. CASE id[1] < other[1]
      BY <1>2, <1>3, <2>2 DEF Sound, CameThrough
    <2>3. CASE id[1] = other[1] /\ id[2] < other[2]
      <3>1. id = other
        BY <1>2, <1>3, <2>3 DEF Sound, OncePerRound
      <3>2. id[2] \in Nat
        BY SlotsOf DEF Sound
      <3> QED
        BY <2>3, <3>1, <3>2
    <2> QED
      BY <2>2, <2>3 DEF Before
  <1>4. x # t.matches[other]["a"] /\ x # t.matches[other]["b"]
    BY <1>3 DEF Slots
  <1> QED
    BY <1>4, SlotsOf DEF Sound, x

\* Who is not the champion lost the last match they were in.
LEMMA TheOthersLost ==
  ASSUME NEW t, Sound(t), t.championId # None
  PROVE  {LoserOf(t.matches[id]) : id \in {m \in DOMAIN t.matches : IsPlayed(t.matches[m])}}
           = Racers(t) \ {t.championId}
  <1> DEFINE R == t.rounds
             K == Matches(R)
             lost == {LoserOf(t.matches[id]) : id \in {m \in DOMAIN t.matches : IsPlayed(t.matches[m])}}
  <1>0. DOMAIN t.matches = K /\ R \in Nat \ {0} /\ <<R, 0>> \in K /\ None \notin Racers(t)
    BY FinalIs DEF Sound, Shape
  <1>1. \A id \in K : t.matches[id].winner # None
    BY AllDecided
  <1>2. ASSUME NEW id \in K, IsPlayed(t.matches[id])
        PROVE  LoserOf(t.matches[id]) \in Racers(t) \ {t.championId}
    <2> DEFINE x == LoserOf(t.matches[id])
    <2>0. t.matches[id] \in MatchOf(t) /\ t.matches[id].a # None /\ t.matches[id].b # None
      BY <1>2, SlotsOf DEF Sound, IsPlayed
    <2>1. x \in Racers(t) /\ x # None
      BY <2>0 DEF MatchOf, LoserOf
    <2>2. CASE id = <<R, 0>>
      <3>0. t.matches[id]["a"] # None /\ "a" # "b"
        BY <2>0, SlotsOf DEF Sound
      <3>1. t.matches[id]["a"] # t.matches[id]["b"]
        BY <3>0 DEF Sound, OncePerRound, Slots
      <3>2. t.championId = t.matches[id].winner /\ t.matches[id].winner \in {t.matches[id].a, t.matches[id].b}
        BY <1>1, <2>2 DEF Sound, Crowned, WonInside
      <3>3. t.matches[id].a # t.matches[id].b
        BY <3>1, SlotsOf DEF Sound
      <3> QED
        BY <2>1, <3>2, <3>3 DEF LoserOf
    <2>3. CASE id # <<R, 0>>
      <3>1. Before(id, <<R, 0>>)
        <4>1. id[1] \in 1 .. R /\ id[1] # R
          BY <1>0, <2>3, FinalIs, SlotsOf DEF Sound
        <4> QED
          BY <1>0, <4>1 DEF Before
      <3>2. x \notin {t.matches[<<R, 0>>].a, t.matches[<<R, 0>>].b}
        BY <1>0, <1>2, <3>1, LoserIsOut
      <3>3. t.championId \in {t.matches[<<R, 0>>].a, t.matches[<<R, 0>>].b}
        BY <1>0, <1>1 DEF Sound, Crowned, WonInside
      <3> QED
        BY <2>1, <3>2, <3>3
    <2> QED
      BY <2>2, <2>3
  <1>3. ASSUME NEW x \in Racers(t) \ {t.championId}
        PROVE  \E id \in K : IsPlayed(t.matches[id]) /\ LoserOf(t.matches[id]) = x
    <2> DEFINE T == {d \in Nat : \E id \in K, s \in Slots : id[1] = R - d /\ t.matches[id][s] = x}
    <2>1. R - 1 \in T
      <3>1. PICK id \in K, s \in Slots : id[1] = 1 /\ t.matches[id][s] = x
        BY DEF Sound, Entered
      <3>2. R - 1 \in Nat /\ R - (R - 1) = 1
        BY <1>0
      <3> QED
        BY <3>1, <3>2
    <2>2. PICK d \in T : \A y \in T : d <= y
      <3>1. T \in SUBSET Nat /\ T # {}
        BY <2>1
      <3> HIDE DEF T
      <3> QED
        BY <3>1, Least
    <2>3. PICK id \in K, s \in Slots : id[1] = R - d /\ t.matches[id][s] = x
      BY <2>2
    <2>4. x # None /\ id[1] \in 1 .. R /\ d \in Nat
      BY <1>0, <2>2, SlotsOf DEF Sound
    <2>5. t.matches[id].winner # x
      <3>1. CASE id[1] = R
        <4>1. id = <<R, 0>>
          BY <1>0, <3>1, FinalIs
        <4> QED
          BY <4>1 DEF Sound, Crowned
      <3>2. CASE id[1] # R
        <4>1. id[1] < R
          BY <1>0, <2>4, <3>2
        <4>2. Parent(id) \in K /\ Parent(id)[1] = id[1] + 1 /\ ParentSlot(id) \in Slots
          BY <1>0, <4>1, ParentIn
        <4>3. t.matches[Parent(id)][ParentSlot(id)] = t.matches[id].winner
          BY <4>1 DEF Sound, Fed
        <4>4. d - 1 \in Nat /\ Parent(id)[1] = R - (d - 1) /\ ~(d <= d - 1)
          BY <1>0, <2>3, <2>4, <4>1, <4>2
        <4>5. d - 1 \notin T
          <5> HIDE DEF T
          <5> QED
            BY <2>2, <4>4
        <4> QED
          BY <4>2, <4>3, <4>4, <4>5
      <3> QED
        BY <3>1, <3>2
    <2>6. t.matches[id].winner \in {t.matches[id].a, t.matches[id].b} /\ x \in {t.matches[id].a, t.matches[id].b}
          /\ t.matches[id].winner # None
      <3>1. x \in {t.matches[id].a, t.matches[id].b}
        BY <2>3, SlotsOf DEF Sound, Slots
      <3> QED
        BY <1>1, <3>1 DEF Sound, WonInside
    <2>7. IsPlayed(t.matches[id]) /\ LoserOf(t.matches[id]) = x
      BY <2>4, <2>5, <2>6 DEF IsPlayed, LoserOf
    <2> QED
      BY <2>7
  <1>4. lost \subseteq Racers(t) \ {t.championId}
    BY <1>0, <1>2
  <1>5. Racers(t) \ {t.championId} \subseteq lost
    BY <1>0, <1>3
  <1> QED
    BY <1>4, <1>5

-----------------------------------------------------------------------------
(* The bracket that is created.                                             *)

\* A lineup: every racer once.
Lineup(ids) ==
  /\ ids \in Seq(Nat \ {None})
  /\ \A i, j \in DOMAIN ids : ids[i] = ids[j] => i = j

\* The first round, each match of which has a racer: the first m of them are
\* decided or have both, the others are as they were seeded.
FirstRound(t, m) ==
  \A n \in Nat : <<1, n>> \in Matches(t.rounds) =>
    LET match == t.matches[<<1, n>>]
    IN  /\ match.a # None \/ match.b # None
        /\ n < m => match.winner # None \/ (match.a # None /\ match.b # None)
        /\ n >= m => match.winner = None

\* No match was run.
NoneRun(t) == \A id \in Matches(t.rounds) : ~IsPlayed(t.matches[id])

Fresh(t, ids, m) ==
  Sound(t) /\ t.racerIds = ids /\ t.rounds = RoundsFor(Len(ids)) /\ FirstRound(t, m) /\ NoneRun(t)

LEMMA SeededIs ==
  ASSUME NEW ids, Lineup(ids), Len(ids) >= 2
  PROVE  Fresh(Seeded(ids), ids, 0)
  <1> DEFINE n == Len(ids)
             R == RoundsFor(n)
             K == Matches(R)
             h == Size[R - 1]
             seeds == SeedOrder[R]
             In(i) == IF seeds[i] <= n THEN ids[seeds[i]] ELSE None
             t == Seeded(ids)
             X == ToSet(ids) \cup {None}
  <1>1. n \in Nat \ {0, 1} /\ DOMAIN ids = 1 .. n
    BY DEF Lineup
  <1>2. R \in Nat \ {0} /\ n <= Size[R] /\ h < n
    <2> HIDE DEF n
    <2> QED
      BY <1>1, RoundsAre
  <1>3. h \in Nat \ {0} /\ Size[R] = 2 * h
    <2>1. R - 1 \in Nat /\ (R - 1) + 1 = R
      BY <1>2
    <2> QED
      BY <2>1, SizeIs
  <1>4. /\ seeds \in [1 .. 2 * h -> 1 .. 2 * h]
        /\ \A i, j \in 1 .. 2 * h : seeds[i] = seeds[j] => i = j
        /\ \A v \in 1 .. 2 * h : \E i \in 1 .. 2 * h : seeds[i] = v
        /\ \A m \in 1 .. h : seeds[2 * m - 1] + seeds[2 * m] = 2 * h + 1
    <2>1. SeedOrder[R] \in Perms(Size[R])
      <3> HIDE DEF R
      <3> QED
        BY <1>2, SeedsAre
    <2>2. \A m \in 1 .. Size[R - 1] : SeedOrder[R][2 * m - 1] + SeedOrder[R][2 * m] = Size[R] + 1
      <3> HIDE DEF R
      <3> QED
        BY <1>2, SeedsAre
    <2> HIDE DEF R
    <2> QED
      BY <1>3, <2>1, <2>2 DEF Perms
  <1>5. t = [racerIds |-> ids, rounds |-> R, championId |-> None,
             matches |-> [id \in K |-> IF id[1] = 1
                                       THEN [a |-> In(2 * id[2] + 1), b |-> In(2 * id[2] + 2), winner |-> None]
                                       ELSE [a |-> None, b |-> None, winner |-> None]]]
    BY DEF Seeded
  <1> HIDE DEF t, seeds, n
  <1>6. ASSUME NEW i \in 1 .. 2 * h PROVE In(i) \in X /\ seeds[i] \in 1 .. 2 * h
    <2>1. seeds[i] \in 1 .. 2 * h
      BY <1>4
    <2>2. CASE seeds[i] <= n
      <3>1. seeds[i] \in DOMAIN ids
        BY <1>1, <2>1, <2>2
      <3> QED
        BY <2>1, <2>2, <3>1 DEF ToSet
    <2> QED
      BY <2>1, <2>2
  <1>7. ASSUME NEW i \in 1 .. 2 * h, NEW j \in 1 .. 2 * h, In(i) # None, In(i) = In(j) PROVE i = j
    <2>1. seeds[i] \in 1 .. 2 * h /\ seeds[j] \in 1 .. 2 * h
      BY <1>4
    <2>2. seeds[i] <= n /\ seeds[j] <= n /\ ids[seeds[i]] = ids[seeds[j]]
      BY <1>7
    <2>3. seeds[i] \in DOMAIN ids /\ seeds[j] \in DOMAIN ids
      BY <1>1, <2>1, <2>2
    <2>4. seeds[i] = seeds[j]
      BY <2>2, <2>3 DEF Lineup
    <2> QED
      BY <1>4, <2>4
  <1>8. None \notin ToSet(ids)
    <2>1. \A i \in 1 .. n : ids[i] \in Nat \ {None}
      BY <1>1 DEF Lineup
    <2>2. ToSet(ids) = {ids[i] : i \in 1 .. n}
      BY <1>1 DEF ToSet
    <2> QED
      BY <2>1, <2>2
  <1>9. ASSUME NEW x \in ToSet(ids) PROVE \E i \in 1 .. 2 * h : In(i) = x
    <2>1. PICK q \in 1 .. n : ids[q] = x
      BY <1>1 DEF ToSet
    <2>2. q \in 1 .. 2 * h
      BY <1>1, <1>2, <1>3
    <2>3. PICK i \in 1 .. 2 * h : seeds[i] = q
      BY <1>4, <2>2
    <2> QED
      BY <1>1, <2>1, <2>3
  <1>10. ASSUME NEW id \in K
         PROVE  /\ id[2] \in Nat /\ id[1] \in 1 .. R /\ id = <<id[1], id[2]>>
                /\ id[1] = 1 => /\ id[2] + 1 \in 1 .. h
                                /\ 2 * id[2] + 1 \in 1 .. 2 * h /\ 2 * id[2] + 2 \in 1 .. 2 * h
    <2>1. PICK r \in 1 .. R, m \in Nat : id = <<r, m>> /\ m < Size[R - r]
      <3> HIDE DEF R
      <3> QED
        BY <1>2, MatchIs
    <2>2. r = 1 => m < h
      BY <2>1
    <2> HIDE DEF h, R
    <2> QED
      BY <1>3, <2>1, <2>2
  <1>11. ASSUME NEW m \in 1 .. h PROVE <<1, m - 1>> \in K
    <2>1. 1 \in 1 .. R /\ m - 1 \in Nat /\ m - 1 < Size[R - 1]
      BY <1>2, <1>3
    <2> HIDE DEF R
    <2> QED
      BY <1>2, <2>1, MatchIs
  <1> HIDE DEF In, K, R, h
  <1>12. /\ t.racerIds = ids /\ t.rounds = R /\ t.championId = None
         /\ t.matches = [id \in K |-> IF id[1] = 1
                                      THEN [a |-> In(2 * id[2] + 1), b |-> In(2 * id[2] + 2), winner |-> None]
                                      ELSE [a |-> None, b |-> None, winner |-> None]]
         /\ t = [racerIds |-> t.racerIds, rounds |-> t.rounds, championId |-> t.championId, matches |-> t.matches]
    BY <1>5
  <1>13. ASSUME NEW id \in K
         PROVE  /\ t.matches[id] \in [a : X, b : X, winner : X] /\ t.matches[id].winner = None
                /\ id[1] = 1 => t.matches[id]["a"] = In(2 * id[2] + 1) /\ t.matches[id]["b"] = In(2 * id[2] + 2)
                /\ id[1] # 1 => t.matches[id]["a"] = None /\ t.matches[id]["b"] = None
    BY <1>6, <1>10, <1>12
  <1>14. Shape(t)
    <2>1. t.matches \in [K -> [a : X, b : X, winner : X]]
      BY <1>12, <1>13
    <2> QED
      BY <1>2, <1>8, <1>12, <2>1 DEF Shape, Racers, MatchOf, K, X
  <1>15. WonInside(t) /\ Crowned(t)
    <2>1. <<R, 0>> \in K
      BY <1>2, FinalIs DEF K
    <2> QED
      BY <1>12, <1>13, <2>1 DEF WonInside, Crowned, K
  <1>16. Fed(t)
    <2>0. ASSUME NEW id \in K, id[1] < R PROVE t.matches[Parent(id)][ParentSlot(id)] = t.matches[id].winner
     <3>1. Parent(id) \in K /\ Parent(id)[1] = id[1] + 1 /\ ParentSlot(id) \in {"a", "b"} /\ id[1] \in 1 .. R
      BY <1>2, <2>0, ParentIn DEF K, Slots
     <3>2. Parent(id)[1] # 1
      BY <3>1
     <3>3. t.matches[id].winner = None
      BY <1>13
     <3> QED
      BY <1>13, <3>1, <3>2, <3>3
    <2> QED
      BY <1>12, <2>0 DEF Fed, K
  <1>17. OncePerRound(t)
    <2> SUFFICES ASSUME NEW id \in K, NEW other \in K, NEW s \in {"a", "b"}, NEW u \in {"a", "b"},
                        id[1] = other[1], t.matches[id][s] # None, t.matches[id][s] = t.matches[other][u]
                 PROVE  id = other /\ s = u
      BY <1>12 DEF OncePerRound, K, Slots
    <2>1. id[1] = 1 /\ other[1] = 1
      BY <1>13
    <2> DEFINE p == IF s = "a" THEN 2 * id[2] + 1 ELSE 2 * id[2] + 2
               q == IF u = "a" THEN 2 * other[2] + 1 ELSE 2 * other[2] + 2
    <2>2. t.matches[id][s] = In(p) /\ t.matches[other][u] = In(q)
      BY <1>13, <2>1
    <2>3. p \in 1 .. 2 * h /\ q \in 1 .. 2 * h
      BY <1>10, <2>1
    <2>4. p = q
      <3> HIDE DEF p, q
      <3> QED
        BY <1>7, <2>2, <2>3
    <2>5. id[2] = other[2] /\ s = u
      BY <1>10, <2>4
    <2> QED
      BY <1>10, <2>1, <2>5
  <1>18. CameThrough(t)
    <2> SUFFICES ASSUME NEW id \in K, NEW other \in K, NEW s \in {"a", "b"}, NEW u \in {"a", "b"},
                        id[1] < other[1], t.matches[id][s] # None, t.matches[id][s] = t.matches[other][u]
                 PROVE  FALSE
      BY <1>12 DEF CameThrough, K, Slots
    <2>1. id[1] = 1 /\ other[1] = 1
      BY <1>13
    <2> QED
      BY <2>1
  <1>19. Entered(t)
    <2> SUFFICES ASSUME NEW x \in ToSet(ids)
                 PROVE  \E id \in K, s \in {"a", "b"} : id[1] = 1 /\ t.matches[id][s] = x
      BY <1>12 DEF Entered, Racers, K, Slots
    <2>1. PICK i \in 1 .. 2 * h : In(i) = x
      BY <1>9
    <2>2. PICK m \in 1 .. h : i = 2 * m - 1 \/ i = 2 * m
      <3>1. h \in Nat
        BY <1>3
      <3> QED
        BY <3>1, Halved
    <2> DEFINE id == <<1, m - 1>>
    <2>3. id \in K /\ id[1] = 1 /\ 2 * id[2] + 1 = 2 * m - 1 /\ 2 * id[2] + 2 = 2 * m
      BY <1>3, <1>11
    <2> HIDE DEF id
    <2>4. t.matches[id]["a"] = In(2 * m - 1) /\ t.matches[id]["b"] = In(2 * m)
      BY <1>13, <2>3
    <2> QED
      BY <2>1, <2>2, <2>3, <2>4
  <1>20. FirstRound(t, 0)
    <2> SUFFICES ASSUME NEW m \in Nat, <<1, m>> \in K
                 PROVE  /\ t.matches[<<1, m>>].a # None \/ t.matches[<<1, m>>].b # None
                        /\ t.matches[<<1, m>>].winner = None
      BY <1>12 DEF FirstRound, K
    <2> DEFINE id == <<1, m>>
               p == 2 * m + 1
               q == 2 * m + 2
    <2>1. id \in K /\ id[1] = 1 /\ id[2] = m
      OBVIOUS
    <2> HIDE DEF id
    <2>2. m + 1 \in 1 .. h /\ p \in 1 .. 2 * h /\ q \in 1 .. 2 * h /\ p = 2 * (m + 1) - 1 /\ q = 2 * (m + 1)
      BY <1>10, <2>1
    <2>3. t.matches[id].a = In(p) /\ t.matches[id].b = In(q) /\ t.matches[id].winner = None
      BY <1>12, <2>1
    <2>4. seeds[p] + seeds[q] = 2 * h + 1
      BY <1>4, <2>2
    <2> HIDE DEF p, q
    <2>5. seeds[p] \in 1 .. 2 * h /\ seeds[q] \in 1 .. 2 * h
      BY <1>4, <2>2
    <2>6. seeds[p] <= n \/ seeds[q] <= n
      BY <1>1, <1>2, <1>3, <2>4, <2>5
    <2>7. ASSUME NEW i \in 1 .. 2 * h, seeds[i] <= n PROVE In(i) # None
      <3>1. seeds[i] \in DOMAIN ids
        BY <1>1, <1>4, <2>7
      <3>2. In(i) \in ToSet(ids)
        BY <2>7, <3>1 DEF In, ToSet
      <3> QED
        BY <1>8, <3>2
    <2>8. In(p) # None \/ In(q) # None
      BY <2>2, <2>6, <2>7
    <2> QED
      BY <2>3, <2>8 DEF id
  <1>21. NoneRun(t)
    BY <1>12, <1>13 DEF NoneRun, IsPlayed, K
  <1>22. Fresh(t, ids, 0)
    BY <1>12, <1>14, <1>15, <1>16, <1>17, <1>18, <1>19, <1>20, <1>21 DEF Fresh, Sound, R, n
  <1> QED
    BY <1>22 DEF t

LEMMA ByeKeeps ==
  ASSUME NEW t, NEW ids, NEW m \in Nat, Fresh(t, ids, m), <<1, m>> \in Matches(t.rounds)
  PROVE  Fresh(Bye(t, m), ids, m + 1)
  <1>0. PICK id, d : id = <<1, m>> /\ d = Bye(t, m)
    OBVIOUS
  <1> DEFINE match == t.matches[id]
             K == Matches(t.rounds)
  <1>1. Sound(t) /\ id \in K /\ id[1] = 1 /\ match.winner = None /\ (match.a # None \/ match.b # None)
    BY <1>0 DEF Fresh, FirstRound
  <1>2. CASE match.a # None /\ match.b # None
    <2>1. d = t
      BY <1>0, <1>2 DEF Bye
    <2>2. FirstRound(t, m + 1)
      BY <1>0, <1>1, <1>2 DEF Fresh, FirstRound
    <2> QED
      BY <1>0, <2>1, <2>2 DEF Fresh
  <1>3. CASE ~(match.a # None /\ match.b # None)
    <2>1. PICK w \in {match.a, match.b} : w # None /\ d = Decide(t, id, w)
      BY <1>0, <1>1, <1>3 DEF Bye
    <2>2. Decidable(t, id, w)
      BY <1>1, <2>1 DEF Decidable
    <2>3. Sound(d)
      BY <1>1, <2>1, <2>2, DecideKeeps
    <2>4. /\ d.rounds = t.rounds /\ d.racerIds = t.racerIds /\ Shape(d)
          /\ \A j \in K : d.matches[j].winner = IF j = id THEN w ELSE t.matches[j].winner
          /\ \A j \in K, s \in Slots : d.matches[j][s] = IF Fills(t, id, j, s) THEN w ELSE t.matches[j][s]
      <3>1. Shape(t) /\ d = Decide(t, id, w)
        BY <1>1, <2>1 DEF Sound
      <3>2. Becomes(t, id, w, d)
        BY <2>2, <3>1, Decided
      <3> QED
        BY <3>2 DEF Becomes
    <2>5. ASSUME NEW j \in K, j[1] = 1
          PROVE  d.matches[j].a = t.matches[j].a /\ d.matches[j].b = t.matches[j].b
      <3>1. \A s \in Slots : ~Fills(t, id, j, s)
        <4>1. t.rounds \in Nat
          BY <1>1 DEF Sound, Shape
        <4>2. id[1] < t.rounds => Parent(id)[1] = 2
          BY <1>1, <4>1, ParentIn
        <4> QED
          BY <2>5, <4>2 DEF Fills
      <3>2. d.matches[j]["a"] = t.matches[j]["a"] /\ d.matches[j]["b"] = t.matches[j]["b"]
        BY <2>4, <3>1 DEF Slots
      <3> QED
        BY <1>1, <2>4, <3>2, SlotsOf DEF Sound
    <2>6. FirstRound(d, m + 1)
      <3> SUFFICES ASSUME NEW n \in Nat, <<1, n>> \in K
                   PROVE  LET x == d.matches[<<1, n>>]
                          IN  /\ x.a # None \/ x.b # None
                              /\ n < m + 1 => x.winner # None \/ (x.a # None /\ x.b # None)
                              /\ n >= m + 1 => x.winner = None
        BY <2>4 DEF FirstRound
      <3> DEFINE j == <<1, n>>
      <3>1. /\ t.matches[j].a # None \/ t.matches[j].b # None
            /\ n < m => t.matches[j].winner # None \/ (t.matches[j].a # None /\ t.matches[j].b # None)
            /\ n >= m => t.matches[j].winner = None
        BY DEF Fresh, FirstRound
      <3>2. j \in K /\ j[1] = 1 /\ (j = id <=> n = m)
        BY <1>0
      <3> HIDE DEF j
      <3>3. /\ d.matches[j].winner = IF n = m THEN w ELSE t.matches[j].winner
            /\ d.matches[j].a = t.matches[j].a /\ d.matches[j].b = t.matches[j].b
        BY <2>4, <2>5, <3>2
      <3>4. n < m + 1 => n < m \/ n = m
        OBVIOUS
      <3>5. n >= m + 1 => n >= m /\ n # m
        OBVIOUS
      <3> QED
        BY <2>1, <3>1, <3>3, <3>4, <3>5 DEF j
    <2>7. NoneRun(d)
      <3> SUFFICES ASSUME NEW j \in K PROVE ~IsPlayed(d.matches[j])
        BY <2>4 DEF NoneRun
      <3>1. CASE j = id
        <4>1. d.matches[j].a = None \/ d.matches[j].b = None
          BY <1>1, <1>3, <2>5, <3>1
        <4> QED
          BY <4>1 DEF IsPlayed
      <3>2. CASE j # id
        <4>1. d.matches[j].winner = t.matches[j].winner
          BY <2>4, <3>2
        <4>2. CASE t.matches[j].winner = None
          BY <4>1, <4>2 DEF IsPlayed
        <4>3. CASE t.matches[j].winner # None
          <5>1. ~IsPlayed(t.matches[j])
            BY DEF Fresh, NoneRun
          <5>2. j[1] = 1
            BY <1>1, <4>3, <5>1 DEF Sound, WonInside, IsPlayed
          <5> QED
            BY <2>5, <4>1, <5>1, <5>2 DEF IsPlayed
        <4> QED
          BY <4>2, <4>3
      <3> QED
        BY <3>1, <3>2
    <2> QED
      BY <1>0, <2>3, <2>4, <2>6, <2>7 DEF Fresh
  <1> QED
    BY <1>0, <1>2, <1>3

LEMMA Created ==
  ASSUME NEW ids, Lineup(ids), Len(ids) >= 2, NEW t, t = CreateTournament(ids)
  PROVE  /\ Sound(t) /\ Resolved(t) /\ NoneRun(t)
         /\ t.racerIds = ids /\ t.rounds = RoundsFor(Len(ids))
  <1> DEFINE seeded == Seeded(ids)
             count == Size[seeded.rounds - 1]
             Takes(f, n) == f = [m \in 0 .. n |-> IF m = 0 THEN seeded ELSE Bye(f[m - 1], m - 1)]
             Is(f) == Takes(f, count)
  <1>1. Fresh(seeded, ids, 0)
    BY SeededIs
  <1>2. seeded.rounds = RoundsFor(Len(ids)) /\ seeded.rounds \in Nat \ {0} /\ count \in Nat
    <2>1. seeded.rounds = RoundsFor(Len(ids)) /\ seeded.rounds \in Nat \ {0}
      BY <1>1 DEF Fresh, Sound, Shape
    <2>2. seeded.rounds - 1 \in Nat
      BY <2>1
    <2> QED
      BY <2>1, <2>2, SizeIs
  <1>3. t = LET resolved == CHOOSE f : Is(f) IN resolved[count]
    <2>1. ~(Len(ids) < 2)
      BY DEF Lineup
    <2> QED
      BY <2>1 DEF CreateTournament
  <1> HIDE DEF seeded, count
  <1>4. \E f : Is(f)
    <2> DEFINE P == {n \in 0 .. count : \E f : Takes(f, n)}
    <2>1. 0 \in P
      <3> DEFINE g == [m \in 0 .. 0 |-> seeded]
      <3>1. Takes(g, 0)
        OBVIOUS
      <3> HIDE DEF Takes, g
      <3> QED
        BY <1>2, <3>1
    <2>2. ASSUME NEW n \in 0 .. count - 1, n \in P PROVE n + 1 \in P
      <3>1. PICK f : Takes(f, n)
        BY <2>2
      <3> DEFINE g == [m \in 0 .. n + 1 |-> IF m = n + 1 THEN Bye(f[n], n) ELSE f[m]]
      <3>2. ASSUME NEW m \in 0 .. n + 1 PROVE g[m] = IF m = 0 THEN seeded ELSE Bye(g[m - 1], m - 1)
        <4>1. CASE m = n + 1
          <5>1. m # 0 /\ m - 1 = n /\ n \in 0 .. n + 1 /\ n # n + 1
            BY <4>1
          <5>2. g[m] = Bye(f[n], n) /\ g[n] = f[n]
            BY <4>1, <5>1
          <5> HIDE DEF g
          <5> QED
            BY <5>1, <5>2
        <4>2. CASE m # n + 1
          <5>1. m \in 0 .. n /\ (m # 0 => m - 1 \in 0 .. n + 1 /\ m - 1 # n + 1)
            BY <4>2
          <5>2. g[m] = f[m] /\ (m # 0 => g[m - 1] = f[m - 1])
            BY <4>2, <5>1
          <5>3. f[m] = IF m = 0 THEN seeded ELSE Bye(f[m - 1], m - 1)
            BY <3>1, <5>1
          <5> HIDE DEF g
          <5> QED
            BY <5>2, <5>3
        <4> QED
          BY <4>1, <4>2
      <3>3. g = [m \in 0 .. n + 1 |-> IF m = 0 THEN seeded ELSE Bye(g[m - 1], m - 1)]
        <4>1. g = [m \in 0 .. n + 1 |-> g[m]]
          OBVIOUS
        <4> HIDE DEF g
        <4> QED
          BY <3>2, <4>1
      <3>4. Takes(g, n + 1) /\ n + 1 \in 0 .. count
        BY <1>2, <3>3
      <3> HIDE DEF Takes, g
      <3> QED
        BY <3>4
    <2>3. \A n \in 0 .. count : n \in P
      <3> HIDE DEF P
      <3> QED
        BY <1>2, <2>1, <2>2, Upward
    <2>4. count \in 0 .. count
      BY <1>2
    <2> HIDE DEF Takes
    <2> QED
      BY <2>3, <2>4
  <1>5. PICK f : Is(f) /\ t = f[count]
    <2> HIDE DEF Is
    <2> QED
      BY <1>3, <1>4
  <1>6. ASSUME NEW m \in 0 .. count - 1 PROVE f[m + 1] = Bye(f[m], m)
    <2>1. m + 1 \in 0 .. count /\ m + 1 # 0 /\ (m + 1) - 1 = m
      BY <1>2
    <2> QED
      BY <1>5, <2>1
  <1>7. f[0] = seeded
    BY <1>2, <1>5
  <1>8. Fresh(t, ids, count)
    <2> DEFINE P == {m \in 0 .. count : Fresh(f[m], ids, m)}
    <2>1. 0 \in P
      BY <1>1, <1>2, <1>7
    <2>2. ASSUME NEW m \in 0 .. count - 1, m \in P PROVE m + 1 \in P
      <3>1. Fresh(f[m], ids, m) /\ m \in Nat
        BY <2>2
      <3>2. f[m].rounds = seeded.rounds
        BY <1>2, <3>1 DEF Fresh
      <3>3. <<1, m>> \in Matches(f[m].rounds)
        <4>1. seeded.rounds \in Nat /\ 1 \in 1 .. seeded.rounds /\ m < Size[seeded.rounds - 1]
          BY <1>2 DEF count
        <4> QED
          BY <3>1, <3>2, <4>1, MatchIs
      <3>4. Fresh(f[m + 1], ids, m + 1)
        BY <1>6, <3>1, <3>3, ByeKeeps
      <3>5. m + 1 \in 0 .. count
        BY <1>2
      <3> QED
        BY <3>4, <3>5
    <2>3. \A m \in 0 .. count : m \in P
      <3> HIDE DEF P
      <3> QED
        BY <1>2, <2>1, <2>2, Upward
    <2>4. count \in 0 .. count
      BY <1>2
    <2> QED
      BY <1>5, <2>3, <2>4
  <1>9. Resolved(t)
    <2> SUFFICES ASSUME NEW id \in Matches(t.rounds), id[1] = 1, t.matches[id].winner = None
                 PROVE  t.matches[id].a # None /\ t.matches[id].b # None
      BY DEF Resolved
    <2>1. t.rounds = seeded.rounds
      BY <1>2, <1>8 DEF Fresh
    <2>2. PICK r \in 1 .. t.rounds, m \in Nat : id = <<r, m>> /\ m < Size[t.rounds - r]
      BY <1>2, <2>1, MatchIs
    <2>3. id = <<1, m>> /\ m < count
      BY <2>1, <2>2 DEF count
    <2> QED
      BY <1>8, <2>3 DEF Fresh, FirstRound
  <1> QED
    BY <1>8, <1>9 DEF Fresh

-----------------------------------------------------------------------------
(* The lineup.                                                              *)

\* No racer twice.
LineupOK(s) == s \in Seq(RacerIds) /\ \A i, j \in DOMAIN s : s[i] = s[j] => i = j

LEMMA LineupIs ==
  ASSUME NEW s, LineupOK(s)
  PROVE  Lineup(s) /\ Len(s) \in Nat /\ DOMAIN s = 1 .. Len(s) /\ ToSet(s) \subseteq RacerIds
  <1>1. s \in Seq(RacerIds) /\ RacerIds \subseteq Nat \ {None}
    BY MaxRacersAssumption DEF LineupOK, RacerIds, None
  <1>2. Len(s) \in Nat /\ s \in [1 .. Len(s) -> RacerIds] /\ DOMAIN s = 1 .. Len(s)
    BY <1>1, LenProperties
  <1>3. s \in Seq(Nat \ {None})
    BY <1>1, SeqMonotonic
  <1>4. ToSet(s) \subseteq RacerIds
    BY <1>2 DEF ToSet
  <1> QED
    BY <1>2, <1>3, <1>4 DEF Lineup, LineupOK

\* So it is no longer than there are racers.
LEMMA LineupFits ==
  ASSUME NEW s, LineupOK(s)
  PROVE  Len(s) <= MaxRacers
  <1>1. s \in Injection(1 .. Len(s), RacerIds)
    <2>1. s \in [1 .. Len(s) -> RacerIds] /\ DOMAIN s = 1 .. Len(s)
      BY DEF LineupOK
    <2> QED
      BY <2>1 DEF Injection, IsInjective, LineupOK
  <1>2. IsFiniteSet(RacerIds) /\ Cardinality(RacerIds) = MaxRacers
    <2>1. 1 \in Int /\ MaxRacers \in Int /\ (1 > MaxRacers <=> MaxRacers = 0) /\ MaxRacers - 1 + 1 = MaxRacers
      BY MaxRacersAssumption
    <2> QED
      BY <2>1, FS_Interval DEF RacerIds
  <1>3. Len(s) \in Nat
    BY LineupIs
  <1>4. Cardinality(1 .. Len(s)) = Len(s)
    <2>1. 1 \in Int /\ Len(s) \in Int /\ (1 > Len(s) <=> Len(s) = 0) /\ Len(s) - 1 + 1 = Len(s)
      BY <1>3
    <2> QED
      BY <2>1, FS_Interval
  <1>5. Cardinality(1 .. Len(s)) <= Cardinality(RacerIds)
    BY <1>1, <1>2, FS_Injection
  <1> QED
    BY <1>2, <1>4, <1>5

\* A lineup whose places are taken in another order, or only some of them.
LEMMA Rearranged ==
  ASSUME NEW s, LineupOK(s), NEW n \in Nat, NEW r, NEW p \in [1 .. n -> DOMAIN s],
         \A i, j \in 1 .. n : p[i] = p[j] => i = j,
         r \in Seq(RacerIds), Len(r) = n, \A i \in 1 .. n : r[i] = s[p[i]]
  PROVE  LineupOK(r)
  <1>1. DOMAIN r = 1 .. n
    OBVIOUS
  <1>2. ASSUME NEW i \in 1 .. n, NEW j \in 1 .. n, r[i] = r[j] PROVE i = j
    <2>1. p[i] \in DOMAIN s /\ p[j] \in DOMAIN s /\ s[p[i]] = s[p[j]]
      BY <1>2
    <2>2. p[i] = p[j]
      BY <2>1 DEF LineupOK
    <2> QED
      BY <2>2
  <1> QED
    BY <1>1, <1>2 DEF LineupOK

\* Numbers up to some bound have a greatest.
LEMMA Greatest ==
  ASSUME NEW S \in SUBSET Nat, 0 \in S, NEW n \in Nat, \A x \in S : x <= n
  PROVE  Max(S) \in S /\ \A x \in S : Max(S) >= x
  <1> DEFINE T == {k \in Nat : \A x \in S : x <= k}
  <1>1. PICK k \in T : \A y \in T : k <= y
    <2>1. T \in SUBSET Nat /\ n \in T
      OBVIOUS
    <2> HIDE DEF T
    <2> QED
      BY <2>1, Least
  <1>2. k \in S
    <2> SUFFICES ASSUME k \notin S PROVE FALSE
      OBVIOUS
    <2>1. k \in Nat /\ k # 0 /\ \A x \in S : x <= k
      BY <1>1
    <2>2. \A x \in S : x <= k - 1
      BY <2>1
    <2>3. k - 1 \in T
      BY <2>1, <2>2
    <2> HIDE DEF T
    <2> QED
      BY <1>1, <2>1, <2>3
  <1>3. k \in S /\ \A x \in S : k >= x
    BY <1>1, <1>2
  <1> QED
    BY <1>3 DEF Max

\* The id of a racer who comes is above those of all who are there.
LEMMA Joined ==
  ASSUME LineupOK(lineup), NextRacerId \in RacerIds
  PROVE  LineupOK(Append(lineup, NextRacerId))
  <1> DEFINE S == {0} \cup ToSet(lineup)
             new == NextRacerId
             r == Append(lineup, new)
             n == Len(lineup)
  <1>1. lineup \in Seq(RacerIds) /\ n \in Nat /\ DOMAIN lineup = 1 .. n /\ ToSet(lineup) \subseteq RacerIds
    BY LineupIs DEF LineupOK
  <1>2. Max(S) \in S /\ \A x \in S : Max(S) >= x
    <2>1. S \in SUBSET Nat /\ 0 \in S /\ \A x \in S : x <= MaxRacers
      BY <1>1, MaxRacersAssumption DEF RacerIds
    <2> HIDE DEF S
    <2> QED
      BY <2>1, MaxRacersAssumption, Greatest
  <1>3. new \notin ToSet(lineup)
    <2>1. new = Max(S) + 1 /\ S \subseteq Nat
      BY <1>1, MaxRacersAssumption DEF NextRacerId, RacerIds
    <2> HIDE DEF new, S
    <2>2. ASSUME NEW x \in S PROVE new # x
      <3>1. Max(S) \in Nat /\ x \in Nat /\ Max(S) >= x
        BY <1>2, <2>1
      <3> QED
        BY <2>1, <3>1
    <2> QED
      BY <2>2 DEF S
  <1> HIDE DEF new, S
  <1>4. r \in Seq(RacerIds) /\ Len(r) = n + 1 /\ DOMAIN r = 1 .. n + 1 /\ r[n + 1] = new /\ \A i \in 1 .. n : r[i] = lineup[i]
    BY <1>1 DEF new
  <1> HIDE DEF r
  <1>5. ASSUME NEW i \in 1 .. n + 1, NEW j \in 1 .. n + 1, r[i] = r[j] PROVE i = j
    <2>1. \A k \in 1 .. n : r[k] \in ToSet(lineup) /\ r[k] = lineup[k]
      BY <1>1, <1>4 DEF ToSet
    <2>2. CASE i \in 1 .. n /\ j \in 1 .. n
      BY <1>1, <1>5, <2>1, <2>2 DEF LineupOK
    <2>3. (i = n + 1 \/ i \in 1 .. n) /\ (j = n + 1 \/ j \in 1 .. n)
      BY <1>1
    <2> QED
      BY <1>3, <1>4, <1>5, <2>1, <2>2, <2>3
  <1>6. LineupOK(r)
    BY <1>4, <1>5 DEF LineupOK
  <1> QED
    BY <1>6 DEF r, new

\* "Make next".
LEMMA MadeNext ==
  ASSUME LineupOK(lineup), NEW i \in DOMAIN lineup, i > 2
  PROVE  LineupOK(InsertAt(RemoveAt(lineup, i), 2, lineup[i]))
  <1> DEFINE n == Len(lineup)
             q == RemoveAt(lineup, i)
             r == InsertAt(q, 2, lineup[i])
             p == [j \in 1 .. n |-> IF j = 1 THEN 1 ELSE IF j = 2 THEN i ELSE IF j <= i THEN j - 1 ELSE j]
  <1>1. lineup \in Seq(RacerIds) /\ n \in Nat /\ DOMAIN lineup = 1 .. n /\ i \in 1 .. n
    BY LineupIs DEF LineupOK
  <1>2. /\ q \in Seq(RacerIds) /\ Len(q) = n - 1
        /\ \A j \in 1 .. n - 1 : q[j] = IF j < i THEN lineup[j] ELSE lineup[j + 1]
    <2> DEFINE x == SubSeq(lineup, 1, i - 1)
               y == SubSeq(lineup, i + 1, Len(lineup))
    <2>1. /\ x \in Seq(RacerIds) /\ Len(x) = i - 1 /\ \A j \in 1 .. i - 1 : x[j] = lineup[j]
      BY <1>1
    <2>2. /\ y \in Seq(RacerIds) /\ Len(y) = n - i /\ \A j \in 1 .. n - i : y[j] = lineup[j + i]
      BY <1>1
    <2>3. q = x \o y
      BY DEF RemoveAt
    <2> HIDE DEF x, y, q
    <2>4. /\ x \o y \in Seq(RacerIds) /\ Len(x \o y) = Len(x) + Len(y)
          /\ \A j \in 1 .. Len(x) + Len(y) : (x \o y)[j] = IF j <= Len(x) THEN x[j] ELSE y[j - Len(x)]
      BY <2>1, <2>2, ConcatProperties
    <2>5. Len(x) + Len(y) = n - 1
      BY <1>1, <2>1, <2>2
    <2>6. ASSUME NEW j \in 1 .. n - 1 PROVE q[j] = IF j < i THEN lineup[j] ELSE lineup[j + 1]
      <3>1. q[j] = IF j <= i - 1 THEN x[j] ELSE y[j - (i - 1)]
        BY <2>1, <2>3, <2>4, <2>5
      <3>2. CASE j < i
        <4>1. j \in 1 .. i - 1
          BY <1>1, <3>2
        <4> QED
          BY <2>1, <3>1, <3>2, <4>1
      <3>3. CASE ~(j < i)
        <4>1. ~(j <= i - 1) /\ j - (i - 1) \in 1 .. n - i /\ (j - (i - 1)) + i = j + 1
          BY <1>1, <3>3
        <4>2. y[j - (i - 1)] = lineup[(j - (i - 1)) + i]
          BY <2>2, <4>1
        <4> QED
          BY <3>1, <3>3, <4>1, <4>2
      <3> QED
        BY <3>2, <3>3
    <2> QED
      BY <2>3, <2>4, <2>5, <2>6
  <1>3. /\ r \in Seq(RacerIds) /\ Len(r) = n
        /\ \A j \in 1 .. n : r[j] = IF j = 1 THEN q[1] ELSE IF j = 2 THEN lineup[i] ELSE q[j - 1]
    <2> DEFINE x == SubSeq(q, 1, 2 - 1)
               y == SubSeq(q, 2, Len(q))
               z == <<lineup[i]>>
    <2> HIDE DEF q
    <2>0. n - 1 >= 2 /\ lineup[i] \in RacerIds
      BY <1>1
    <2>1. /\ x \in Seq(RacerIds) /\ Len(x) = 1 /\ x[1] = q[1]
      BY <1>1, <1>2, <2>0
    <2>2. /\ y \in Seq(RacerIds) /\ Len(y) = n - 2 /\ \A j \in 1 .. n - 2 : y[j] = q[j + 1]
      BY <1>1, <1>2, <2>0
    <2>3. r = (x \o z) \o y
      BY DEF InsertAt
    <2>4. z \in Seq(RacerIds) /\ Len(z) = 1 /\ z[1] = lineup[i]
      BY <2>0
    <2> HIDE DEF x, y, z, r
    <2>5. /\ x \o z \in Seq(RacerIds) /\ Len(x \o z) = Len(x) + Len(z)
          /\ \A j \in 1 .. Len(x) + Len(z) : (x \o z)[j] = IF j <= Len(x) THEN x[j] ELSE z[j - Len(x)]
      BY <2>1, <2>4, ConcatProperties
    <2>6. Len(x \o z) = 2 /\ (x \o z)[1] = q[1] /\ (x \o z)[2] = lineup[i]
      <3>1. Len(x) + Len(z) = 2 /\ 1 <= Len(x) /\ ~(2 <= Len(x)) /\ 2 - Len(x) = 1 /\ 1 \in 1 .. 2 /\ 2 \in 1 .. 2
        BY <2>1, <2>4
      <3> QED
        BY <2>1, <2>4, <2>5, <3>1
    <2> DEFINE v == x \o z
    <2>7. v \in Seq(RacerIds) /\ Len(v) = 2 /\ v[1] = q[1] /\ v[2] = lineup[i] /\ r = v \o y
      BY <2>3, <2>5, <2>6
    <2> HIDE DEF v
    <2>8. /\ r \in Seq(RacerIds) /\ Len(r) = Len(v) + Len(y)
          /\ \A j \in 1 .. Len(v) + Len(y) : r[j] = IF j <= Len(v) THEN v[j] ELSE y[j - Len(v)]
      BY <2>2, <2>7, ConcatProperties
    <2>9. Len(v) + Len(y) = n
      BY <1>1, <2>2, <2>7
    <2>10. ASSUME NEW j \in 1 .. n PROVE r[j] = IF j = 1 THEN q[1] ELSE IF j = 2 THEN lineup[i] ELSE q[j - 1]
      <3>1. r[j] = IF j <= 2 THEN v[j] ELSE y[j - 2]
        BY <2>7, <2>8, <2>9
      <3>2. CASE j = 1 \/ j = 2
        BY <2>7, <3>1, <3>2
      <3>3. CASE ~(j = 1 \/ j = 2)
        <4>1. ~(j <= 2) /\ j - 2 \in 1 .. n - 2 /\ (j - 2) + 1 = j - 1
          BY <1>1, <3>3
        <4>2. y[j - 2] = q[(j - 2) + 1]
          BY <2>2, <4>1
        <4> QED
          BY <3>1, <3>3, <4>1, <4>2
      <3> QED
        BY <3>2, <3>3
    <2> QED
      BY <2>8, <2>9, <2>10
  <1> HIDE DEF q, r
  <1>4. p \in [1 .. n -> DOMAIN lineup] /\ \A j, k \in 1 .. n : p[j] = p[k] => j = k
    BY <1>1
  <1>5. ASSUME NEW j \in 1 .. n PROVE r[j] = lineup[p[j]]
    <2>1. 1 \in 1 .. n - 1 /\ 1 < i
      BY <1>1
    <2>2. CASE j = 1 \/ j = 2
      BY <1>2, <1>3, <2>1, <2>2
    <2>3. CASE ~(j = 1 \/ j = 2)
      <3>1. j - 1 \in 1 .. n - 1 /\ (j - 1) + 1 = j /\ (j - 1 < i <=> j <= i)
        BY <1>1, <2>3
      <3>2. r[j] = q[j - 1]
        BY <1>3, <2>3
      <3>3. q[j - 1] = IF j - 1 < i THEN lineup[j - 1] ELSE lineup[(j - 1) + 1]
        BY <1>2, <3>1
      <3> QED
        BY <2>3, <3>1, <3>2, <3>3
    <2> QED
      BY <2>2, <2>3
  <1> HIDE DEF p
  <1>6. LineupOK(r)
    <2>1. n \in Nat /\ r \in Seq(RacerIds) /\ Len(r) = n
      BY <1>1, <1>3
    <2> HIDE DEF n
    <2> QED
      BY <1>4, <1>5, <2>1, Rearranged
  <1> QED
    BY <1>6 DEF r, q

\* The racer who ran goes to the end.
LEMMA GoneRound ==
  ASSUME LineupOK(lineup), Len(lineup) > 1
  PROVE  LineupOK(Append(Tail(lineup), Head(lineup)))
  <1> DEFINE n == Len(lineup)
             r == Append(Tail(lineup), Head(lineup))
             p == [j \in 1 .. n |-> IF j = n THEN 1 ELSE j + 1]
  <1>1. lineup \in Seq(RacerIds) /\ n \in Nat /\ DOMAIN lineup = 1 .. n
    BY LineupIs DEF LineupOK
  <1>2. /\ r \in Seq(RacerIds) /\ Len(r) = n
        /\ \A j \in 1 .. n : r[j] = IF j = n THEN lineup[1] ELSE lineup[j + 1]
    <2>1. n > 1 /\ lineup # <<>>
      BY <1>1
    <2>2. /\ Tail(lineup) \in Seq(RacerIds) /\ Len(Tail(lineup)) = n - 1
          /\ \A j \in 1 .. n - 1 : Tail(lineup)[j] = lineup[j + 1]
      BY <1>1, <2>1, HeadTailProperties
    <2>3. Head(lineup) = lineup[1] /\ Head(lineup) \in RacerIds
      BY <1>1, <2>1, HeadTailProperties
    <2> DEFINE t == Tail(lineup)
               h == Head(lineup)
    <2>4. r = Append(t, h) /\ t \in Seq(RacerIds) /\ Len(t) = n - 1 /\ h \in RacerIds
      BY <2>2, <2>3
    <2>5. \A j \in 1 .. n - 1 : t[j] = lineup[j + 1]
      BY <2>2
    <2>6. h = lineup[1]
      BY <2>3
    <2> HIDE DEF r, t, h, n
    <2>7. /\ r \in Seq(RacerIds) /\ Len(r) = Len(t) + 1
          /\ \A j \in 1 .. Len(t) : r[j] = t[j]
          /\ r[Len(t) + 1] = h
      BY <2>4, AppendProperties
    <2>8. Len(t) + 1 = n /\ n \in Nat
      BY <1>1, <2>4
    <2>9. ASSUME NEW j \in 1 .. n PROVE r[j] = IF j = n THEN lineup[1] ELSE lineup[j + 1]
      <3>1. CASE j = n
        BY <2>6, <2>7, <2>8, <3>1
      <3>2. CASE j # n
        <4>1. j \in 1 .. n - 1
          BY <2>8, <3>2
        <4> QED
          BY <2>4, <2>5, <2>7, <3>2, <4>1
      <3> QED
        BY <3>1, <3>2
    <2>10. r \in Seq(RacerIds) /\ Len(r) = n
      BY <2>7, <2>8
    <2>11. \A j \in 1 .. n : r[j] = IF j = n THEN lineup[1] ELSE lineup[j + 1]
      BY <2>9
    <2> QED
      BY <2>10, <2>11
  <1>3. p \in [1 .. n -> DOMAIN lineup] /\ \A j, k \in 1 .. n : p[j] = p[k] => j = k
    <2>1. n > 1
      OBVIOUS
    <2> HIDE DEF n, r
    <2>2. \A j \in 1 .. n : p[j] = (IF j = n THEN 1 ELSE j + 1) /\ p[j] \in 1 .. n
      BY <1>1, <2>1
    <2>3. p \in [1 .. n -> 1 .. n]
      BY <1>1, <2>2
    <2> HIDE DEF p
    <2>4. ASSUME NEW j \in 1 .. n, NEW k \in 1 .. n, p[j] = p[k] PROVE j = k
      BY <1>1, <2>2, <2>4
    <2> QED
      BY <1>1, <2>3, <2>4
  <1>4. \A j \in 1 .. n : r[j] = lineup[p[j]]
    BY <1>2
  <1> HIDE DEF p, r
  <1>5. LineupOK(r)
    <2>1. n \in Nat /\ r \in Seq(RacerIds) /\ Len(r) = n
      BY <1>1, <1>2
    <2> HIDE DEF n
    <2> QED
      BY <1>3, <1>4, <2>1, Rearranged
  <1> QED
    BY <1>5 DEF r

\* Who is removed leaves the others in their order.
LEMMA Removed ==
  ASSUME LineupOK(lineup), NEW id, RemoveRacer(id)
  PROVE  LineupOK(lineup')
  <1> DEFINE n == Len(lineup)
             Takes(f) == f = [i \in 0 .. n |->
                                IF i = 0 THEN <<>>
                                ELSE IF lineup[i] = id THEN f[i - 1] ELSE Append(f[i - 1], lineup[i])]
             S == Seq(RacerIds)
             Step(i, s) == IF i + 1 \in 1 .. n
                           THEN IF lineup[i + 1] = id THEN s ELSE Append(s, lineup[i + 1])
                           ELSE s
             step == [p \in Nat \X S |-> Step(p[1], p[2])]
  <1>1. n \in Nat /\ DOMAIN lineup = 1 .. n /\ \A i \in 1 .. n : lineup[i] \in RacerIds
    BY LineupIs, ElementOfSeq DEF LineupOK
  <1>2. lineup' = LET kept == CHOOSE f : Takes(f) IN kept[n]
    BY DEF RemoveRacer, EditLineup
  <1>3. \E f : Takes(f)
    <2>1. step \in [Nat \X S -> S]
      <3>1. ASSUME NEW i \in Nat, NEW s \in S PROVE Step(i, s) \in S
        <4>1. CASE i + 1 \in 1 .. n
          <5>1. lineup[i + 1] \in RacerIds
            BY <1>1, <4>1
          <5>2. Append(s, lineup[i + 1]) \in S
            BY <5>1, AppendProperties
          <5> QED
            BY <4>1, <5>2
        <4> QED
          BY <4>1
      <3> HIDE DEF Step, S
      <3>2. ASSUME NEW p \in Nat \X S PROVE Step(p[1], p[2]) \in S
        BY <3>1
      <3> QED
        BY <3>2
    <2>2. <<>> \in S
      OBVIOUS
    <2>3. ASSUME NEW i \in Nat, NEW s \in S PROVE step[<<i, s>>] = Step(i, s)
      <3> HIDE DEF Step, S
      <3> QED
        OBVIOUS
    <2> HIDE DEF step, S
    <2>4. PICK F : Steps(F, S, <<>>, step)
      BY <2>1, <2>2, Recursion
    <2> DEFINE g == [i \in 0 .. n |-> F[i]]
    <2>5. ASSUME NEW i \in 0 .. n
          PROVE  g[i] = IF i = 0 THEN <<>>
                        ELSE IF lineup[i] = id THEN g[i - 1] ELSE Append(g[i - 1], lineup[i])
      <3>1. CASE i = 0
        <4>1. F[0] = <<>>
          BY <2>4 DEF Steps
        <4> QED
          BY <3>1, <4>1
      <3>2. CASE i # 0
        <4>1. i - 1 \in Nat /\ i - 1 \in 0 .. n /\ (i - 1) + 1 = i /\ i \in 1 .. n
          BY <1>1, <3>2
        <4>2. F[i - 1] \in S /\ F[(i - 1) + 1] = step[<<i - 1, F[i - 1]>>]
          BY <2>4, <4>1 DEF Steps
        <4>3. F[i] = Step(i - 1, F[i - 1])
          BY <2>3, <4>1, <4>2
        <4>4. g[i] = F[i] /\ g[i - 1] = F[i - 1]
          BY <4>1
        <4> HIDE DEF g, n
        <4> QED
          BY <3>2, <4>1, <4>3, <4>4
      <3> QED
        BY <3>1, <3>2
    <2>6. g = [i \in 0 .. n |-> g[i]]
      OBVIOUS
    <2> HIDE DEF g
    <2>7. Takes(g)
      BY <2>5, <2>6
    <2> HIDE DEF Takes
    <2> QED
      BY <2>7
  <1>4. PICK f : Takes(f) /\ lineup' = f[n]
    <2> HIDE DEF Takes
    <2> QED
      BY <1>2, <1>3
  <1> DEFINE P == {i \in 0 .. n : LineupOK(f[i]) /\ \A j \in DOMAIN f[i] : \E q \in 1 .. i : f[i][j] = lineup[q]}
  <1>5. 0 \in P
    <2>1. f[0] = <<>>
      BY <1>1, <1>4
    <2>2. <<>> \in Seq(RacerIds) /\ DOMAIN <<>> = {} /\ 0 \in 0 .. n
      BY <1>1
    <2>3. DOMAIN f[0] = {} /\ f[0] \in Seq(RacerIds)
      BY <2>1, <2>2
    <2> HIDE DEF Takes
    <2> QED
      BY <2>2, <2>3 DEF LineupOK
  <1>6. ASSUME NEW i \in 0 .. n - 1, i \in P PROVE i + 1 \in P
    <2> DEFINE s == f[i]
               r == f[i + 1]
               x == lineup[i + 1]
    <2>1. i \in Nat /\ i + 1 \in 1 .. n /\ i + 1 \in 0 .. n /\ (i + 1) - 1 = i /\ i + 1 # 0
      BY <1>1
    <2>2. r = IF x = id THEN s ELSE Append(s, x)
      BY <1>4, <2>1
    <2>3. LineupOK(s) /\ \A j \in DOMAIN s : \E q \in 1 .. i : s[j] = lineup[q]
      BY <1>6
    <2>4. x \in RacerIds
      BY <1>1, <2>1
    <2> HIDE DEF s, r, Takes
    <2>5. LineupOK(r) /\ \A j \in DOMAIN r : \E q \in 1 .. i + 1 : r[j] = lineup[q]
      <3>1. CASE r = s
        BY <2>1, <2>3, <3>1
      <3>2. CASE r = Append(s, x)
        <4> DEFINE k == Len(s)
        <4>1. s \in Seq(RacerIds) /\ k \in Nat /\ DOMAIN s = 1 .. k
          BY <2>3, LineupIs DEF LineupOK
        <4>2. /\ r \in Seq(RacerIds) /\ Len(r) = k + 1 /\ DOMAIN r = 1 .. k + 1
              /\ r[k + 1] = x /\ \A j \in 1 .. k : r[j] = s[j]
          <5>1. /\ r \in Seq(RacerIds) /\ Len(r) = k + 1
                /\ r[k + 1] = x /\ \A j \in 1 .. k : r[j] = s[j]
            BY <2>4, <3>2, <4>1, AppendProperties
          <5> QED
            BY <5>1, LenProperties
        <4>3. ASSUME NEW j \in 1 .. k PROVE s[j] # x
          <5>1. PICK q \in 1 .. i : s[j] = lineup[q]
            BY <2>3, <4>1
          <5>2. q \in 1 .. n /\ i + 1 \in 1 .. n /\ q # i + 1
            BY <2>1
          <5> QED
            BY <1>1, <5>1, <5>2 DEF LineupOK
        <4> HIDE DEF x, k
        <4>4. \A j \in 1 .. k + 1 : j = k + 1 \/ j \in 1 .. k
          BY <4>1
        <4>5. ASSUME NEW j \in 1 .. k + 1, NEW m \in 1 .. k + 1, r[j] = r[m] PROVE j = m
          <5>1. CASE j \in 1 .. k /\ m \in 1 .. k
            BY <2>3, <4>1, <4>2, <4>5, <5>1 DEF LineupOK
          <5> QED
            BY <4>2, <4>3, <4>4, <4>5, <5>1
        <4>6. ASSUME NEW j \in 1 .. k + 1 PROVE \E q \in 1 .. i + 1 : r[j] = lineup[q]
          <5>1. CASE j = k + 1
            BY <2>1, <4>2, <5>1 DEF x
          <5>2. CASE j \in 1 .. k
            <6>1. PICK q \in 1 .. i : s[j] = lineup[q]
              BY <2>3, <4>1, <5>2
            <6>2. q \in 1 .. i + 1
              BY <2>1
            <6> QED
              BY <4>2, <5>2, <6>1, <6>2
          <5> QED
            BY <4>4, <5>1, <5>2
        <4> QED
          BY <4>2, <4>5, <4>6 DEF LineupOK
      <3> QED
        BY <2>2, <3>1, <3>2
    <2> QED
      BY <2>1, <2>5 DEF r
  <1>7. \A i \in 0 .. n : i \in P
    <2> HIDE DEF P, n
    <2> QED
      BY <1>1, <1>5, <1>6, Upward
  <1>8. n \in 0 .. n
    BY <1>1
  <1> QED
    BY <1>4, <1>7, <1>8

LEMMA SetupLineup ==
  ASSUME LineupOK(lineup), Setup
  PROVE  LineupOK(lineup')
  <1>1. CASE AddRacer
    <2>1. NextRacerId \in RacerIds /\ lineup' = Append(lineup, NextRacerId)
      BY <1>1 DEF AddRacer, EditLineup
    <2> QED
      BY <2>1, Joined
  <1>2. CASE ChangeMode \/ ToggleTournament
    BY <1>2 DEF ChangeMode, ToggleTournament
  <1>3. ASSUME NEW id \in ToSet(lineup), RemoveRacer(id) PROVE LineupOK(lineup')
    BY <1>3, Removed
  <1>4. ASSUME NEW i \in DOMAIN lineup, ChooseNext(i) PROVE LineupOK(lineup')
    <2>1. i > 2 /\ lineup' = InsertAt(RemoveAt(lineup, i), 2, lineup[i])
      BY <1>4 DEF ChooseNext, EditLineup
    <2> QED
      BY <2>1, MadeNext
  <1> QED
    BY <1>1, <1>2, <1>3, <1>4 DEF Setup

-----------------------------------------------------------------------------
(* The bracket that is played.                                              *)

\* The times that were run: of an undecided match the second is missing, of one
\* that was raced both are there and the faster won.
Timed(t, times) ==
  /\ times \in [DOMAIN NoTimes -> [a : Times \cup {None}, b : Times \cup {None}]]
  /\ Matches(t.rounds) \subseteq DOMAIN NoTimes
  /\ \A id \in Matches(t.rounds) :
       /\ t.matches[id].winner = None => times[id].b = None
       /\ IsPlayed(t.matches[id]) => /\ times[id].a # None /\ times[id].b # None
                                     /\ t.matches[id].winner = t.matches[id].b <=> times[id].b < times[id].a

Playable(t, times) ==
  /\ Sound(t) /\ Resolved(t) /\ Timed(t, times)
  /\ t.racerIds # <<>> /\ Racers(t) \subseteq RacerIds

BInv ==
  /\ LineupOK(lineup) /\ Heat!RaceOK
  /\ mode \in {"solo", "raceNight"} /\ tournamentOn \in BOOLEAN
  /\ tournament = NoTournament \/ Playable(tournament, matchTimes)
  /\ matchTimes \in [DOMAIN NoTimes -> [a : Times \cup {None}, b : Times \cup {None}]]
  /\ InTournament => Racers(tournament) \subseteq ToSet(lineup)

\* A bracket with a match is not the empty one.
LEMMA NotEmpty ==
  ASSUME NEW t, Sound(t)
  PROVE  t # NoTournament /\ t.rounds \in Nat \ {0}
  BY DEF Sound, Shape, NoTournament

LEMMA RoundsGrow ==
  ASSUME NEW n \in Nat, NEW m \in Nat, 2 <= n, n <= m
  PROVE  /\ RoundsFor(n) \in Nat /\ RoundsFor(m) \in Nat
         /\ Matches(RoundsFor(n)) \subseteq Matches(RoundsFor(m))
  <1> DEFINE R == RoundsFor(n)
             Q == RoundsFor(m)
  <1>1. R \in Nat /\ Q \in Nat /\ m <= Size[Q] /\ \A k \in Nat : Size[k] >= n => R <= k
    BY RoundsAre
  <1>2. Size[Q] \in Nat
    BY <1>1, SizeIs
  <1> HIDE DEF R, Q
  <1>3. R <= Q
    BY <1>1, <1>2
  <1>4. ASSUME NEW id \in Matches(R) PROVE id \in Matches(Q)
    <2>1. PICK r \in 1 .. R, i \in Nat : id = <<r, i>> /\ i < Size[R - r]
      BY <1>1, MatchIs
    <2>2. r \in 1 .. Q /\ R - r \in Nat /\ Q - r \in Nat /\ R - r <= Q - r
      BY <1>1, <1>3
    <2>3. Size[R - r] <= Size[Q - r] /\ Size[R - r] \in Nat /\ Size[Q - r] \in Nat
      BY <2>2, Grows, SizeIs
    <2>4. i < Size[Q - r]
      BY <2>1, <2>3
    <2> QED
      BY <1>1, <2>1, <2>2, <2>4, MatchIs
  <1> QED
    BY <1>1, <1>4 DEF R, Q

LEMMA NoTimesAre ==
  /\ NoTimes \in [DOMAIN NoTimes -> [a : Times \cup {None}, b : Times \cup {None}]]
  /\ \A id \in DOMAIN NoTimes : NoTimes[id].a = None /\ NoTimes[id].b = None
  /\ DOMAIN NoTimes = Matches(RoundsFor(MaxRacers))
  BY DEF NoTimes

\* The bracket that is started can be played.
LEMMA Started ==
  ASSUME LineupOK(lineup), Len(lineup) >= 2, NEW t, t = CreateTournament(lineup)
  PROVE  Playable(t, NoTimes) /\ Racers(t) = ToSet(lineup)
  <1>1. Lineup(lineup) /\ Len(lineup) \in Nat /\ ToSet(lineup) \subseteq RacerIds /\ Len(lineup) <= MaxRacers
    BY LineupIs, LineupFits
  <1>2. /\ Sound(t) /\ Resolved(t) /\ NoneRun(t)
        /\ t.racerIds = lineup /\ t.rounds = RoundsFor(Len(lineup))
    BY <1>1, Created
  <1>3. Matches(t.rounds) \subseteq DOMAIN NoTimes
    BY <1>1, <1>2, RoundsGrow, NoTimesAre, MaxRacersAssumption
  <1>4. Timed(t, NoTimes)
    BY <1>2, <1>3, NoTimesAre DEF Timed, NoneRun
  <1>5. t.racerIds # <<>>
    BY <1>2
  <1>6. Racers(t) = ToSet(lineup)
    BY <1>2 DEF Racers
  <1> QED
    BY <1>1, <1>2, <1>4, <1>5, <1>6 DEF Playable

\* The heat to run: of two different racers, none of whom has the second time.
LEMMA NextHeat ==
  ASSUME NEW t, NEW times, Playable(t, times), NEW id, id = CurrentMatch(t), id # NoMatch
  PROVE  /\ id \in Matches(t.rounds) /\ id \in DOMAIN times /\ t.matches[id].winner = None
         /\ t.matches[id].a # None /\ t.matches[id].b # None /\ t.matches[id].a # t.matches[id].b
         /\ t.matches[id].a \in Racers(t) /\ t.matches[id].b \in Racers(t)
         /\ times[id].b = None /\ t.championId = None
         /\ RunnerId(t, times) = IF times[id].a = None THEN t.matches[id].a ELSE t.matches[id].b
  <1>1. Sound(t) /\ Timed(t, times)
    BY DEF Playable
  <1>2. id \in Ready(t) /\ id \in Matches(t.rounds)
    BY <1>1, CurrentIs
  <1>3. t.matches[id].winner = None /\ t.matches[id].a # None /\ t.matches[id].b # None
    BY <1>2 DEF Ready
  <1>4. id \in DOMAIN times /\ times[id].b = None
    BY <1>1, <1>2, <1>3 DEF Timed
  <1>5. /\ t.matches[id]["a"] = t.matches[id].a /\ t.matches[id]["b"] = t.matches[id].b
        /\ t.matches[id] \in MatchOf(t)
    BY <1>1, <1>2, SlotsOf DEF Sound
  <1>6. t.matches[id].a # t.matches[id].b
    <2>1. "a" \in Slots /\ "b" \in Slots /\ "a" # "b"
      BY DEF Slots
    <2>2. t.matches[id]["a"] # t.matches[id]["b"]
      BY <1>1, <1>2, <1>3, <1>5, <2>1 DEF Sound, OncePerRound
    <2> QED
      BY <1>5, <2>2
  <1>7. t.matches[id].a \in Racers(t) /\ t.matches[id].b \in Racers(t)
    BY <1>3, <1>5 DEF MatchOf
  <1>8. t.championId = None
    BY <1>1, <1>2, <1>3, AllDecided
  <1>9. RunnerId(t, times) = IF times[id].a = None THEN t.matches[id].a ELSE t.matches[id].b
    BY <1>4 DEF RunnerId
  <1> QED
    BY <1>2, <1>3, <1>4, <1>6, <1>7, <1>8, <1>9

\* The first of the two times leaves the bracket alone.
LEMMA FirstTime ==
  ASSUME NEW t, NEW times, Playable(t, times), NEW id, id = CurrentMatch(t), id # NoMatch,
         NEW sum \in Times, NEW after, after = [times EXCEPT ![id].a = sum]
  PROVE  Playable(t, after)
  <1>1. /\ id \in Matches(t.rounds) /\ id \in DOMAIN times /\ t.matches[id].winner = None
        /\ times[id].b = None /\ Timed(t, times)
    BY NextHeat DEF Playable
  <1> DEFINE D == DOMAIN NoTimes
             T == Times \cup {None}
  <1>2. times \in [D -> [a : T, b : T]] /\ id \in D
    BY <1>1 DEF Timed
  <1>3. after \in [D -> [a : T, b : T]] /\ after[id].b = None /\ \A j \in D : j # id => after[j] = times[j]
    <2> HIDE DEF D, T
    <2>1. sum \in T
      BY DEF T
    <2>2. times[id] \in [a : T, b : T]
      BY <1>2
    <2> QED
      BY <1>1, <1>2, <2>1, <2>2
  <1>4. ~IsPlayed(t.matches[id])
    BY <1>1 DEF IsPlayed
  <1>5. Timed(t, after)
    BY <1>1, <1>3, <1>4 DEF Timed
  <1> QED
    BY <1>5 DEF Playable

\* The second decides the match.
Ends(t, times, id, sum, d, after) ==
  /\ after = [times EXCEPT ![id].b = sum] /\ times[id].a # None
  /\ d = ReportTimes(t, id, after[id].a, after[id].b)
Ended(t, times, id, d, after) ==
  /\ Playable(d, after) /\ d.rounds = t.rounds /\ d.racerIds = t.racerIds
  /\ after[id].a # None /\ after[id].b # None /\ d.matches[id].winner # None
  /\ \A j \in Matches(t.rounds) \ {id} : d.matches[j].winner = t.matches[j].winner /\ after[j] = times[j]

LEMMA SecondTime ==
  ASSUME NEW t, NEW times, Playable(t, times), NEW id, id = CurrentMatch(t), id # NoMatch,
         NEW sum \in Times, NEW after, NEW d, Ends(t, times, id, sum, d, after)
  PROVE  Ended(t, times, id, d, after)
  <1> DEFINE K == Matches(t.rounds)
             D == DOMAIN NoTimes
             T == Times \cup {None}
             m == t.matches[id]
             w == IF after[id].b < after[id].a THEN m.b ELSE m.a
  <1>0. /\ after = [times EXCEPT ![id].b = sum] /\ times[id].a # None
        /\ d = ReportTimes(t, id, after[id].a, after[id].b)
    BY DEF Ends
  <1>1. /\ id \in K /\ id \in DOMAIN times /\ m.winner = None
        /\ m.a # None /\ m.b # None /\ m.a # m.b
        /\ times[id].b = None /\ Timed(t, times) /\ Sound(t) /\ Resolved(t)
    BY NextHeat DEF Playable
  <1>2. times \in [D -> [a : T, b : T]] /\ id \in D
    BY <1>1 DEF Timed
  <1>3. /\ after \in [D -> [a : T, b : T]] /\ after[id].a = times[id].a /\ after[id].b = sum
        /\ \A j \in D : j # id => after[j] = times[j]
    <2> HIDE DEF D, T
    <2>1. sum \in T
      BY DEF T
    <2>2. times[id] \in [a : T, b : T]
      BY <1>2
    <2> QED
      BY <1>0, <1>1, <1>2, <2>1, <2>2
  <1>4. sum # None
    BY TimesAssumption
  <1>5. d = Decide(t, id, w)
    <2>1. id \in DOMAIN t.matches
      BY <1>1 DEF Sound, Shape
    <2> QED
      BY <1>0, <1>1, <2>1 DEF ReportTimes
  <1> HIDE DEF m, w
  <1>6. w \in {m.a, m.b} /\ w # None
    BY <1>1 DEF w
  <1>7. Decidable(t, id, w)
    BY <1>1, <1>6 DEF Decidable, m
  <1>8. Sound(d)
    BY <1>1, <1>5, <1>7, DecideKeeps
  <1>9. Becomes(t, id, w, d)
    BY <1>1, <1>5, <1>7, Decided DEF Sound
  <1>10. /\ d.rounds = t.rounds /\ d.racerIds = t.racerIds
         /\ \A j \in K : d.matches[j].winner = IF j = id THEN w ELSE t.matches[j].winner
         /\ \A j \in K, s \in Slots : d.matches[j][s] = IF Fills(t, id, j, s) THEN w ELSE t.matches[j][s]
    BY <1>9 DEF Becomes
  <1>11. ASSUME NEW j \in K
         PROVE  /\ d.matches[j]["a"] = d.matches[j].a /\ d.matches[j]["b"] = d.matches[j].b
                /\ t.matches[j]["a"] = t.matches[j].a /\ t.matches[j]["b"] = t.matches[j].b
                /\ "a" \in Slots /\ "b" \in Slots
    BY <1>1, <1>8, <1>10, SlotsOf DEF Sound, Slots
  \* A slot that the decision fills is of a match that is not decided.
  <1>12. ASSUME NEW j \in K, t.matches[j].winner # None \/ j = id
         PROVE  d.matches[j].a = t.matches[j].a /\ d.matches[j].b = t.matches[j].b
    <2>1. ASSUME NEW s \in Slots, Fills(t, id, j, s) PROVE FALSE
      <3>1. id[1] < t.rounds /\ j = Parent(id) /\ s = ParentSlot(id)
        BY <2>1 DEF Fills
      <3>2. t.matches[j][s] = None
        BY <1>1, <3>1 DEF Sound, Fed, m
      <3>3. j[1] = id[1] + 1 /\ id[1] \in 1 .. t.rounds /\ t.rounds \in Nat
        BY <1>1, <3>1, ParentIn DEF Sound, Shape
      <3>4. j # id /\ j[1] # 1
        BY <3>3
      <3>5. t.matches[j].a # None /\ t.matches[j].b # None
        BY <1>1, <1>12, <3>4 DEF Sound, WonInside
      <3>6. t.matches[j]["a"] # None /\ t.matches[j]["b"] # None
        BY <1>11, <3>5
      <3> QED
        BY <3>2, <3>6 DEF Slots
    <2>2. d.matches[j]["a"] = t.matches[j]["a"] /\ d.matches[j]["b"] = t.matches[j]["b"]
      BY <1>10, <1>11, <2>1
    <2> QED
      BY <1>11, <2>2
  <1>13. Resolved(d)
    <2> SUFFICES ASSUME NEW j \in K, j[1] = 1, d.matches[j].winner = None
                 PROVE  d.matches[j].a # None /\ d.matches[j].b # None
      BY <1>10 DEF Resolved
    <2>1. j # id /\ t.matches[j].winner = None
      BY <1>6, <1>10
    <2>2. t.matches[j].a # None /\ t.matches[j].b # None
      BY <1>1, <2>1 DEF Resolved
    <2>3. t.matches[j]["a"] # None /\ t.matches[j]["b"] # None
      BY <1>11, <2>2
    <2>4. d.matches[j]["a"] # None /\ d.matches[j]["b"] # None
      BY <1>6, <1>10, <1>11, <2>3
    <2> QED
      BY <1>11, <2>4
  <1>14. Timed(d, after)
    <2>1. K \subseteq D
      BY <1>1 DEF Timed
    <2>2. ASSUME NEW j \in K, d.matches[j].winner = None PROVE after[j].b = None
      <3>1. j # id /\ t.matches[j].winner = None
        BY <1>6, <1>10, <2>2
      <3>2. after[j] = times[j]
        BY <1>3, <2>1, <3>1
      <3> QED
        BY <1>1, <3>1, <3>2 DEF Timed
    <2>3. ASSUME NEW j \in K, IsPlayed(d.matches[j])
          PROVE  /\ after[j].a # None /\ after[j].b # None
                 /\ d.matches[j].winner = d.matches[j].b <=> after[j].b < after[j].a
      <3>1. CASE j = id
        <4>1. d.matches[id].winner = w /\ d.matches[id].b = m.b
          BY <1>1, <1>10, <1>12 DEF m
        <4>2. w = m.b <=> after[id].b < after[id].a
          BY <1>1 DEF w
        <4> QED
          BY <1>0, <1>3, <1>4, <3>1, <4>1, <4>2
      <3>2. CASE j # id
        <4>1. d.matches[j].winner = t.matches[j].winner /\ d.matches[j].winner # None
          BY <1>10, <2>3, <3>2 DEF IsPlayed
        <4>2. d.matches[j].a = t.matches[j].a /\ d.matches[j].b = t.matches[j].b
          BY <1>12, <4>1
        <4>3. IsPlayed(t.matches[j])
          BY <2>3, <4>1, <4>2 DEF IsPlayed
        <4>4. after[j] = times[j]
          BY <1>3, <2>1, <3>2
        <4>5. /\ times[j].a # None /\ times[j].b # None
              /\ t.matches[j].winner = t.matches[j].b <=> times[j].b < times[j].a
          BY <1>1, <4>3 DEF Timed
        <4> QED
          BY <4>1, <4>2, <4>4, <4>5
      <3> QED
        BY <3>1, <3>2
    <2> HIDE DEF D, T
    <2> QED
      BY <1>3, <1>10, <2>1, <2>2, <2>3 DEF Timed, D, T
  <1>15. Racers(d) = Racers(t)
    BY <1>10 DEF Racers
  <1>16. Playable(d, after)
    BY <1>8, <1>10, <1>13, <1>14, <1>15 DEF Playable
  <1>17. d.matches[id].winner # None
    BY <1>1, <1>6, <1>10
  <1>18. \A j \in K \ {id} : d.matches[j].winner = t.matches[j].winner /\ after[j] = times[j]
    BY <1>1, <1>3, <1>10 DEF Timed
  <1> QED
    BY <1>0, <1>3, <1>4, <1>10, <1>16, <1>17, <1>18 DEF Ended

-----------------------------------------------------------------------------
(* The invariant.                                                           *)

LEMMA RunnerIn ==
  ASSUME LineupOK(lineup), NEW t, NEW times, RunnerFor(t, times) # None
  PROVE  RunnerFor(t, times) \in RacerIds \cup {Solo} /\ RunnerFor(t, times) = RunnerId(t, times)
  BY LineupIs DEF RunnerFor

\* Where the bracket is left alone, so is what it needs of the lineup.
LEMMA BracketKept ==
  ASSUME BInv, UNCHANGED bracket, LineupOK(lineup'), Heat!RaceOK', InTournament => UNCHANGED lineup,
         mode' \in {"solo", "raceNight"}, tournamentOn' \in BOOLEAN
  PROVE  BInv'
  BY DEF BInv, bracket, InTournament, NoTimes, Playable, Timed, Sound, Shape, Resolved, NoTournament

LEMMA SetupKeeps ==
  ASSUME BInv, Setup
  PROVE  BInv' /\ UNCHANGED bracket
  <1>1. UNCHANGED <<race, bracket>> /\ ~InTournament
    BY DEF Setup, AddRacer, ChangeMode, ToggleTournament, RemoveRacer, ChooseNext, EditLineup,
           InSetup, InTournament
  <1>2. LineupOK(lineup')
    BY SetupLineup DEF BInv
  <1>3. Heat!RaceOK'
    BY <1>1 DEF BInv, race, Heat!RaceOK
  <1>4. mode' \in {"solo", "raceNight"} /\ tournamentOn' \in BOOLEAN
    BY DEF BInv, Setup, AddRacer, ChangeMode, ToggleTournament, RemoveRacer, ChooseNext, EditLineup
  <1> QED
    BY <1>1, <1>2, <1>3, <1>4, BracketKept

\* What is not set up leaves mode and toggle.
LEMMA SetupOnly ==
  ASSUME BInv, Casual \/ Bracket \/ RaceGoes \/ UNCHANGED vars
  PROVE  mode' \in {"solo", "raceNight"} /\ tournamentOn' \in BOOLEAN
  BY DEF BInv, Casual, OnStart, OnAdvanceLineup, RaceAgain, Bracket, OnStartTournament, OnResetTournament,
         OnResumeTournament, OnTournamentContinue, RaceGoes, setup, vars

LEMMA CasualKeeps ==
  ASSUME BInv, Casual
  PROVE  BInv' /\ UNCHANGED bracket
  <1>1. LineupOK(lineup) /\ Heat!RaceOK /\ mode' \in {"solo", "raceNight"} /\ tournamentOn' \in BOOLEAN
    BY SetupOnly DEF BInv
  <1>2. CASE OnStart
    <2> DEFINE p == IF mode = "solo" THEN Solo ELSE Head(lineup)
    <2>1. UNCHANGED lineup /\ UNCHANGED bracket
      BY <1>2 DEF OnStart, setup
    <2>2. phase' = "countdown" /\ player' = p /\ UNCHANGED total
      BY <1>2 DEF OnStart, Heat!Announce
    <2>3. mode = "solo" \/ lineup # <<>>
      BY <1>2 DEF OnStart, BInv
    <2>4. p \in RacerIds \cup {Solo}
      BY <1>1, <2>3, HeadTailProperties DEF LineupOK
    <2>5. Heat!RaceOK'
      BY <1>1, <2>2, <2>4 DEF Heat!RaceOK, Heat!Phases
    <2> QED
      BY <1>1, <2>1, <2>5, BracketKept
  <1>3. CASE OnAdvanceLineup
    <2>1. UNCHANGED bracket /\ ~InTournament /\ lineup' = Append(Tail(lineup), Head(lineup)) /\ Len(lineup) > 1
      BY <1>3 DEF OnAdvanceLineup, InTournament
    <2>2. LineupOK(lineup')
      BY <1>1, <2>1, GoneRound
    <2>3. Heat!RaceOK'
      BY <1>1, <1>3 DEF OnAdvanceLineup, Heat!Abandon, Heat!RaceOK, Heat!Phases
    <2> QED
      BY <1>1, <2>1, <2>2, <2>3, BracketKept
  <1>4. CASE RaceAgain
    <2>1. UNCHANGED <<lineup, bracket>>
      BY <1>4 DEF RaceAgain, setup
    <2>2. Heat!RaceOK'
      BY <1>1, <1>4 DEF RaceAgain, Heat!Abandon, Heat!RaceOK, Heat!Phases
    <2> QED
      BY <1>1, <2>1, <2>2, BracketKept
  <1> QED
    BY <1>2, <1>3, <1>4 DEF Casual

LEMMA RaceKeeps ==
  ASSUME BInv, RaceGoes
  PROVE  BInv' /\ UNCHANGED bracket
  <1>1. LineupOK(lineup) /\ Heat!RaceOK /\ UNCHANGED <<lineup, bracket>>
        /\ mode' \in {"solo", "raceNight"} /\ tournamentOn' \in BOOLEAN
    BY SetupOnly DEF BInv, RaceGoes, setup
  <1>2. Heat!RaceOK'
    BY <1>1 DEF RaceGoes, Heat!Go, Heat!FinishWith, Heat!Abandon, Heat!RaceOK, Heat!Phases
  <1> QED
    BY <1>1, <1>2, BracketKept

\* Whoever is announced has an id; whoever is not leaves no race.
LEMMA NextRaceOK ==
  ASSUME Heat!RaceOK, LineupOK(lineup), NEW t, NEW times,
         IF RunnerFor(t, times) # None THEN Heat!Announce(RunnerFor(t, times))
         ELSE Heat!Abandon \/ UNCHANGED race
  PROVE  Heat!RaceOK'
  <1>1. CASE RunnerFor(t, times) # None
    BY <1>1, RunnerIn DEF Heat!RaceOK, Heat!Phases, Heat!Announce
  <1>2. CASE RunnerFor(t, times) = None
    BY <1>2 DEF Heat!RaceOK, Heat!Phases, Heat!Abandon, race
  <1> QED
    BY <1>1, <1>2

LEMMA StartKeeps ==
  ASSUME BInv, OnStartTournament
  PROVE  BInv' /\ ~InTournament
  <1>1. LineupOK(lineup) /\ Heat!RaceOK /\ UNCHANGED lineup /\ ~InTournament
    BY DEF BInv, OnStartTournament, setup, InSetup
  <1>2. Len(lineup) >= 2 /\ tournament' = CreateTournament(lineup) /\ matchTimes' = NoTimes
    BY DEF OnStartTournament, TournamentArmed, TournamentReady
  <1>3. Playable(tournament', NoTimes) /\ Racers(tournament') = ToSet(lineup)
    BY <1>1, <1>2, Started
  <1>4. Heat!RaceOK'
    BY <1>1, NextRaceOK DEF OnStartTournament
  <1>5. LineupOK(lineup)' /\ ToSet(lineup)' = ToSet(lineup)
    BY <1>1 DEF LineupOK
  <1>6. Playable(tournament, matchTimes)'
    BY <1>2, <1>3
  <1>7. (matchTimes \in [DOMAIN NoTimes -> [a : Times \cup {None}, b : Times \cup {None}]])'
    BY <1>2, NoTimesAre DEF NoTimes
  <1>8. Racers(tournament)' \subseteq ToSet(lineup)'
    BY <1>3, <1>5 DEF Racers
  <1>9. mode' \in {"solo", "raceNight"} /\ tournamentOn' \in BOOLEAN
    BY SetupOnly DEF Bracket
  <1> QED
    BY <1>1, <1>4, <1>5, <1>6, <1>7, <1>8, <1>9 DEF BInv

LEMMA ResetKeeps ==
  ASSUME BInv, OnResetTournament
  PROVE  BInv' /\ tournament' = NoTournament
  <1>1. LineupOK(lineup) /\ Heat!RaceOK /\ UNCHANGED lineup /\ tournament' = NoTournament /\ matchTimes' = NoTimes
    BY DEF BInv, OnResetTournament, setup
  <1>2. Heat!RaceOK'
    BY <1>1 DEF OnResetTournament, Heat!Abandon, Heat!RaceOK, Heat!Phases
  <1>3. ~InTournament'
    BY <1>1 DEF InTournament, NoTournament
  <1>4. LineupOK(lineup)'
    BY <1>1 DEF LineupOK
  <1>5. (matchTimes \in [DOMAIN NoTimes -> [a : Times \cup {None}, b : Times \cup {None}]])'
    BY <1>1, NoTimesAre DEF NoTimes
  <1>6. (tournament = NoTournament)'
    BY <1>1 DEF NoTournament
  <1>7. mode' \in {"solo", "raceNight"} /\ tournamentOn' \in BOOLEAN
    BY SetupOnly DEF Bracket
  <1> QED
    BY <1>1, <1>2, <1>3, <1>4, <1>5, <1>6, <1>7 DEF BInv

LEMMA ResumeKeeps ==
  ASSUME BInv, OnResumeTournament
  PROVE  BInv' /\ UNCHANGED bracket
  <1>1. LineupOK(lineup) /\ Heat!RaceOK /\ UNCHANGED <<lineup, bracket>>
        /\ mode' \in {"solo", "raceNight"} /\ tournamentOn' \in BOOLEAN
    BY SetupOnly DEF BInv, Bracket, OnResumeTournament, setup
  <1>2. Heat!RaceOK'
    BY <1>1, NextRaceOK DEF OnResumeTournament
  <1> QED
    BY <1>1, <1>2, BracketKept

\* "Continue" stores the total as the first time of the match that runs, or as
\* the second, which decides it.
First(id) ==
  /\ matchTimes[id].a = None
  /\ matchTimes' = [matchTimes EXCEPT ![id].a = total] /\ tournament' = tournament
Second(id) ==
  /\ matchTimes[id].a # None
  /\ matchTimes' = [matchTimes EXCEPT ![id].b = total]
  /\ tournament' = ReportTimes(tournament, id, matchTimes'[id].a, matchTimes'[id].b)

LEMMA Continued ==
  ASSUME BInv, OnTournamentContinue, NEW id, id = CurrentMatch(tournament)
  PROVE  /\ id # NoMatch /\ Playable(tournament, matchTimes) /\ total \in Times /\ phase = "finished"
         /\ UNCHANGED lineup /\ (First(id) \/ Second(id))
  <1>1. /\ phase = "finished" /\ tournament # NoTournament /\ id # NoMatch
        /\ RunnerFor(tournament, matchTimes) # None /\ UNCHANGED lineup
        /\ matchTimes' = WithTime(RunnerFor(tournament, matchTimes))
        /\ tournament' = IF matchTimes'[id].a # None /\ matchTimes'[id].b # None
                         THEN ReportTimes(tournament, id, matchTimes'[id].a, matchTimes'[id].b)
                         ELSE tournament
    BY DEF OnTournamentContinue, setup
  <1>2. Playable(tournament, matchTimes) /\ LineupOK(lineup) /\ total \in Times
    BY <1>1 DEF BInv, Heat!RaceOK
  <1> DEFINE runner == RunnerFor(tournament, matchTimes)
             m == tournament.matches[id]
             D == DOMAIN NoTimes
             T == Times \cup {None}
  <1>3. runner = RunnerId(tournament, matchTimes)
    BY <1>1, <1>2, RunnerIn
  <1>4. /\ id \in DOMAIN matchTimes /\ m.a # m.b /\ matchTimes[id].b = None
        /\ runner = IF matchTimes[id].a = None THEN m.a ELSE m.b
    <2> HIDE DEF runner
    <2> QED
      BY <1>1, <1>2, <1>3, NextHeat
  <1>5. matchTimes' = CASE runner = m.a -> [matchTimes EXCEPT ![id].a = total]
                        [] runner = m.b -> [matchTimes EXCEPT ![id].b = total]
                        [] OTHER -> matchTimes
    BY <1>1 DEF WithTime
  <1>6. matchTimes \in [D -> [a : T, b : T]] /\ total # None
    BY <1>2, TimesAssumption DEF BInv
  <1>7. matchTimes[id] \in [a : T, b : T]
    BY <1>4, <1>6
  <1> HIDE DEF runner, D, T, m
  <1>8. CASE matchTimes[id].a = None
    <2>1. runner = m.a
      BY <1>4, <1>8
    <2>2. matchTimes' = [matchTimes EXCEPT ![id].a = total]
      BY <1>4, <1>5, <2>1
    <2>3. matchTimes'[id].b = None
      BY <1>4, <1>6, <1>7, <2>2
    <2> QED
      BY <1>1, <1>2, <1>8, <2>2, <2>3 DEF First
  <1>9. CASE matchTimes[id].a # None
    <2>1. runner = m.b /\ runner # m.a
      BY <1>4, <1>9
    <2>2. matchTimes' = [matchTimes EXCEPT ![id].b = total]
      BY <1>4, <1>5, <2>1
    <2>3. matchTimes'[id].a # None /\ matchTimes'[id].b # None
      BY <1>4, <1>6, <1>7, <1>9, <2>2
    <2> QED
      BY <1>1, <1>2, <1>9, <2>2, <2>3 DEF Second
  <1> QED
    BY <1>8, <1>9

LEMMA ContinueKeeps ==
  ASSUME BInv, OnTournamentContinue
  PROVE  BInv'
  <1>0. PICK id : id = CurrentMatch(tournament)
    OBVIOUS
  <1>1. /\ id # NoMatch /\ Playable(tournament, matchTimes) /\ total \in Times
        /\ UNCHANGED lineup /\ (First(id) \/ Second(id))
    BY <1>0, Continued
  <1>2. LineupOK(lineup) /\ Heat!RaceOK
    BY DEF BInv
  <1>3. Playable(tournament', matchTimes') /\ tournament'.racerIds = tournament.racerIds
    <2>1. CASE First(id)
      <3>1. Playable(tournament, matchTimes')
        BY <1>0, <1>1, <2>1, FirstTime DEF First
      <3> QED
        BY <2>1, <3>1 DEF First
    <2>2. CASE Second(id)
      <3>1. PICK t, times, after, d, sum : /\ t = tournament /\ times = matchTimes /\ after = matchTimes'
                                           /\ d = tournament' /\ sum = total
        OBVIOUS
      <3>2. /\ Playable(t, times) /\ id = CurrentMatch(t) /\ id # NoMatch /\ sum \in Times
            /\ Ends(t, times, id, sum, d, after)
        BY <1>0, <1>1, <2>2, <3>1 DEF Second, Ends
      <3>3. Ended(t, times, id, d, after)
        BY <3>2, SecondTime
      <3> QED
        BY <3>1, <3>3 DEF Ended
    <2> QED
      BY <1>1, <2>1, <2>2
  <1>4. InTournament
    BY <1>0, <1>1, NextHeat, NotEmpty DEF InTournament, Playable
  <1>5. Heat!RaceOK'
    <2>1. PICK t, times : t = tournament' /\ times = WithTime(RunnerFor(tournament, matchTimes))
      OBVIOUS
    <2>2. IF RunnerFor(t, times) # None THEN Heat!Announce(RunnerFor(t, times)) ELSE Heat!Abandon
      BY <2>1 DEF OnTournamentContinue
    <2> QED
      BY <1>2, <2>2, NextRaceOK
  <1>6. LineupOK(lineup)'
    BY <1>1, <1>2 DEF LineupOK
  <1>7. Playable(tournament, matchTimes)'
    BY <1>3
  <1>8. (matchTimes \in [DOMAIN NoTimes -> [a : Times \cup {None}, b : Times \cup {None}]])'
    BY <1>7 DEF Playable, Timed
  <1>9. Racers(tournament)' \subseteq ToSet(lineup)'
    <2>1. Racers(tournament) \subseteq ToSet(lineup)
      BY <1>4 DEF BInv
    <2>2. Racers(tournament)' = Racers(tournament)
      BY <1>3 DEF Racers
    <2> QED
      BY <1>1, <2>1, <2>2
  <1>10. mode' \in {"solo", "raceNight"} /\ tournamentOn' \in BOOLEAN
    BY SetupOnly DEF Bracket
  <1> QED
    BY <1>5, <1>6, <1>7, <1>8, <1>9, <1>10 DEF BInv

LEMMA BInvInit == Init => BInv
  <1> SUFFICES ASSUME Init PROVE BInv
    OBVIOUS
  <1>1. mode = "solo" /\ tournamentOn = FALSE /\ lineup = <<>> /\ tournament = NoTournament /\ matchTimes = NoTimes
        /\ phase = "idle" /\ player = Solo /\ total = None
    BY DEF Init
  <1>2. LineupOK(lineup)
    <2>1. <<>> \in Seq(RacerIds) /\ DOMAIN <<>> = {}
      OBVIOUS
    <2> QED
      BY <1>1, <2>1 DEF LineupOK
  <1>3. Heat!RaceOK
    BY <1>1 DEF Heat!RaceOK, Heat!Phases
  <1> QED
    BY <1>1, <1>2, <1>3, NoTimesAre DEF BInv, InTournament

LEMMA BInvNext == BInv /\ [Next]_vars => BInv'
  <1> SUFFICES ASSUME BInv, [Next]_vars PROVE BInv'
    OBVIOUS
  <1>1. CASE UNCHANGED vars
    <2>1. UNCHANGED <<race, bracket, lineup>>
      BY <1>1 DEF vars, setup
    <2>2. LineupOK(lineup') /\ Heat!RaceOK' /\ mode' \in {"solo", "raceNight"} /\ tournamentOn' \in BOOLEAN
      BY <1>1, <2>1, SetupOnly DEF BInv, race, Heat!RaceOK
    <2> QED
      BY <2>1, <2>2, BracketKept
  <1> QED
    BY <1>1, SetupKeeps, CasualKeeps, RaceKeeps, StartKeeps, ResetKeeps, ResumeKeeps, ContinueKeeps DEF Next, Bracket

LEMMA BInvAlways == Spec => []BInv
  BY BInvInit, BInvNext, PTL DEF Spec

-----------------------------------------------------------------------------
(* What follows from it.                                                    *)

(***************************************************************************)
(* The screen's state has its types: a lineup, which has every id once at   *)
(* most, is never longer than there are ids, a finished race has a total,   *)
(* and the bracket has exactly the matches of its rounds                    *)
(* (app/(tabs)/race.tsx, race/raceNight.ts).                                *)
(***************************************************************************)
THEOREM TypeCorrect == Spec => []TypeOK
  <1>1. BInv => TypeOK
    <2> SUFFICES ASSUME BInv
                 PROVE  /\ lineup \in SeqOf(RacerIds, MaxRacers)
                        /\ ToSet(tournament.racerIds) \subseteq RacerIds
                        /\ DOMAIN tournament.matches = Matches(tournament.rounds)
                        /\ DOMAIN matchTimes = DOMAIN NoTimes
      BY DEF BInv, TypeOK
    <2>1. lineup \in SeqOf(RacerIds, MaxRacers)
      <3>1. lineup \in [1 .. Len(lineup) -> RacerIds] /\ Len(lineup) \in 0 .. MaxRacers
        BY LineupFits, LineupIs, MaxRacersAssumption, LenProperties DEF BInv, LineupOK
      <3> QED
        BY <3>1 DEF SeqOf
    <2>2. DOMAIN matchTimes = DOMAIN NoTimes
      BY DEF BInv
    <2>3. CASE tournament = NoTournament
      <3>1. DOMAIN tournament.matches = {} /\ tournament.rounds = 0 /\ tournament.racerIds = <<>>
        BY <2>3 DEF NoTournament
      <3>2. Matches(0) = {}
        BY MatchIs
      <3>3. ToSet(<<>>) = {}
        BY DEF ToSet
      <3> QED
        BY <2>1, <2>2, <3>1, <3>2, <3>3
    <2>4. CASE Playable(tournament, matchTimes)
      BY <2>1, <2>2, <2>4 DEF Playable, Sound, Shape, Racers
    <2> QED
      BY <2>3, <2>4 DEF BInv
  <1> QED
    BY <1>1, BInvAlways, PTL

(***************************************************************************)
(* A bracket without a champion has a heat to run, by a racer of the lineup *)
(* (race/tournament.ts: currentMatch; app/(tabs)/race.tsx: runnerId).       *)
(***************************************************************************)
THEOREM GoesOn == Spec => []BracketGoesOn
  <1>1. BInv => BracketGoesOn
    <2> SUFFICES ASSUME BInv, InTournament PROVE RunnerFor(tournament, matchTimes) # None
      BY DEF BracketGoesOn
    <2>1. Playable(tournament, matchTimes) /\ tournament.championId = None
          /\ Racers(tournament) \subseteq ToSet(lineup)
      BY DEF BInv, InTournament
    <2>2. Ready(tournament) # {}
      BY <2>1, SomeReady DEF Playable
    <2>3. CurrentMatch(tournament) # NoMatch
      BY <2>1, <2>2, CurrentIs DEF Playable
    <2>4. RunnerId(tournament, matchTimes) \in Racers(tournament) /\ RunnerId(tournament, matchTimes) # None
      BY <2>1, <2>3, NextHeat
    <2> QED
      BY <2>1, <2>4 DEF RunnerFor
  <1> QED
    BY <1>1, BInvAlways, PTL

LEMMA OfIs ==
  /\ \A id : Of(id) = tournament.matches[id] /\ Loser(id) = LoserOf(tournament.matches[id])
  /\ \A id : Played(id) <=> IsPlayed(tournament.matches[id])
  BY DEF Of, Loser, LoserOf, Played, IsPlayed

(***************************************************************************)
(* Who loses a match lost it to the faster of the two, and races no later   *)
(* match (race/tournament.ts: decide, reportTimes).                         *)
(***************************************************************************)
THEOREM LosersOut == Spec => []LosersAreOut
  <1>1. BInv => LosersAreOut
    <2> SUFFICES ASSUME BInv, NEW id \in DOMAIN tournament.matches, Played(id)
                 PROVE  /\ matchTimes[id].a # None /\ matchTimes[id].b # None
                        /\ Of(id).winner = Of(id).b <=> matchTimes[id].b < matchTimes[id].a
                        /\ \A other \in DOMAIN tournament.matches :
                             Before(id, other) => Loser(id) \notin {Of(other).a, Of(other).b}
      BY DEF LosersAreOut
    <2>1. CASE tournament = NoTournament
      <3>1. DOMAIN tournament.matches = {}
        BY <2>1 DEF NoTournament
      <3> QED
        BY <3>1
    <2>2. CASE Playable(tournament, matchTimes)
      <3>1. Sound(tournament) /\ Timed(tournament, matchTimes)
            /\ DOMAIN tournament.matches = Matches(tournament.rounds)
        BY <2>2 DEF Playable, Sound, Shape
      <3>2. IsPlayed(tournament.matches[id]) /\ id \in Matches(tournament.rounds)
        BY <3>1, OfIs
      <3>3. /\ matchTimes[id].a # None /\ matchTimes[id].b # None
            /\ tournament.matches[id].winner = tournament.matches[id].b <=> matchTimes[id].b < matchTimes[id].a
        BY <3>1, <3>2 DEF Timed
      <3>4. \A other \in Matches(tournament.rounds) : Before(id, other) =>
              LoserOf(tournament.matches[id]) \notin {tournament.matches[other].a, tournament.matches[other].b}
        BY <3>1, <3>2, LoserIsOut
      <3> QED
        BY <3>1, <3>3, <3>4, OfIs
    <2> QED
      BY <2>1, <2>2 DEF BInv
  <1> QED
    BY <1>1, BInvAlways, PTL

(***************************************************************************)
(* When there is a champion, every other racer of the bracket has lost a    *)
(* match (race/tournament.ts: decide, createTournament).                    *)
(***************************************************************************)
THEOREM OneChampionOnly == Spec => []OneChampion
  <1>1. BInv => OneChampion
    <2> SUFFICES ASSUME BInv, tournament.championId # None
                 PROVE  {Loser(id) : id \in {m \in DOMAIN tournament.matches : Played(m)}}
                          = ToSet(tournament.racerIds) \ {tournament.championId}
      BY DEF OneChampion
    <2>1. Sound(tournament)
      BY DEF BInv, Playable, NoTournament
    <2>2. {LoserOf(tournament.matches[id]) : id \in {m \in DOMAIN tournament.matches : IsPlayed(tournament.matches[m])}}
            = Racers(tournament) \ {tournament.championId}
      BY <2>1, TheOthersLost
    <2> QED
      BY <2>2, OfIs DEF Racers
  <1> QED
    BY <1>1, BInvAlways, PTL

-----------------------------------------------------------------------------
(* How many heats are left.                                                 *)

HeatsOf(t, times) ==
  2 * Cardinality({id \in DOMAIN t.matches : t.matches[id].winner = None})
    - Cardinality({id \in DOMAIN t.matches : t.matches[id].winner = None /\ times[id].a # None})
    - Cardinality({id \in DOMAIN t.matches : t.matches[id].winner = None /\ times[id].b # None})

LEMMA FiniteMatches ==
  ASSUME NEW R \in Nat
  PROVE  IsFiniteSet(Matches(R))
  <1>1. Size[R] \in Nat
    BY SizeIs
  <1>2. IsFiniteSet(1 .. R) /\ IsFiniteSet(0 .. Size[R] - 1)
    <2>1. 0 \in Int /\ 1 \in Int /\ R \in Int /\ Size[R] - 1 \in Int
      BY <1>1
    <2> QED
      BY <2>1, FS_Interval
  <1>3. IsFiniteSet((1 .. R) \X (0 .. Size[R] - 1))
    BY <1>2, FS_Product
  <1>4. Matches(R) \in SUBSET ((1 .. R) \X (0 .. Size[R] - 1))
    BY DEF Matches, MatchIds
  <1> QED
    BY <1>3, <1>4, FS_Subset

\* One time more: a first one makes one match more half run, a second one takes
\* a half run match away.
LEMMA OneHeatLess ==
  ASSUME NEW t, NEW d, NEW times, NEW after, NEW K, IsFiniteSet(K), NEW id \in K,
         DOMAIN t.matches = K, DOMAIN d.matches = K,
         t.matches[id].winner = None, times[id].b = None,
         \A j \in K \ {id} : d.matches[j].winner = t.matches[j].winner /\ after[j] = times[j],
         \/ /\ times[id].a = None /\ d.matches[id].winner = None
            /\ after[id].a # None /\ after[id].b = None
         \/ times[id].a # None /\ d.matches[id].winner # None
  PROVE  HeatsOf(d, after) = HeatsOf(t, times) - 1
  <1> DEFINE U == {j \in K : t.matches[j].winner = None}
             A == {j \in K : t.matches[j].winner = None /\ times[j].a # None}
             B == {j \in K : t.matches[j].winner = None /\ times[j].b # None}
             V == {j \in K : d.matches[j].winner = None}
             C == {j \in K : d.matches[j].winner = None /\ after[j].a # None}
             E == {j \in K : d.matches[j].winner = None /\ after[j].b # None}
  <1>1. HeatsOf(t, times) = 2 * Cardinality(U) - Cardinality(A) - Cardinality(B)
    BY DEF HeatsOf
  <1>2. HeatsOf(d, after) = 2 * Cardinality(V) - Cardinality(C) - Cardinality(E)
    BY DEF HeatsOf
  <1>3. IsFiniteSet(U) /\ IsFiniteSet(A) /\ IsFiniteSet(B)
    <2>1. U \in SUBSET K /\ A \in SUBSET K /\ B \in SUBSET K
      OBVIOUS
    <2> HIDE DEF U, A, B
    <2> QED
      BY <2>1, FS_Subset
  <1>4. Cardinality(U) \in Nat /\ Cardinality(A) \in Nat /\ Cardinality(B) \in Nat
    <2> HIDE DEF U, A, B
    <2> QED
      BY <1>3, FS_CardinalityType
  <1>5. id \in U /\ id \notin B
    OBVIOUS
  <1>6. E = B
    OBVIOUS
  <1>7. CASE /\ times[id].a = None /\ d.matches[id].winner = None
             /\ after[id].a # None /\ after[id].b = None
    <2>1. V = U /\ C = A \cup {id} /\ id \notin A
      BY <1>7
    <2> HIDE DEF U, A, B, V, C, E
    <2>2. Cardinality(C) = Cardinality(A) + 1
      BY <1>3, <2>1, FS_AddElement
    <2> QED
      BY <1>1, <1>2, <1>4, <1>6, <2>1, <2>2
  <1>8. CASE times[id].a # None /\ d.matches[id].winner # None
    <2>1. V = U \ {id} /\ C = A \ {id} /\ id \in A
      BY <1>8
    <2> HIDE DEF U, A, B, V, C, E
    <2>2. Cardinality(V) = Cardinality(U) - 1 /\ Cardinality(C) = Cardinality(A) - 1
      BY <1>3, <1>5, <2>1, FS_RemoveElement
    <2> QED
      BY <1>1, <1>2, <1>4, <1>6, <2>2
  <1> QED
    BY <1>7, <1>8

LEMMA ContinueCounts ==
  ASSUME BInv, OnTournamentContinue
  PROVE  phase = "finished" /\ HeatsLeft' = HeatsLeft - 1
  <1>0. PICK id : id = CurrentMatch(tournament)
    OBVIOUS
  <1> DEFINE K == Matches(tournament.rounds)
             D == DOMAIN NoTimes
             T == Times \cup {None}
  <1>1. /\ id # NoMatch /\ Playable(tournament, matchTimes) /\ total \in Times /\ phase = "finished"
        /\ (First(id) \/ Second(id))
    BY <1>0, Continued
  <1>2. /\ id \in K /\ id \in DOMAIN matchTimes /\ tournament.matches[id].winner = None /\ matchTimes[id].b = None
    BY <1>0, <1>1, NextHeat
  <1>3. DOMAIN tournament.matches = K /\ IsFiniteSet(K) /\ K \subseteq D
        /\ matchTimes \in [D -> [a : T, b : T]] /\ total # None
    BY <1>1, FiniteMatches, TimesAssumption DEF Playable, Sound, Shape, Timed
  <1>4. HeatsLeft = HeatsOf(tournament, matchTimes) /\ HeatsLeft' = HeatsOf(tournament', matchTimes')
    BY DEF HeatsLeft, HeatsOf, Of
  <1>5. CASE First(id)
    <2>1. matchTimes'[id].a # None /\ matchTimes'[id].b = None
      <3>1. matchTimes[id] \in [a : T, b : T]
        BY <1>2, <1>3
      <3> QED
        BY <1>2, <1>3, <1>5, <3>1 DEF First
    <2>2. \A j \in K \ {id} : matchTimes'[j] = matchTimes[j]
      BY <1>3, <1>5 DEF First
    <2>3. tournament' = tournament /\ matchTimes[id].a = None
      BY <1>5 DEF First
    <2>4. HeatsOf(tournament', matchTimes') = HeatsOf(tournament, matchTimes) - 1
      <3> HIDE DEF K, D, T
      <3> QED
        BY <1>2, <1>3, <2>1, <2>2, <2>3, OneHeatLess
    <2> QED
      BY <1>1, <1>4, <2>4
  <1>6. CASE Second(id)
    <2>1. /\ Playable(tournament', matchTimes') /\ tournament'.rounds = tournament.rounds
          /\ tournament'.matches[id].winner # None
          /\ \A j \in K \ {id} : /\ tournament'.matches[j].winner = tournament.matches[j].winner
                                 /\ matchTimes'[j] = matchTimes[j]
      <3>1. PICK t, times, after, d, sum : /\ t = tournament /\ times = matchTimes /\ after = matchTimes'
                                           /\ d = tournament' /\ sum = total
        OBVIOUS
      <3>2. /\ Playable(t, times) /\ id = CurrentMatch(t) /\ id # NoMatch /\ sum \in Times
            /\ Ends(t, times, id, sum, d, after)
        BY <1>0, <1>1, <1>6, <3>1 DEF Second, Ends
      <3>3. Ended(t, times, id, d, after)
        BY <3>2, SecondTime
      <3> QED
        BY <3>1, <3>3 DEF Ended
    <2>2. DOMAIN tournament'.matches = K /\ matchTimes[id].a # None
      BY <1>6, <2>1 DEF Playable, Sound, Shape, Second
    <2>3. HeatsOf(tournament', matchTimes') = HeatsOf(tournament, matchTimes) - 1
      <3> HIDE DEF K, D, T
      <3> QED
        BY <1>2, <1>3, <2>1, <2>2, OneHeatLess
    <2> QED
      BY <1>1, <1>4, <2>3
  <1> QED
    BY <1>1, <1>5, <1>6

(***************************************************************************)
(* "Continue" brings the bracket exactly one heat nearer to its champion,   *)
(* and nothing but a new bracket or a reset changes it otherwise            *)
(* (app/(tabs)/race.tsx: onTournamentContinue).                             *)
(***************************************************************************)
THEOREM HeatsCount == Spec => EveryHeatCounts
  <1> DEFINE A == InTournament /\ tournament'.racerIds = tournament.racerIds =>
                    \/ phase = "finished" /\ HeatsLeft' = HeatsLeft - 1
                    \/ UNCHANGED bracket
  <1>1. BInv /\ [Next]_vars => [A]_vars
    <2> SUFFICES ASSUME BInv, Next PROVE A
      OBVIOUS
    <2>1. CASE Setup \/ Casual \/ RaceGoes
      BY <2>1, SetupKeeps, CasualKeeps, RaceKeeps
    <2>2. CASE OnStartTournament
      BY <2>2, StartKeeps
    <2>3. CASE OnResetTournament
      <3>1. tournament'.racerIds = <<>>
        BY <2>3, ResetKeeps DEF NoTournament
      <3>2. InTournament => tournament.racerIds # <<>>
        BY DEF BInv, InTournament, Playable
      <3> QED
        BY <3>1, <3>2
    <2>4. CASE OnResumeTournament
      BY <2>4, ResumeKeeps
    <2>5. CASE OnTournamentContinue
      BY <2>5, ContinueCounts
    <2> QED
      BY <2>1, <2>2, <2>3, <2>4, <2>5 DEF Next, Bracket
  <1>2. Spec => [][A]_vars
    BY <1>1, BInvAlways, PTL DEF Spec
  <1> QED
    BY <1>2 DEF EveryHeatCounts
=============================================================================
