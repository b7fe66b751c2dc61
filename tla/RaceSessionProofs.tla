--------------------------- MODULE RaceSessionProofs ---------------------------
(***************************************************************************)
(* Proofs about the race session.                                           *)
(*                                                                         *)
(*   Inv       the buffer numbers its passes downwards (PortalOK), and a    *)
(*             race under way has seen all of them (SeenOK); the passes     *)
(*             since GO are in the order of time (SinceOK) and the race is  *)
(*             what they make of it (PhaseOK): while racing its laps are    *)
(*             the times between those passes, when finished the first laps *)
(*             up to the target and their sum                               *)
(*   SpeedsOK  the buffer is the newest of the passes since GO before those *)
(*             from before it (Tracked), so a top speed is one of the       *)
(*             race's own (TopSpeedOK)                                      *)
(*   BoardOK   the leaderboard holds the stored results of the first places *)
(*                                                                         *)
(* Totals and batches are sums and steps along a sequence.  What they come  *)
(* to is proved from the least number at which it would fail (Least,        *)
(* Upward), the ranking from places being all different and filled          *)
(* (PlacesFilled).                                                          *)
(***************************************************************************)
EXTENDS RaceSession, FiniteSetTheorems, TLAPS

-----------------------------------------------------------------------------
(* Counting up.                                                             *)

\* A set of numbers has a least.
LEMMA Least ==
  ASSUME NEW T \in SUBSET Nat, T # {}
  PROVE  \E m \in T : \A y \in T : m <= y
  <1> DEFINE U == {0 .. n : n \in T}
             S == FiniteSubsetsOf(Nat)
  <1>0. PICK k \in T : TRUE
    OBVIOUS
  <1>1. U \subseteq S /\ U # {}
    <2>1. ASSUME NEW n \in T PROVE 0 .. n \in S
      BY <2>1, FS_Interval DEF FiniteSubsetsOf
    <2> QED
      BY <2>1, <1>0
  <1>2. PICK x \in U : \A y \in U : <<y, x>> \notin StrictSubsetOrdering(Nat)
    <2> HIDE DEF U, S
    <2> QED
      BY <1>1, WFMin, FS_StrictSubsetOrderingWellFounded DEF S
  <1>3. PICK m \in T : x = 0 .. m
    BY <1>2
  <1>4. ASSUME NEW y \in T, y < m PROVE FALSE
    <2>1. 0 .. y \subseteq x /\ 0 .. y # x /\ x \in SUBSET Nat
      BY <1>3, <1>4
    <2>2. <<0 .. y, x>> \in StrictSubsetOrdering(Nat)
      BY <2>1 DEF StrictSubsetOrdering
    <2> QED
      BY <2>2, <1>2
  <1>5. m \in Nat /\ T \subseteq Nat
    BY <1>3
  <1>6. ASSUME NEW y \in T PROVE m <= y
    BY <1>4, <1>5
  <1> QED
    BY <1>3, <1>6

\* What holds at 0 and, from every number below n, of the next, holds up to n.
LEMMA Upward ==
  ASSUME NEW n \in Nat, NEW P, 0 \in P, \A k \in 0 .. n - 1 : k \in P => k + 1 \in P
  PROVE  \A k \in 0 .. n : k \in P
  <1> DEFINE T == {k \in 0 .. n : k \notin P}
  <1>1. ASSUME T # {} PROVE FALSE
    <2>0. T \in SUBSET Nat
      OBVIOUS
    <2>1. PICK m \in T : \A y \in T : m <= y
      <3> HIDE DEF T
      <3> QED
        BY <1>1, <2>0, Least
    <2>2. m # 0 /\ m - 1 \in 0 .. n - 1 /\ m - 1 \in 0 .. n /\ ~(m <= m - 1) /\ (m - 1) + 1 = m
      BY <2>1
    <2>3. m - 1 \in P
      BY <2>1, <2>2
    <2> QED
      BY <2>1, <2>2, <2>3
  <1> QED
    BY <1>1

\* Total adds the laps one after the other.
LEMMA TotalIs ==
  ASSUME NEW laps \in Seq(Int)
  PROVE  \E f : /\ f = [n \in 0 .. Len(laps) |-> IF n = 0 THEN 0 ELSE f[n - 1] + laps[n]]
                /\ Total(laps) = f[Len(laps)]
  <1> DEFINE upto(m) == \E f : f = [n \in 0 .. m |-> IF n = 0 THEN 0 ELSE f[n - 1] + laps[n]]
             P == {m \in Nat : upto(m)}
  <1>1. 0 \in P
    <2>1. [n \in 0 .. 0 |-> 0] = [n \in 0 .. 0 |-> IF n = 0 THEN 0 ELSE [i \in 0 .. 0 |-> 0][n - 1] + laps[n]]
      OBVIOUS
    <2> QED
      BY <2>1
  <1>2. ASSUME NEW k \in 0 .. Len(laps) - 1, k \in P PROVE k + 1 \in P
    <2>1. PICK f : f = [n \in 0 .. k |-> IF n = 0 THEN 0 ELSE f[n - 1] + laps[n]]
      BY <1>2
    <2> DEFINE g == [n \in 0 .. k + 1 |-> IF n <= k THEN f[n] ELSE f[k] + laps[k + 1]]
    <2>2. k \in Nat /\ k + 1 \in Nat
      OBVIOUS
    <2>3. ASSUME NEW n \in 0 .. k + 1
          PROVE  g[n] = IF n = 0 THEN 0 ELSE g[n - 1] + laps[n]
      <3>1. CASE n <= k
        <4>1. n \in 0 .. k /\ (n # 0 => n - 1 \in 0 .. k + 1 /\ n - 1 <= k)
          BY <2>2, <3>1
        <4>2. f[n] = IF n = 0 THEN 0 ELSE f[n - 1] + laps[n]
          BY <2>1, <4>1
        <4>3. g[n] = f[n] /\ (n # 0 => g[n - 1] = f[n - 1])
          BY <3>1, <4>1
        <4> QED
          BY <4>2, <4>3
      <3>2. CASE n = k + 1
        <4>1. ~(n <= k) /\ n # 0 /\ n - 1 = k /\ k \in 0 .. k + 1 /\ k <= k
          BY <2>2, <3>2
        <4>2. g[n] = f[k] + laps[k + 1] /\ g[n - 1] = f[k]
          BY <4>1
        <4> QED
          BY <3>2, <4>1, <4>2
      <3> QED
        BY <2>2, <3>1, <3>2
    <2>4. g = [n \in 0 .. k + 1 |-> IF n = 0 THEN 0 ELSE g[n - 1] + laps[n]]
      <3>1. g = [n \in 0 .. k + 1 |-> g[n]]
        OBVIOUS
      <3> HIDE DEF g
      <3> QED
        BY <2>3, <3>1
    <2> HIDE DEF g
    <2> QED
      BY <2>2, <2>4
  <1>3. Len(laps) \in Nat
    OBVIOUS
  <1>4. Len(laps) \in P
    <2>1. \A k \in 0 .. Len(laps) - 1 : k \in P => k + 1 \in P
      BY <1>2
    <2> HIDE DEF P
    <2>2. \A k \in 0 .. Len(laps) : k \in P
      BY <1>1, <2>1, <1>3, Upward
    <2>3. Len(laps) \in 0 .. Len(laps)
      BY <1>3
    <2> QED
      BY <2>2, <2>3
  <1> QED
    BY <1>4 DEF Total

\* Laps that are the times between crossings add up to the time between the
\* first of the crossings and the last.
LEMMA Telescopes ==
  ASSUME NEW laps \in Seq(Int), NEW w,
         \A i \in 1 .. Len(laps) + 1 : w[i].at \in Int,
         \A i \in 1 .. Len(laps) : laps[i] = w[i + 1].at - w[i].at
  PROVE  Total(laps) = w[Len(laps) + 1].at - w[1].at
  <1>1. PICK f : /\ f = [n \in 0 .. Len(laps) |-> IF n = 0 THEN 0 ELSE f[n - 1] + laps[n]]
                 /\ Total(laps) = f[Len(laps)]
    BY TotalIs
  <1>2. Len(laps) \in Nat
    OBVIOUS
  <1> DEFINE P == {n \in Nat : f[n] = w[n + 1].at - w[1].at}
  <1>3. 0 \in P
    <2>1. f[0] = 0
      BY <1>1, <1>2
    <2> QED
      BY <2>1, <1>2
  <1>4. ASSUME NEW k \in 0 .. Len(laps) - 1, k \in P PROVE k + 1 \in P
    <2>1. k + 1 \in 0 .. Len(laps) /\ k + 1 # 0 /\ (k + 1) - 1 = k /\ k + 1 \in Nat
      BY <1>2
    <2>2. f[k + 1] = f[k] + laps[k + 1]
      BY <1>1, <2>1
    <2>3. laps[k + 1] = w[(k + 1) + 1].at - w[k + 1].at /\ f[k] = w[k + 1].at - w[1].at
      BY <2>1, <1>2, <1>4
    <2>4. w[(k + 1) + 1].at \in Int /\ w[k + 1].at \in Int /\ w[1].at \in Int
      BY <1>2
    <2> QED
      BY <2>1, <2>2, <2>3, <2>4
  <1>5. \A k \in 0 .. Len(laps) : k \in P
    <2>1. \A k \in 0 .. Len(laps) - 1 : k \in P => k + 1 \in P
      BY <1>4
    <2> HIDE DEF P
    <2> QED
      BY <1>2, <1>3, <2>1, Upward
  <1> QED
    BY <1>1, <1>2, <1>5

\* Gates crosses one gate after the other.
LEMMA GatesAre ==
  ASSUME NEW s, NEW crossings, Len(crossings) \in Nat
  PROVE  \E f : /\ f[0] = s
                /\ \A n \in 1 .. Len(crossings) : f[n] = Gate(f[n - 1], crossings[n].at)
                /\ Gates(s, crossings) = f[Len(crossings)]
  <1> DEFINE upto(m) == \E f : f = [n \in 0 .. m |-> IF n = 0 THEN s ELSE Gate(f[n - 1], crossings[n].at)]
             P == {m \in Nat : upto(m)}
  <1>1. 0 \in P
    <2>1. [n \in 0 .. 0 |-> s] = [n \in 0 .. 0 |-> IF n = 0 THEN s ELSE Gate([i \in 0 .. 0 |-> s][n - 1], crossings[n].at)]
      OBVIOUS
    <2> QED
      BY <2>1
  <1>2. ASSUME NEW k \in 0 .. Len(crossings) - 1, k \in P PROVE k + 1 \in P
    <2>1. PICK f : f = [n \in 0 .. k |-> IF n = 0 THEN s ELSE Gate(f[n - 1], crossings[n].at)]
      BY <1>2
    <2> DEFINE g == [n \in 0 .. k + 1 |-> IF n <= k THEN f[n] ELSE Gate(f[k], crossings[k + 1].at)]
    <2>2. k \in Nat /\ k + 1 \in Nat
      OBVIOUS
    <2>3. ASSUME NEW n \in 0 .. k + 1
          PROVE  g[n] = IF n = 0 THEN s ELSE Gate(g[n - 1], crossings[n].at)
      <3>1. CASE n <= k
        <4>1. n \in 0 .. k /\ (n # 0 => n - 1 \in 0 .. k + 1 /\ n - 1 <= k)
          BY <2>2, <3>1
        <4>2. f[n] = IF n = 0 THEN s ELSE Gate(f[n - 1], crossings[n].at)
          BY <2>1, <4>1
        <4>3. g[n] = f[n] /\ (n # 0 => g[n - 1] = f[n - 1])
          BY <3>1, <4>1
        <4> QED
          BY <4>2, <4>3
      <3>2. CASE n = k + 1
        <4>1. ~(n <= k) /\ n # 0 /\ n - 1 = k /\ k \in 0 .. k + 1 /\ k <= k
          BY <2>2, <3>2
        <4>2. g[n] = Gate(f[k], crossings[k + 1].at) /\ g[n - 1] = f[k]
          BY <4>1
        <4> QED
          BY <3>2, <4>1, <4>2
      <3> QED
        BY <2>2, <3>1, <3>2
    <2>4. g = [n \in 0 .. k + 1 |-> IF n = 0 THEN s ELSE Gate(g[n - 1], crossings[n].at)]
      <3>1. g = [n \in 0 .. k + 1 |-> g[n]]
        OBVIOUS
      <3> HIDE DEF g
      <3> QED
        BY <2>3, <3>1
    <2> HIDE DEF g
    <2> QED
      BY <2>2, <2>4
  <1>3. Len(crossings) \in P
    <2>1. \A k \in 0 .. Len(crossings) - 1 : k \in P => k + 1 \in P
      BY <1>2
    <2> HIDE DEF P
    <2>2. \A k \in 0 .. Len(crossings) : k \in P
      BY <1>1, <2>1, Upward
    <2> QED
      BY <2>2
  <1> DEFINE h == CHOOSE g : g = [n \in 0 .. Len(crossings) |-> IF n = 0 THEN s ELSE Gate(g[n - 1], crossings[n].at)]
  <1>4. h = [n \in 0 .. Len(crossings) |-> IF n = 0 THEN s ELSE Gate(h[n - 1], crossings[n].at)]
    BY <1>3
  <1>5. Gates(s, crossings) = h[Len(crossings)]
    BY DEF Gates
  <1> HIDE DEF h
  <1>6. ASSUME NEW n \in 0 .. Len(crossings)
        PROVE h[n] = IF n = 0 THEN s ELSE Gate(h[n - 1], crossings[n].at)
    BY <1>4
  <1>7. h[0] = s /\ \A n \in 1 .. Len(crossings) : h[n] = Gate(h[n - 1], crossings[n].at)
    BY <1>6
  <1> QED
    BY <1>5, <1>7

-----------------------------------------------------------------------------
(* A race and the passes it was run with: w, the first k of them.           *)

PassSet == [id : Nat, uid : Cars \cup {None}, mph : Speeds, at : Nat]

\* A race has these fields and no others; so has the store's part of it.
IsRace(r) ==
  r = [phase |-> r.phase, targetLaps |-> r.targetLaps, player |-> r.player, carUid |-> r.carUid,
       lastGateAt |-> r.lastGateAt, lapTimes |-> r.lapTimes, result |-> r.result]

IsStore(s) == s = [race |-> s.race, board |-> s.board, saved |-> s.saved]

InLaps(r, w, k) ==
  /\ r.lapTimes \in Seq(Int)
  /\ Len(r.lapTimes) < k \/ (k = 0 /\ r.lapTimes = <<>>)
  /\ \A i \in 1 .. Len(r.lapTimes) : r.lapTimes[i] = w[i + 1].at - w[i].at

Running(r, w, k) ==
  /\ r.phase = "racing" /\ r.result = NoResult
  /\ InLaps(r, w, k)
  /\ Len(r.lapTimes) < r.targetLaps
  /\ IF k = 0 THEN r.lastGateAt = None ELSE r.lastGateAt = w[k].at /\ k = Len(r.lapTimes) + 1

Done(r, w, k) ==
  /\ r.phase = "finished"
  /\ InLaps(r, w, k) /\ r.lapTimes # <<>>
  /\ Len(r.lapTimes) <= r.targetLaps
  /\ r.result.total = Total(r.lapTimes)
  /\ k = Len(r.lapTimes) + 1 \/ Len(r.lapTimes) = r.targetLaps

\* With its last lap, at the crossing that closed it.
Lapped(r, w, k) ==
  /\ Done(r, w, k) /\ Len(r.lapTimes) = r.targetLaps
  /\ r.result.finishedAt = w[Len(r.lapTimes) + 1].at

Whose(r) == <<r.player, r.targetLaps, r.carUid>>

\* A crossing is the start line's, a lap's, or the last lap's.
LEMMA Crossing ==
  ASSUME NEW r, NEW w, NEW k \in Nat, IsRace(r), r.targetLaps \in Nat, Running(r, w, k),
         \A i \in 1 .. k + 1 : w[i].at \in Nat
  PROVE  LET q == RecordGate(r, w[k + 1].at) IN
           /\ IsRace(q) /\ Whose(q) = Whose(r)
           /\ \/ Running(q, w, k + 1)
              \/ Lapped(q, w, k + 1)
  <1> DEFINE now == w[k + 1].at
             q == RecordGate(r, now)
             laps == Append(r.lapTimes, now - r.lastGateAt)
  <1>1. now \in Nat /\ k + 1 \in Nat /\ r.lapTimes \in Seq(Int) /\ r.phase = "racing"
    BY DEF Running, InLaps
  <1>2. CASE k = 0
    <2>1. r.lastGateAt = None /\ r.lapTimes = <<>>
      BY <1>2, <1>1 DEF Running, InLaps
    <2>2. q = [r EXCEPT !.lastGateAt = now]
      BY <1>1, <2>1 DEF RecordGate
    <2>3. IsRace(q) /\ Whose(q) = Whose(r) /\ q.lastGateAt = now /\ q.phase = r.phase /\ q.result = r.result
          /\ q.lapTimes = r.lapTimes /\ q.targetLaps = r.targetLaps
      BY <2>2 DEF IsRace, Whose
    <2> HIDE DEF q, now
    <2>4. Running(q, w, k + 1)
      BY <1>1, <1>2, <2>1, <2>3 DEF Running, InLaps, now
    <2> QED
      BY <2>3, <2>4 DEF q, now
  <1>3. CASE k # 0
    <2>1. r.lastGateAt = w[k].at /\ k = Len(r.lapTimes) + 1 /\ w[k].at \in Nat /\ r.lastGateAt # None
      BY <1>3, <1>1 DEF Running, None
    <2>2. laps \in Seq(Int) /\ Len(laps) = k /\ laps # <<>>
      BY <1>1, <2>1
    <2>3. ASSUME NEW i \in 1 .. k PROVE laps[i] = w[i + 1].at - w[i].at
      <3>1. CASE i = k
        BY <1>1, <2>1, <3>1
      <3>2. CASE i # k
        <4>1. i \in 1 .. Len(r.lapTimes)
          BY <2>1, <3>2, <1>1
        <4>2. laps[i] = r.lapTimes[i]
          BY <4>1, <1>1
        <4> QED
          BY <4>1, <4>2 DEF Running, InLaps
      <3> QED
        BY <3>1, <3>2
    <2>4. r.phase = "racing" /\ r.result = NoResult /\ Len(r.lapTimes) < r.targetLaps
      BY DEF Running
    <2>5. CASE Len(laps) < r.targetLaps
      <3>1. q = [r EXCEPT !.lastGateAt = now, !.lapTimes = laps]
        BY <1>1, <2>1, <2>5 DEF RecordGate
      <3>2. IsRace(q) /\ Whose(q) = Whose(r) /\ q.lastGateAt = now /\ q.phase = r.phase /\ q.result = r.result
            /\ q.lapTimes = laps /\ q.targetLaps = r.targetLaps
        BY <3>1 DEF IsRace, Whose
      <3> HIDE DEF q, laps, now
      <3>3. InLaps(q, w, k + 1)
        BY <3>2, <2>2, <2>3 DEF InLaps
      <3>4. Running(q, w, k + 1)
        BY <3>2, <3>3, <2>2, <2>4, <2>5, <1>1 DEF Running, now
      <3> QED
        BY <3>2, <3>4 DEF q, now
    <2>6. CASE ~(Len(laps) < r.targetLaps)
      <3>1. q = [r EXCEPT !.lastGateAt = now, !.lapTimes = laps, !.phase = "finished",
                          !.result = Summarize(r, laps, now)]
        BY <1>1, <2>1, <2>6 DEF RecordGate
      <3>2. IsRace(q) /\ Whose(q) = Whose(r) /\ q.phase = "finished" /\ q.result = Summarize(r, laps, now)
            /\ q.lapTimes = laps /\ q.targetLaps = r.targetLaps
        BY <3>1 DEF IsRace, Whose
      <3>3. q.result.total = Total(laps) /\ q.result.finishedAt = now
        BY <3>2 DEF Summarize
      <3> HIDE DEF q, laps, now
      <3>4. InLaps(q, w, k + 1)
        BY <3>2, <2>2, <2>3 DEF InLaps
      <3>5. Len(q.lapTimes) = q.targetLaps
        BY <3>2, <2>1, <2>2, <2>4, <2>6, <1>1
      <3>6. Done(q, w, k + 1)
        BY <3>2, <3>3, <3>4, <3>5, <2>2 DEF Done
      <3>7. Lapped(q, w, k + 1)
        BY <3>2, <3>3, <3>5, <3>6, <2>2 DEF Lapped, now
      <3> QED
        BY <3>2, <3>7 DEF q, now
    <2> QED
      BY <2>5, <2>6
  <1> QED
    BY <1>2, <1>3

\* Once a race is finished, a crossing is nothing to it.
LEMMA Ignored ==
  ASSUME NEW s, NEW at, IsStore(s), s.race.phase = "finished"
  PROVE  Gate(s, at) = s
  BY DEF Gate, Bank, RecordGate, IsStore

\* The store after some of the crossings: the race goes on and nothing was
\* saved, or it is over and its result was saved, once.
Along(s, w, k, before) ==
  /\ IsStore(s) /\ IsRace(s.race)
  /\ \/ Running(s.race, w, k) /\ s.saved = before.saved /\ s.board = before.board
     \/ /\ Lapped(s.race, w, k) /\ s.saved = Append(before.saved, s.race.result)
        /\ s.board = RankInsert(before.board, s.race.result)

LEMMA AlongOne ==
  ASSUME NEW s, NEW w, NEW k \in Nat, NEW before, Along(s, w, k, before), s.race.targetLaps \in Nat,
         \A i \in 1 .. k + 1 : w[i].at \in Nat
  PROVE  LET t == Gate(s, w[k + 1].at) IN Along(t, w, k + 1, before) /\ Whose(t.race) = Whose(s.race)
  <1> DEFINE r == s.race
             q == RecordGate(r, w[k + 1].at)
             t == Gate(s, w[k + 1].at)
  <1>0. t = Bank(s, q)
    BY DEF Gate
  <1>1. CASE Running(r, w, k) /\ s.saved = before.saved /\ s.board = before.board
    <2>1. /\ IsRace(q) /\ Whose(q) = Whose(r)
          /\ Running(q, w, k + 1) \/ Lapped(q, w, k + 1)
      BY <1>1, Crossing DEF Along
    <2>2. r.phase = "racing" /\ IsStore(s)
      BY <1>1 DEF Running, Along
    <2> HIDE DEF q, t
    <2>3. CASE Running(q, w, k + 1)
      <3>1. t = [s EXCEPT !.race = q]
        BY <1>0, <2>3 DEF Bank, Running
      <3>2. IsStore(t) /\ t.race = q /\ t.saved = before.saved /\ t.board = before.board
        BY <3>1, <2>2, <1>1 DEF IsStore
      <3> QED
        BY <3>2, <2>1, <2>3 DEF Along, t
    <2>4. CASE Lapped(q, w, k + 1)
      <3>1. t = [race |-> q, board |-> RankInsert(s.board, q.result), saved |-> Append(s.saved, q.result)]
        BY <1>0, <2>2, <2>4 DEF Bank, Lapped, Done
      <3>2. IsStore(t) /\ t.race = q /\ t.saved = Append(before.saved, q.result)
            /\ t.board = RankInsert(before.board, q.result)
        BY <3>1, <1>1 DEF IsStore
      <3> QED
        BY <3>2, <2>1, <2>4 DEF Along, t
    <2> QED
      BY <2>1, <2>3, <2>4
  <1>2. CASE /\ Lapped(r, w, k) /\ s.saved = Append(before.saved, r.result)
             /\ s.board = RankInsert(before.board, r.result)
    <2>1. t = s
      BY <1>2, Ignored DEF Along, Lapped, Done
    <2>2. Lapped(r, w, k + 1)
      BY <1>2 DEF Lapped, Done, InLaps
    <2> HIDE DEF t
    <2> QED
      BY <1>2, <2>1, <2>2 DEF Along, t
  <1> QED
    BY <1>1, <1>2 DEF Along

LEMMA AlongAll ==
  ASSUME NEW s, NEW w, NEW k \in Nat, NEW batch, Len(batch) \in Nat,
         IsStore(s), IsRace(s.race), Running(s.race, w, k), s.race.targetLaps \in Nat,
         \A i \in 1 .. k + Len(batch) : w[i].at \in Nat,
         \A n \in 1 .. Len(batch) : w[k + n] = batch[n]
  PROVE  LET t == Gates(s, batch) IN
           Along(t, w, k + Len(batch), s) /\ Whose(t.race) = Whose(s.race)
  <1>1. PICK f : /\ f[0] = s
                 /\ \A n \in 1 .. Len(batch) : f[n] = Gate(f[n - 1], batch[n].at)
                 /\ Gates(s, batch) = f[Len(batch)]
    <2>1. Len(batch) \in Nat
      OBVIOUS
    <2> QED
      BY ONLY <2>1, GatesAre
  <1> DEFINE P == {n \in Nat : Along(f[n], w, k + n, s) /\ Whose(f[n].race) = Whose(s.race)}
  <1>2. 0 \in P
    <2>1. k + 0 = k
      OBVIOUS
    <2> QED
      BY <1>1, <2>1 DEF Along
  <1>3. ASSUME NEW n \in 0 .. Len(batch) - 1, n \in P PROVE n + 1 \in P
    <2>1. n + 1 \in 1 .. Len(batch) /\ (n + 1) - 1 = n /\ k + n \in Nat /\ (k + n) + 1 = k + (n + 1) /\ n \in Nat
          /\ n + 1 \in Nat
      OBVIOUS
    <2>2. f[n + 1] = Gate(f[n], w[(k + n) + 1].at)
      BY <1>1, <2>1
    <2>3. \A i \in 1 .. (k + n) + 1 : w[i].at \in Nat
      BY <2>1
    <2>4. Along(f[n], w, k + n, s) /\ Whose(f[n].race) = Whose(s.race)
      BY <1>3
    <2>5. f[n].race.targetLaps \in Nat
      BY <2>4 DEF Whose
    <2>6. Along(f[n + 1], w, (k + n) + 1, s) /\ Whose(f[n + 1].race) = Whose(f[n].race)
      <3> DEFINE u == f[n]
                 m == k + n
      <3>1. m \in Nat /\ Along(u, w, m, s) /\ u.race.targetLaps \in Nat /\ \A i \in 1 .. m + 1 : w[i].at \in Nat
        BY <2>1, <2>3, <2>4, <2>5
      <3>2. f[n + 1] = Gate(u, w[m + 1].at)
        BY <2>2
      <3> HIDE DEF u, m
      <3>3. Along(Gate(u, w[m + 1].at), w, m + 1, s) /\ Whose(Gate(u, w[m + 1].at).race) = Whose(u.race)
        BY <3>1, AlongOne
      <3> QED
        BY <3>2, <3>3 DEF u, m
    <2> QED
      BY <2>1, <2>4, <2>6
  <1>4. Len(batch) \in P
    <2>1. \A n \in 0 .. Len(batch) - 1 : n \in P => n + 1 \in P
      BY <1>3
    <2> HIDE DEF P
    <2>2. \A n \in 0 .. Len(batch) : n \in P
      BY <1>2, <2>1, Upward
    <2> QED
      BY <2>2
  <1> QED
    BY <1>1, <1>4

-----------------------------------------------------------------------------
(* What a task's passes are, in the buffer and out of it.                   *)

LEMMA MinIs ==
  ASSUME NEW S \in SUBSET Int, NEW m \in S, \A y \in S : m <= y
  PROVE  Min(S) = m
  <1>1. \A x \in S : (\A y \in S : x <= y) => x = m
    OBVIOUS
  <1> QED
    BY <1>1 DEF Min

LEMMA MinOfTwo ==
  ASSUME NEW a \in Int, NEW b \in Int
  PROVE  Min({a, b}) = IF a <= b THEN a ELSE b
  <1>1. CASE a <= b
    BY <1>1, MinIs
  <1>2. CASE ~(a <= b)
    BY <1>2, MinIs
  <1> QED
    BY <1>1, <1>2

LEMMA BatchIs ==
  ASSUME passCounter \in Nat, clock \in Nat, NEW batch \in Batches
  PROVE  /\ batch \in Seq(PassSet) /\ Len(batch) \in 1 .. 2
         /\ \A i \in 1 .. Len(batch) : batch[i].id = passCounter + i /\ batch[i].at = clock
  <1> DEFINE S == [id : passCounter + 1 .. passCounter + 2, uid : Cars \cup {None}, mph : Speeds, at : {clock}]
  <1>1. batch \in SeqOf(S, 2) /\ batch # <<>> /\ \A i \in DOMAIN batch : batch[i].id = passCounter + i
    BY DEF Batches
  <1>2. PICK m \in 0 .. 2 : batch \in [1 .. m -> S]
    <2> HIDE DEF S
    <2> QED
      BY <1>1 DEF SeqOf
  <1>3. S \subseteq PassSet /\ \A x \in S : x.at = clock
    BY DEF PassSet
  <1> HIDE DEF S
  <1>4. batch \in Seq(S) /\ Len(batch) = m
    BY <1>2
  <1>5. m # 0
    BY <1>1, <1>4
  <1>6. batch \in Seq(PassSet)
    BY <1>3, <1>4
  <1>7. \A i \in 1 .. Len(batch) : batch[i] \in S /\ i \in DOMAIN batch
    BY <1>2, <1>4
  <1> QED
    BY <1>1, <1>3, <1>4, <1>5, <1>6, <1>7

\* A batch goes in front of what the buffer has, newest first, and is not cut.
LEMMA RecordedIs ==
  ASSUME NEW buffer \in Seq(PassSet), NEW batch \in Seq(PassSet), Len(batch) \in 1 .. 2
  PROVE  LET new == Recorded(buffer, batch) IN
           /\ new \in Seq(PassSet) /\ Len(new) <= MAX_PASSES
           /\ Len(batch) <= Len(new) /\ Len(new) <= Len(batch) + Len(buffer)
           /\ \A i \in 1 .. Len(new) :
                new[i] = IF i <= Len(batch) THEN batch[(Len(batch) - i) + 1] ELSE buffer[i - Len(batch)]
  <1> DEFINE newest == Reverse(batch) \o buffer
             M == Min({Len(newest), MAX_PASSES})
             new == Recorded(buffer, batch)
  <1>1. /\ Reverse(batch) \in Seq(PassSet) /\ Len(Reverse(batch)) = Len(batch)
        /\ \A i \in 1 .. Len(batch) : Reverse(batch)[i] = batch[(Len(batch) - i) + 1]
    BY DEF Reverse
  <1>2. /\ newest \in Seq(PassSet) /\ Len(newest) = Len(batch) + Len(buffer)
        /\ \A i \in 1 .. Len(newest) :
             newest[i] = IF i <= Len(batch) THEN batch[(Len(batch) - i) + 1] ELSE buffer[i - Len(batch)]
    BY <1>1
  <1>3. MAX_PASSES \in Nat /\ MAX_PASSES >= 2
    BY SizesAssumption, BatchAssumption
  <1>4. new = SubSeq(newest, 1, M)
    BY DEF Recorded
  <1>5. M = IF Len(newest) <= MAX_PASSES THEN Len(newest) ELSE MAX_PASSES
    <2>1. Len(newest) \in Nat
      BY <1>2
    <2> DEFINE a == Len(newest)
    <2> HIDE DEF a
    <2>2. a \in Int /\ MAX_PASSES \in Int
      BY <1>3, <2>1 DEF a
    <2>3. Min({a, MAX_PASSES}) = IF a <= MAX_PASSES THEN a ELSE MAX_PASSES
      BY <2>2, MinOfTwo
    <2> HIDE DEF newest
    <2> QED
      BY <2>3, Zenon DEF a
  <1> HIDE DEF M, newest, new
  <1>6. M \in 0 .. Len(newest) /\ Len(newest) \in Nat
    BY <1>2, <1>3, <1>5
  <1>7. new \in Seq(PassSet) /\ Len(new) = M /\ \A i \in 1 .. M : new[i] = newest[i]
    BY <1>2, <1>4, <1>6
  <1>8. Len(batch) <= M /\ M <= MAX_PASSES /\ M <= Len(newest)
    BY <1>2, <1>3, <1>5
  <1>9. \A i \in 1 .. M : i \in 1 .. Len(newest)
    BY <1>6
  <1>10. \A i \in 1 .. Len(new) :
           new[i] = IF i <= Len(batch) THEN batch[(Len(batch) - i) + 1] ELSE buffer[i - Len(batch)]
    BY <1>2, <1>7, <1>9
  <1> QED
    BY <1>2, <1>7, <1>8, <1>10 DEF new

\* What the effect takes for fresh is the batch, when it had seen the rest.
LEMMA FreshIs ==
  ASSUME NEW buffer \in Seq(PassSet), NEW batch \in Seq(PassSet), Len(batch) \in 1 .. 2,
         lastSeenPassId \in Nat,
         \A i \in 1 .. Len(buffer) : buffer[i].id <= lastSeenPassId,
         \A i \in 1 .. Len(batch) : batch[i].id > lastSeenPassId
  PROVE  Fresh(Recorded(buffer, batch)) = batch
  <1> DEFINE new == Recorded(buffer, batch)
             known == {i \in DOMAIN new : new[i].id <= lastSeenPassId}
             nb == Len(batch)
             to == IF known = {} THEN Len(new) ELSE Min(known) - 1
  <1>1. /\ new \in Seq(PassSet) /\ nb <= Len(new) /\ Len(new) <= nb + Len(buffer)
        /\ \A i \in 1 .. Len(new) : new[i] = IF i <= nb THEN batch[(nb - i) + 1] ELSE buffer[i - nb]
    BY RecordedIs
  <1>2. nb \in Nat /\ nb >= 1 /\ Len(new) \in Nat /\ Len(buffer) \in Nat /\ DOMAIN new = 1 .. Len(new)
    <2>1. new \in Seq(PassSet)
      BY <1>1
    <2> HIDE DEF new, known
    <2>2. Len(new) \in Nat /\ DOMAIN new = 1 .. Len(new)
      BY <2>1
    <2>3. Len(buffer) \in Nat /\ nb \in Nat /\ nb >= 1
      OBVIOUS
    <2> QED
      BY <2>2, <2>3
  <1>3. \A i \in 1 .. Len(batch) : batch[i].id \in Nat
    <2>1. \A i \in 1 .. Len(batch) : batch[i] \in PassSet
      OBVIOUS
    <2> QED
      BY <2>1 DEF PassSet
  <1> HIDE DEF new
  <1>4. Fresh(new) = Reverse(SubSeq(new, 1, to))
    BY Zenon DEF Fresh
  <1>5. ASSUME NEW i \in 1 .. Len(new) PROVE i \in known <=> i > nb
    <2>1. CASE i <= nb
      <3>1. (nb - i) + 1 \in 1 .. nb /\ new[i] = batch[(nb - i) + 1]
        BY <1>1, <1>2, <2>1
      <3>2. ~(new[i].id <= lastSeenPassId)
        BY <3>1, <1>3
      <3> QED
        BY <3>2, <2>1, <1>2
    <2>2. CASE ~(i <= nb)
      <3>1. i - nb \in 1 .. Len(buffer) /\ new[i] = buffer[i - nb]
        BY <1>1, <1>2, <2>2
      <3> QED
        BY <3>1, <2>2, <1>2
    <2> QED
      BY <2>1, <2>2
  <1>6. known \subseteq 1 .. Len(new)
    BY <1>2
  <1> HIDE DEF known
  <1>7. to = nb
    <2>1. CASE known = {}
      <3>1. ~(nb < Len(new))
        BY <1>5, <1>2, <2>1
      <3> QED
        BY <3>1, <2>1, <1>1, <1>2
    <2>2. CASE known # {}
      <3>3. \A y \in known : nb + 1 <= y /\ nb + 1 \in 1 .. Len(new)
        <4> TAKE y \in known
        <4>1. y \in 1 .. Len(new) /\ y > nb
          BY <1>5, <1>6
        <4> QED
          BY <4>1, <1>2
      <3>1. nb + 1 \in known /\ \A y \in known : nb + 1 <= y
        <4>1. nb + 1 \in 1 .. Len(new) /\ nb + 1 > nb
          BY <3>3, <2>2, <1>2
        <4>2. nb + 1 \in known
          BY <4>1, <1>5
        <4> QED
          BY <4>2, <3>3
      <3>0. known \in SUBSET Int
        BY <1>6
      <3>2. Min(known) = nb + 1
        <4> DEFINE m == nb + 1
        <4>1. m \in known /\ \A y \in known : m <= y
          BY <3>1
        <4> HIDE DEF m
        <4> QED
          BY <4>1, <3>0, MinIs DEF m
      <3> QED
        BY <3>2, <2>2, <1>2
    <2> QED
      BY <2>1, <2>2
  <1> HIDE DEF to
  <1>8. /\ SubSeq(new, 1, nb) \in Seq(PassSet) /\ Len(SubSeq(new, 1, nb)) = nb
        /\ \A i \in 1 .. nb : SubSeq(new, 1, nb)[i] = batch[(nb - i) + 1]
    BY <1>1, <1>2
  <1> DEFINE head == SubSeq(new, 1, nb)
  <1>9. Fresh(new) = [i \in 1 .. nb |-> head[(nb - i) + 1]]
    BY <1>4, <1>7, <1>8 DEF Reverse
  <1>10. \A i \in 1 .. nb : head[(nb - i) + 1] = batch[i]
    <2> TAKE i \in 1 .. nb
    <2>1. (nb - i) + 1 \in 1 .. nb /\ (nb - ((nb - i) + 1)) + 1 = i
      BY <1>2
    <2> QED
      BY <1>8, <2>1
  <1>11. batch = [i \in 1 .. nb |-> batch[i]]
    OBVIOUS
  <1> HIDE DEF head
  <1> QED
    BY <1>9, <1>10, <1>11 DEF new

-----------------------------------------------------------------------------
(* The board.                                                               *)

\* j is ranked before i.
Before(res, j, i) == res[j].total < res[i].total \/ (res[j].total = res[i].total /\ j < i)

\* Those of the first n that are, and where that puts i.
Ahead(res, n, i) == {j \in 1 .. n : Before(res, j, i)}
PlaceOf(res, n, i) == 1 + Cardinality(Ahead(res, n, i))

\* The board of the first n results.
Ranked(board, res, n) ==
  /\ Len(board) = IF n <= MAX_LEADERBOARD THEN n ELSE MAX_LEADERBOARD
  /\ \A i \in 1 .. n : PlaceOf(res, n, i) <= MAX_LEADERBOARD => board[PlaceOf(res, n, i)] = res[i]

LEMMA PlaceIsOne ==
  ASSUME NEW n \in Nat, NEW res, \A i \in 1 .. n : res[i].total \in Int, NEW i \in 1 .. n
  PROVE  IsFiniteSet(Ahead(res, n, i)) /\ Cardinality(Ahead(res, n, i)) \in Nat /\ PlaceOf(res, n, i) \in 1 .. n
  <1>1. IsFiniteSet(1 .. n) /\ Cardinality(1 .. n) = n
    BY FS_Interval
  <1>2. Ahead(res, n, i) \in SUBSET (1 .. n) /\ i \notin Ahead(res, n, i)
    BY DEF Ahead, Before
  <1> DEFINE A == Ahead(res, n, i)
  <1> HIDE DEF A
  <1>3. /\ IsFiniteSet(A) /\ Cardinality(A) <= n /\ (n = Cardinality(A) => 1 .. n = A)
    BY <1>1, <1>2, FS_Subset DEF A
  <1>4. Cardinality(A) \in Nat
    BY <1>3, FS_CardinalityType
  <1>5. Cardinality(A) # n
    BY <1>2, <1>3 DEF A
  <1> QED
    BY <1>3, <1>4, <1>5 DEF PlaceOf, A

\* Places are in the order.
LEMMA PlacesRise ==
  ASSUME NEW n \in Nat, NEW res, \A i \in 1 .. n : res[i].total \in Int,
         NEW i \in 1 .. n, NEW j \in 1 .. n, Before(res, i, j)
  PROVE  PlaceOf(res, n, i) < PlaceOf(res, n, j)
  <1> DEFINE A == Ahead(res, n, i)
             B == Ahead(res, n, j)
  <1>1. A \in SUBSET B /\ i \in B /\ i \notin A
    BY DEF Ahead, Before
  <1>2. /\ IsFiniteSet(B) /\ Cardinality(A) \in Nat /\ Cardinality(B) \in Nat
    BY PlaceIsOne
  <1> HIDE DEF A, B
  <1>3. Cardinality(A) <= Cardinality(B) /\ (Cardinality(B) = Cardinality(A) => B = A)
    BY <1>1, <1>2, FS_Subset
  <1>4. Cardinality(A) < Cardinality(B)
    BY <1>1, <1>2, <1>3
  <1> QED
    BY <1>2, <1>4 DEF PlaceOf, A, B

LEMMA OneOrOther ==
  ASSUME NEW n \in Nat, NEW res, \A i \in 1 .. n : res[i].total \in Int,
         NEW i \in 1 .. n, NEW j \in 1 .. n, i # j
  PROVE  Before(res, i, j) \/ Before(res, j, i)
  BY DEF Before

LEMMA PlacesDiffer ==
  ASSUME NEW n \in Nat, NEW res, \A i \in 1 .. n : res[i].total \in Int,
         NEW i \in 1 .. n, NEW j \in 1 .. n, PlaceOf(res, n, i) = PlaceOf(res, n, j)
  PROVE  i = j
  <1>1. PlaceOf(res, n, i) \in Int
    BY PlaceIsOne
  <1>2. ASSUME i # j PROVE FALSE
    <2>1. PlaceOf(res, n, i) < PlaceOf(res, n, j) \/ PlaceOf(res, n, j) < PlaceOf(res, n, i)
      BY <1>2, OneOrOther, PlacesRise
    <2> QED
      BY <1>1, <2>1
  <1> QED
    BY <1>2

\* Every place is someone's.
LEMMA PlacesFilled ==
  ASSUME NEW n \in Nat, NEW res, \A i \in 1 .. n : res[i].total \in Int, NEW k \in 1 .. n
  PROVE  \E i \in 1 .. n : PlaceOf(res, n, i) = k
  <1> SUFFICES ASSUME \A i \in 1 .. n : PlaceOf(res, n, i) # k PROVE FALSE
    OBVIOUS
  <1> DEFINE S == 1 .. n
             T == S \ {k}
             f == [i \in S |-> PlaceOf(res, n, i)]
  <1>1. IsFiniteSet(S) /\ Cardinality(S) = n
    BY FS_Interval
  <1>2. IsFiniteSet(T) /\ Cardinality(T) = n - 1
    <2> HIDE DEF S
    <2>1. k \in S
      BY DEF S
    <2> QED
      BY <1>1, <2>1, FS_RemoveElement
  <1>3. f \in [S -> T]
    <2>1. \A i \in S : PlaceOf(res, n, i) \in T
      BY PlaceIsOne
    <2> QED
      BY <2>1
  <1> HIDE DEF S, T, f
  <1>4. PICK x \in S, y \in S : x # y /\ f[x] = f[y]
    <2>1. Cardinality(T) < Cardinality(S)
      BY <1>1, <1>2
    <2> QED
      BY <1>1, <1>2, <1>3, <2>1, FS_PigeonHole
  <1>5. PlaceOf(res, n, x) = PlaceOf(res, n, y)
    BY <1>4 DEF f
  <1> QED
    BY <1>4, <1>5, PlacesDiffer DEF S

LEMMA SizeIs == MAX_LEADERBOARD \in Nat /\ MAX_LEADERBOARD > 0
  <1>1. MAX_LEADERBOARD \in Nat \ {0}
    BY SizesAssumption
  <1> QED
    BY <1>1

LEMMA RankAllIs ==
  ASSUME NEW S, NEW res \in Seq(S), \A i \in 1 .. Len(res) : res[i].total \in Int
  PROVE  RankAll(res) \in Seq(S) /\ Ranked(RankAll(res), res, Len(res))
  <1> DEFINE n == Len(res)
             size == IF n <= MAX_LEADERBOARD THEN n ELSE MAX_LEADERBOARD
             at(k) == CHOOSE i \in 1 .. n : PlaceOf(res, n, i) = k
             board == [k \in 1 .. size |-> res[at(k)]]
  <1>1. n \in Nat /\ DOMAIN res = 1 .. n
    OBVIOUS
  <1>2. \A i \in 1 .. n : Place(res, i) = PlaceOf(res, n, i)
    BY <1>1, Zenon DEF Place, PlaceOf, Ahead, Before
  <1>3. Min({n, MAX_LEADERBOARD}) = size
    <2> HIDE DEF n
    <2> QED
      BY <1>1, SizeIs, MinOfTwo
  <1>4. size \in 0 .. n /\ size <= MAX_LEADERBOARD
    BY <1>1, SizeIs
  <1>5. ASSUME NEW k \in 1 .. n PROVE at(k) \in 1 .. n /\ PlaceOf(res, n, at(k)) = k
    <2> HIDE DEF n
    <2>1. \E i \in 1 .. n : PlaceOf(res, n, i) = k
      BY <1>1, PlacesFilled DEF n
    <2> QED
      BY <2>1
  <1>6. RankAll(res) = board
    <2>1. \A k : (CHOOSE i \in DOMAIN res : Place(res, i) = k) = at(k)
      <3> TAKE k
      <3>1. \A i : (i \in DOMAIN res /\ Place(res, i) = k) <=> (i \in 1 .. n /\ PlaceOf(res, n, i) = k)
        BY <1>1, <1>2
      <3> QED
        BY <3>1, Zenon
    <2> DEFINE pick(k) == CHOOSE i \in DOMAIN res : Place(res, i) = k
               top == Min({n, MAX_LEADERBOARD})
    <2>2. RankAll(res) = [k \in 1 .. top |-> res[pick(k)]]
      BY Zenon DEF RankAll
    <2> HIDE DEF at, size, pick, top
    <2>3. \A k : pick(k) = at(k)
      BY <2>1 DEF pick
    <2>4. top = size
      BY <1>3 DEF top
    <2> QED
      BY <2>2, <2>3, <2>4
  <1> HIDE DEF n, at, size
  <1>7. board \in Seq(S) /\ Len(board) = size
    <2>1. \A k \in 1 .. size : k \in 1 .. n /\ res[at(k)] \in S
      BY <1>1, <1>4, <1>5 DEF n
    <2> QED
      BY <1>4, <2>1
  <1>8. ASSUME NEW i \in 1 .. n, PlaceOf(res, n, i) <= MAX_LEADERBOARD PROVE board[PlaceOf(res, n, i)] = res[i]
    <2> DEFINE k == PlaceOf(res, n, i)
    <2>1. k \in 1 .. n
      BY <1>1, PlaceIsOne DEF n
    <2> HIDE DEF k
    <2>2. k \in 1 .. size
      BY <1>8, <2>1, <1>1, SizeIs DEF size, k
    <2>3. at(k) = i
      BY <1>5, <2>1, <1>1, PlacesDiffer DEF k, n
    <2> QED
      BY <2>2, <2>3 DEF k
  <1> QED
    BY <1>6, <1>7, <1>8 DEF Ranked, n, size

\* One more result: those it is faster than go down by one.
LEMMA PlaceNext ==
  ASSUME NEW n \in Nat, NEW res, \A i \in 1 .. n + 1 : res[i].total \in Int, NEW i \in 1 .. n
  PROVE  PlaceOf(res, n + 1, i) =
           IF res[i].total <= res[n + 1].total THEN PlaceOf(res, n, i) ELSE PlaceOf(res, n, i) + 1
  <1> DEFINE A == Ahead(res, n, i)
             B == Ahead(res, n + 1, i)
  <1>1. IsFiniteSet(A) /\ Cardinality(A) \in Nat
    BY PlaceIsOne
  <1>2. i \in 1 .. n + 1 /\ n + 1 \in 1 .. n + 1 /\ res[i].total \in Int /\ res[n + 1].total \in Int /\ i < n + 1
    OBVIOUS
  <1>3. 1 .. n + 1 = (1 .. n) \cup {n + 1} /\ n + 1 \notin 1 .. n
    OBVIOUS
  <1>4. Before(res, n + 1, i) <=> ~(res[i].total <= res[n + 1].total)
    BY <1>2 DEF Before
  <1>5. n + 1 \notin A
    BY <1>3 DEF Ahead
  <1>6. CASE res[i].total <= res[n + 1].total
    <2>1. B = A
      BY <1>3, <1>4, <1>6 DEF Ahead
    <2> QED
      BY <1>6, <2>1 DEF PlaceOf
  <1>7. CASE ~(res[i].total <= res[n + 1].total)
    <2>1. B = A \cup {n + 1}
      BY <1>3, <1>4, <1>7 DEF Ahead
    <2> HIDE DEF A, B
    <2>2. Cardinality(B) = Cardinality(A) + 1
      BY <1>1, <1>5, <2>1, FS_AddElement
    <2> QED
      BY <1>1, <1>7, <2>2 DEF PlaceOf, A, B
  <1> QED
    BY <1>6, <1>7

\* Those not slower than a total have the first places.
LEMMA FirstPlaces ==
  ASSUME NEW n \in Nat, NEW res, \A i \in 1 .. n : res[i].total \in Int, NEW t \in Int
  PROVE  LET a == Cardinality({j \in 1 .. n : res[j].total <= t}) IN
           /\ a \in 0 .. n
           /\ \A i \in 1 .. n : res[i].total <= t <=> PlaceOf(res, n, i) <= a
  <1> DEFINE A == {j \in 1 .. n : res[j].total <= t}
             a == Cardinality(A)
  <1>1. IsFiniteSet(1 .. n) /\ Cardinality(1 .. n) = n
    BY FS_Interval
  <1>2. A \in SUBSET (1 .. n) /\ \A j \in 1 .. n : j \in A <=> res[j].total <= t
    OBVIOUS
  <1> HIDE DEF A
  <1>3. IsFiniteSet(A) /\ a \in 0 .. n
    <2>1. IsFiniteSet(A) /\ a <= n
      BY <1>1, <1>2, FS_Subset
    <2> QED
      BY <2>1, FS_CardinalityType
  <1>4. ASSUME NEW i \in 1 .. n PROVE res[i].total <= t <=> PlaceOf(res, n, i) <= a
    <2> DEFINE B == Ahead(res, n, i)
    <2>1. IsFiniteSet(B) /\ Cardinality(B) \in Nat /\ i \notin B
      BY PlaceIsOne DEF Ahead, Before
    <2>2. \A j \in 1 .. n : j \in B <=> Before(res, j, i)
      BY DEF Ahead
    <2>3. B \in SUBSET (1 .. n)
      BY DEF Ahead
    <2>4. PlaceOf(res, n, i) = 1 + Cardinality(B)
      BY DEF PlaceOf
    <2> HIDE DEF B
    <2>5. CASE res[i].total <= t
      <3>1. B \cup {i} \in SUBSET A
        BY <1>2, <2>2, <2>3, <2>5 DEF Before
      <3>2. Cardinality(B \cup {i}) = Cardinality(B) + 1
        BY <2>1, FS_AddElement
      <3>3. Cardinality(B \cup {i}) <= a
        BY <1>3, <3>1, FS_Subset
      <3> QED
        BY <1>3, <2>1, <2>4, <2>5, <3>2, <3>3
    <2>6. CASE ~(res[i].total <= t)
      <3>1. A \in SUBSET B
        BY <1>2, <2>2, <2>6 DEF Before
      <3>2. a <= Cardinality(B)
        BY <2>1, <3>1, FS_Subset
      <3> QED
        BY <1>3, <2>1, <2>4, <2>6, <3>2
    <2> QED
      BY <2>5, <2>6
  <1> QED
    BY <1>3, <1>4 DEF A

\* The board is all one has to know: a result that fell off it never comes back.
LEMMA InsertIs ==
  ASSUME NEW S, NEW board \in Seq(S), NEW n \in Nat, NEW res, \A i \in 1 .. n + 1 : res[i].total \in Int,
         res[n + 1] \in S, Ranked(board, res, n)
  PROVE  LET new == RankInsert(board, res[n + 1]) IN new \in Seq(S) /\ Ranked(new, res, n + 1)
  <1> DEFINE r == res[n + 1]
             L == Len(board)
             b == Append(board, r)
             a == Cardinality({j \in 1 .. n : res[j].total <= r.total})
             new == RankInsert(board, r)
  <1>1. /\ MAX_LEADERBOARD \in Nat /\ MAX_LEADERBOARD > 0 /\ L \in Nat /\ L <= n /\ L <= MAX_LEADERBOARD
        /\ L = n \/ L = MAX_LEADERBOARD
    BY SizeIs DEF Ranked
  <1>2. r.total \in Int /\ \A i \in 1 .. n : i \in 1 .. n + 1 /\ res[i].total \in Int
    OBVIOUS
  <1>3. b \in Seq(S) /\ Len(b) = L + 1 /\ b[L + 1] = r /\ \A k \in 1 .. L : b[k] = board[k]
    OBVIOUS
  <1>4. a \in 0 .. n /\ \A i \in 1 .. n : res[i].total <= r.total <=> PlaceOf(res, n, i) <= a
    <2> HIDE DEF r
    <2> QED
      BY <1>2, FirstPlaces
  <1> HIDE DEF r, L, b, a, new
  <1>5. ASSUME NEW k \in 1 .. L
        PROVE  \E i \in 1 .. n : PlaceOf(res, n, i) = k /\ board[k] = res[i]
    <2>1. k \in 1 .. n /\ k <= MAX_LEADERBOARD
      BY <1>1
    <2>2. PICK i \in 1 .. n : PlaceOf(res, n, i) = k
      BY <1>2, <2>1, PlacesFilled
    <2> QED
      BY <2>1, <2>2 DEF Ranked
  <1>6. \A k \in 1 .. L : b[k].total \in Int /\ (b[k].total <= r.total <=> k <= a)
    <2> TAKE k \in 1 .. L
    <2>1. PICK i \in 1 .. n : PlaceOf(res, n, i) = k /\ board[k] = res[i]
      BY <1>5
    <2> QED
      BY <1>2, <1>3, <1>4, <2>1
  <1>7. ASSUME NEW j \in 1 .. L, NEW k \in 1 .. L, j < k PROVE b[j].total <= b[k].total
    <2>1. PICK x \in 1 .. n : PlaceOf(res, n, x) = j /\ board[j] = res[x]
      BY <1>5
    <2>2. PICK y \in 1 .. n : PlaceOf(res, n, y) = k /\ board[k] = res[y]
      BY <1>5
    <2>3. x # y
      BY <1>7, <2>1, <2>2
    <2>4. ~Before(res, y, x)
      <3>1. SUFFICES ASSUME Before(res, y, x) PROVE FALSE
        OBVIOUS
      <3>2. PlaceOf(res, n, y) < PlaceOf(res, n, x)
        BY <1>2, <3>1, PlacesRise
      <3> QED
        BY <3>2, <2>1, <2>2, <1>7
    <2>5. Before(res, x, y)
      BY <1>2, <2>3, <2>4, OneOrOther
    <2>6. res[x].total <= res[y].total
      BY <1>2, <2>5 DEF Before
    <2> QED
      BY <1>3, <2>1, <2>2, <2>6
  <1>8. ASSUME NEW k \in 1 .. L PROVE PlaceOf(b, L, k) = k
    <2>1. Ahead(b, L, k) = 1 .. k - 1
      <3>1. ASSUME NEW j \in 1 .. L PROVE Before(b, j, k) <=> j < k
        <4>1. CASE j < k
          BY <1>6, <1>7, <4>1 DEF Before
        <4>2. CASE j = k
          BY <1>6, <4>2 DEF Before
        <4>3. CASE j > k
          <5>1. b[k].total <= b[j].total
            BY <1>7, <4>3
          <5> QED
            BY <5>1, <1>6, <4>3 DEF Before
        <4> QED
          BY <4>1, <4>2, <4>3
      <3> QED
        BY <1>1, <3>1 DEF Ahead
    <2>2. Cardinality(1 .. k - 1) = k - 1
      <3>1. k - 1 \in Int /\ k >= 1
        OBVIOUS
      <3> QED
        BY <3>1, FS_Interval
    <2> QED
      BY <2>1, <2>2 DEF PlaceOf
  <1>9. \A k \in 1 .. L + 1 : b[k].total \in Int
    <2> TAKE k \in 1 .. L + 1
    <2>1. k \in 1 .. L \/ k = L + 1
      BY <1>1
    <2> QED
      BY <2>1, <1>2, <1>3, <1>6
  <1>10. ASSUME NEW k \in 1 .. L PROVE PlaceOf(b, L + 1, k) = IF k <= a THEN k ELSE k + 1
    <2>1. L \in Nat
      BY <1>1
    <2>2. PlaceOf(b, L + 1, k) = IF b[k].total <= b[L + 1].total THEN PlaceOf(b, L, k) ELSE PlaceOf(b, L, k) + 1
      BY <1>9, <2>1, PlaceNext
    <2> QED
      BY <2>2, <1>3, <1>6, <1>8
  <1>11. PlaceOf(b, L + 1, L + 1) = 1 + (IF a <= L THEN a ELSE L)
    <2> DEFINE m == IF a <= L THEN a ELSE L
    <2>1. Ahead(b, L + 1, L + 1) = 1 .. m
      <3>1. \A j \in 1 .. L : Before(b, j, L + 1) <=> j <= a
        BY <1>1, <1>2, <1>3, <1>6 DEF Before
      <3>2. ~Before(b, L + 1, L + 1)
        BY <1>1, <1>2, <1>3 DEF Before
      <3>3. \A j \in 1 .. L + 1 : j \in 1 .. L \/ j = L + 1
        BY <1>1
      <3>4. \A j : j \in 1 .. m <=> j \in 1 .. L /\ j <= a
        BY <1>1, <1>4
      <3>5. \A j : j \in 1 .. L => j \in 1 .. L + 1
        BY <1>1
      <3> HIDE DEF m
      <3> QED
        BY <3>1, <3>2, <3>3, <3>4, <3>5 DEF Ahead
    <2>2. m \in Nat
      BY <1>1, <1>4
    <2> HIDE DEF m
    <2>3. Cardinality(1 .. m) = m
      BY <2>2, FS_Interval
    <2> QED
      BY <2>1, <2>3 DEF PlaceOf, m
  <1>12. new \in Seq(S) /\ Ranked(new, b, L + 1)
    <2>1. RankAll(b) \in Seq(S) /\ Ranked(RankAll(b), b, Len(b))
      BY <1>3, <1>9, RankAllIs
    <2> QED
      BY <1>3, <2>1 DEF RankInsert, new, b
  <1>13. Len(new) = IF n + 1 <= MAX_LEADERBOARD THEN n + 1 ELSE MAX_LEADERBOARD
    <2>1. Len(new) = IF L + 1 <= MAX_LEADERBOARD THEN L + 1 ELSE MAX_LEADERBOARD
      BY <1>12 DEF Ranked
    <2> QED
      BY <2>1, <1>1
  <1>14. ASSUME NEW k \in 1 .. L + 1, PlaceOf(b, L + 1, k) <= MAX_LEADERBOARD
         PROVE  new[PlaceOf(b, L + 1, k)] = b[k]
    BY <1>12, <1>14 DEF Ranked
  <1>15. ASSUME NEW i \in 1 .. n + 1, PlaceOf(res, n + 1, i) <= MAX_LEADERBOARD
         PROVE  new[PlaceOf(res, n + 1, i)] = res[i]
    <2>1. CASE i = n + 1
      <3>1. PlaceOf(res, n + 1, n + 1) = 1 + a
        <4>1. Ahead(res, n + 1, n + 1) = {j \in 1 .. n : res[j].total <= r.total}
          <5>1. \A j \in 1 .. n : Before(res, j, n + 1) <=> res[j].total <= r.total
            BY <1>2 DEF Before, r
          <5>2. ~Before(res, n + 1, n + 1)
            BY <1>2 DEF Before, r
          <5>3. \A j : j \in 1 .. n + 1 <=> j \in 1 .. n \/ j = n + 1
            OBVIOUS
          <5> QED
            BY <5>1, <5>2, <5>3 DEF Ahead
        <4> QED
          BY <4>1 DEF PlaceOf, a
      <3>2. a <= L /\ L + 1 \in 1 .. L + 1
        BY <1>1, <1>4, <1>15, <2>1, <3>1
      <3>3. PlaceOf(b, L + 1, L + 1) = 1 + a
        BY <1>11, <3>2
      <3>4. new[1 + a] = b[L + 1]
        BY <1>14, <1>15, <2>1, <3>1, <3>2, <3>3
      <3> QED
        BY <2>1, <3>1, <3>4, <1>3 DEF r
    <2>2. CASE i # n + 1
      <3> DEFINE k == PlaceOf(res, n, i)
      <3>1. i \in 1 .. n /\ k \in 1 .. n
        <4>1. i \in 1 .. n
          BY <2>2
        <4> QED
          BY <4>1, <1>2, PlaceIsOne
      <3>2. PlaceOf(res, n + 1, i) = IF k <= a THEN k ELSE k + 1
        BY <3>1, <1>2, <1>4, PlaceNext DEF r
      <3>3. k <= MAX_LEADERBOARD => board[k] = res[i]
        BY <3>1 DEF Ranked
      <3> HIDE DEF k
      <3>4. k <= MAX_LEADERBOARD /\ k \in 1 .. L
        BY <1>1, <1>4, <1>15, <3>1, <3>2
      <3>5. PlaceOf(b, L + 1, k) = PlaceOf(res, n + 1, i) /\ k \in 1 .. L + 1
        BY <1>1, <1>10, <3>2, <3>4
      <3>6. new[PlaceOf(b, L + 1, k)] = b[k]
        BY <1>14, <1>15, <3>5
      <3> QED
        BY <1>3, <3>3, <3>4, <3>5, <3>6
    <2> QED
      BY <2>1, <2>2
  <1> QED
    BY <1>12, <1>13, <1>15 DEF Ranked, new, r

-----------------------------------------------------------------------------
(* The invariant.                                                           *)

\* The buffer holds the newest passes, numbered without a gap.
PortalOK ==
  /\ clock \in 0 .. MaxClock
  /\ passCounter \in 0 .. MaxCrossings /\ lastSeenPassId \in 0 .. passCounter
  /\ passes \in Seq(PassSet) /\ Len(passes) <= MAX_PASSES
  /\ \A i \in 1 .. Len(passes) : passes[i].id = (passCounter - i) + 1 /\ passes[i].at <= clock

\* A race has seen what the buffer holds, whatever it held at "go".
SeenOK == race.phase = "racing" => \A i \in 1 .. Len(passes) : passes[i].id <= lastSeenPassId

\* Time does not go back.
SinceOK ==
  /\ since \in Seq(PassSet)
  /\ \A i \in 1 .. Len(since) : since[i].at <= clock
  /\ \A i, j \in 1 .. Len(since) : i <= j => since[i].at <= since[j].at

CountOK == count \in 0 .. 3 /\ (count > 0 <=> race.phase = "countdown")

RaceFits ==
  /\ IsRace(race)
  /\ race.phase \in {"idle", "countdown", "racing", "finished"}
  /\ race.player \in Players /\ race.targetLaps \in LapOptions /\ race.carUid \in Cars \cup {None}

PhaseOK ==
  /\ race.phase = "idle" => race.result = NoResult /\ race.lapTimes = <<>>
  /\ race.phase = "countdown" => race.result.total \in 0 .. MaxClock \cup {None}
  /\ race.phase = "racing" => Running(race, since, Len(since))
  /\ race.phase = "finished" => Done(race, since, Len(since)) /\ race.result.total \in 0 .. MaxClock

Inv == PortalOK /\ SeenOK /\ SinceOK /\ CountOK /\ RaceFits /\ PhaseOK

LEMMA Bounds == MaxClock \in Nat /\ MaxCrossings \in Nat /\ LapOptions \subseteq Nat
  BY BoundsAssumption, LapsAssumption

LEMMA Positive == \A laps \in LapOptions : laps \in Nat /\ laps > 0
  <1> TAKE laps \in LapOptions
  <1>1. laps \in Nat \ {0}
    BY LapsAssumption
  <1> QED
    BY <1>1

\* A result's total is the time between two crossings.
LEMMA TotalBounded ==
  ASSUME NEW w \in Seq(PassSet), NEW now \in 0 .. MaxClock, \A i \in 1 .. Len(w) : w[i].at <= now,
         \A i, j \in 1 .. Len(w) : i <= j => w[i].at <= w[j].at,
         NEW r, Done(r, w, Len(w))
  PROVE  r.result.total \in 0 .. MaxClock
  <1> DEFINE n == Len(r.lapTimes)
  <1>1. r.lapTimes \in Seq(Int) /\ n \in Nat /\ n < Len(w) /\ w \in Seq(PassSet) /\ Len(w) \in Nat
    BY DEF Done, InLaps
  <1>2. \A i \in 1 .. n + 1 : i \in 1 .. Len(w)
    BY <1>1
  <1>3. \A i \in 1 .. Len(w) : w[i].at \in Nat
    <2>1. \A i \in 1 .. Len(w) : w[i] \in PassSet
      BY <1>1
    <2> QED
      BY <2>1 DEF PassSet
  <1>4. Total(r.lapTimes) = w[n + 1].at - w[1].at
    <2>1. \A i \in 1 .. n + 1 : w[i].at \in Int
      BY <1>2, <1>3
    <2>2. \A i \in 1 .. n : r.lapTimes[i] = w[i + 1].at - w[i].at
      BY DEF Done, InLaps
    <2> QED
      BY <1>1, <2>1, <2>2, Telescopes
  <1>5. 1 \in 1 .. Len(w) /\ n + 1 \in 1 .. Len(w) /\ 1 <= n + 1
    BY <1>1
  <1>6. w[1].at <= w[n + 1].at /\ w[n + 1].at <= now /\ w[1].at \in Nat /\ w[n + 1].at \in Nat
    BY <1>3, <1>5
  <1>7. w[n + 1].at - w[1].at \in 0 .. MaxClock
    BY <1>6, Bounds
  <1> QED
    BY <1>4, <1>7 DEF Done

\* The buffer and its numbers after a task's passes.
LEMMA PortalGoesOn ==
  ASSUME PortalOK, passCounter + 2 <= MaxCrossings, NEW batch \in Batches
  PROVE  LET buffer == Recorded(passes, batch) IN
           /\ buffer \in Seq(PassSet) /\ Len(buffer) <= MAX_PASSES /\ 1 <= Len(buffer)
           /\ passCounter + Len(batch) \in 0 .. MaxCrossings
           /\ passCounter <= passCounter + Len(batch)
           /\ buffer[1].id = passCounter + Len(batch)
           /\ \A i \in 1 .. Len(buffer) :
                buffer[i].id = ((passCounter + Len(batch)) - i) + 1 /\ buffer[i].at <= clock
  <1> DEFINE buffer == Recorded(passes, batch)
             nb == Len(batch)
  <1>1. /\ batch \in Seq(PassSet) /\ nb \in 1 .. 2 /\ passCounter \in Nat /\ clock \in Nat /\ passes \in Seq(PassSet)
        /\ \A i \in 1 .. nb : batch[i].id = passCounter + i /\ batch[i].at = clock
    BY BatchIs, Bounds DEF PortalOK
  <1>2. /\ buffer \in Seq(PassSet) /\ Len(buffer) <= MAX_PASSES
        /\ nb <= Len(buffer) /\ Len(buffer) <= nb + Len(passes)
        /\ \A i \in 1 .. Len(buffer) : buffer[i] = IF i <= nb THEN batch[(nb - i) + 1] ELSE passes[i - nb]
    BY <1>1, RecordedIs
  <1> HIDE DEF buffer
  <1>3. Len(buffer) \in Nat /\ Len(passes) \in Nat /\ nb \in Nat
    BY <1>1, <1>2
  <1>4. ASSUME NEW i \in 1 .. Len(buffer)
        PROVE buffer[i].id = ((passCounter + nb) - i) + 1 /\ buffer[i].at <= clock
    <2>1. CASE i <= nb
      <3>1. (nb - i) + 1 \in 1 .. nb /\ buffer[i] = batch[(nb - i) + 1]
        BY <1>2, <1>3, <2>1
      <3> QED
        BY <3>1, <1>1, <1>3
    <2>2. CASE ~(i <= nb)
      <3>1. i - nb \in 1 .. Len(passes) /\ buffer[i] = passes[i - nb]
        BY <1>2, <1>3, <2>2
      <3>2. buffer[i].id = (passCounter - (i - nb)) + 1 /\ buffer[i].at <= clock
        BY <3>1 DEF PortalOK
      <3> QED
        BY <3>2, <1>1, <1>3
    <2> QED
      BY <2>1, <2>2
  <1>5. 1 \in 1 .. Len(buffer)
    <2>1. nb \in 1 .. 2
      BY <1>1
    <2>2. nb <= Len(buffer)
      BY <1>2
    <2> HIDE DEF nb
    <2> QED
      BY <2>1, <2>2, <1>3
  <1>6. buffer[1].id = passCounter + nb
    BY <1>4, <1>5, <1>1, <1>3
  <1>7. passCounter + nb \in 0 .. MaxCrossings /\ passCounter <= passCounter + nb
    <2>1. nb \in 1 .. 2 /\ passCounter \in Nat /\ MaxCrossings \in Nat /\ passCounter + 2 <= MaxCrossings
      BY <1>1, Bounds
    <2> HIDE DEF nb
    <2> QED
      BY ONLY <2>1
  <1>8. buffer \in Seq(PassSet) /\ Len(buffer) <= MAX_PASSES /\ 1 <= Len(buffer)
    BY <1>2, <1>3, <1>5
  <1> QED
    BY ONLY <1>4, <1>6, <1>7, <1>8 DEF buffer, nb

\* Time goes on over a task's passes.
LEMMA SinceGoesOn ==
  ASSUME SinceOK, clock \in Nat, NEW batch \in Seq(PassSet),
         \A i \in 1 .. Len(batch) : batch[i].at = clock
  PROVE  LET w == since \o batch IN
           /\ w \in Seq(PassSet) /\ Len(w) = Len(since) + Len(batch)
           /\ \A i \in 1 .. Len(since) : w[i] = since[i]
           /\ \A i \in 1 .. Len(batch) : w[Len(since) + i] = batch[i]
           /\ \A i \in 1 .. Len(w) : w[i].at \in Nat /\ w[i].at <= clock
           /\ \A i, j \in 1 .. Len(w) : i <= j => w[i].at <= w[j].at
  <1> DEFINE w == since \o batch
             m == Len(since)
  <1>1. /\ w \in Seq(PassSet) /\ Len(w) = m + Len(batch) /\ m \in Nat /\ Len(batch) \in Nat
        /\ \A i \in 1 .. m : w[i] = since[i]
        /\ \A i \in 1 .. Len(batch) : w[m + i] = batch[i]
    BY DEF SinceOK
  <1> HIDE DEF w
  <1>2. \A i \in 1 .. Len(w) : w[i].at \in Nat
    <2>1. \A i \in 1 .. Len(w) : w[i] \in PassSet
      BY <1>1
    <2> QED
      BY <2>1 DEF PassSet
  <1>3. ASSUME NEW i \in 1 .. Len(w), ~(i <= m) PROVE w[i].at = clock
    <2>1. i - m \in 1 .. Len(batch) /\ i = m + (i - m)
      BY <1>1, <1>3
    <2> QED
      BY <2>1, <1>1
  <1>4. ASSUME NEW i \in 1 .. Len(w), i <= m PROVE i \in 1 .. m /\ w[i] = since[i] /\ w[i].at <= clock
    BY <1>1, <1>4 DEF SinceOK
  <1>5. ASSUME NEW i \in 1 .. Len(w), NEW j \in 1 .. Len(w), i <= j PROVE w[i].at <= w[j].at
    <2>1. CASE j <= m
      <3>1. i <= m
        BY <1>1, <1>5, <2>1
      <3> QED
        BY <1>4, <1>5, <2>1, <3>1 DEF SinceOK
    <2>2. CASE ~(j <= m)
      <3>1. w[j].at = clock /\ (i <= m \/ ~(i <= m))
        BY <1>3, <2>2
      <3> QED
        BY <3>1, <1>3, <1>4
    <2> QED
      BY <2>1, <2>2
  <1>6. \A i \in 1 .. Len(w) : w[i].at <= clock
    BY <1>3, <1>4
  <1> QED
    BY <1>1, <1>2, <1>5, <1>6 DEF w

\* The passes of a task, to a race that is on: it goes on or is over.
LEMMA RaceGoesOn ==
  ASSUME Inv, passCounter + 2 <= MaxCrossings, NEW batch \in Batches, PassesArrive(batch), race.phase = "racing"
  PROVE  /\ since' = since \o batch /\ IsRace(race') /\ Whose(race') = Whose(race)
         /\ \/ Running(race', since', Len(since')) /\ saved' = saved /\ leaderboard' = leaderboard
            \/ /\ Lapped(race', since', Len(since'))
               /\ saved' = Append(saved, race'.result) /\ leaderboard' = RankInsert(leaderboard, race'.result)
  <1> DEFINE buffer == Recorded(passes, batch)
             w == since \o batch
             k == Len(since)
             t == Gates(Store, batch)
  <1>1. /\ batch \in Seq(PassSet) /\ Len(batch) \in 1 .. 2 /\ passCounter \in Nat /\ clock \in Nat
        /\ passes \in Seq(PassSet) /\ lastSeenPassId \in Nat /\ lastSeenPassId <= passCounter
        /\ \A i \in 1 .. Len(batch) : batch[i].id = passCounter + i /\ batch[i].at = clock
    BY BatchIs, Bounds DEF Inv, PortalOK
  <1>2. Fresh(buffer) = batch
    <2>1. \A i \in 1 .. Len(batch) : batch[i].id > lastSeenPassId
      BY <1>1
    <2>2. \A i \in 1 .. Len(passes) : passes[i].id <= lastSeenPassId
      BY DEF Inv, SeenOK
    <2> QED
      BY <1>1, <2>1, <2>2, FreshIs
  <1>3. Becomes(t) /\ since' = w
    BY <1>2 DEF PassesArrive
  <1>4. /\ Len(w) = k + Len(batch) /\ k \in Nat
        /\ \A i \in 1 .. k : w[i] = since[i]
        /\ \A i \in 1 .. Len(batch) : w[k + i] = batch[i]
        /\ \A i \in 1 .. Len(w) : w[i].at \in Nat
    <2>1. SinceOK /\ k \in Nat
      BY DEF Inv, SinceOK
    <2> QED
      BY <1>1, <2>1, SinceGoesOn
  <1>5. Running(race, since, k) /\ IsRace(race) /\ race.targetLaps \in Nat
    BY Bounds DEF Inv, PhaseOK, RaceFits
  <1> HIDE DEF w, t
  <1>6. Running(race, w, k)
    <2>1. \A i \in 1 .. Len(race.lapTimes) : i \in 1 .. k /\ i + 1 \in 1 .. k
      BY <1>4, <1>5 DEF Running, InLaps
    <2>2. k # 0 => k \in 1 .. k
      BY <1>4
    <2>3. \A i \in 1 .. Len(race.lapTimes) : race.lapTimes[i] = w[i + 1].at - w[i].at
      BY <2>1, <1>4, <1>5 DEF Running, InLaps
    <2>4. InLaps(race, w, k)
      BY <2>3, <1>5 DEF Running, InLaps
    <2>5. IF k = 0 THEN race.lastGateAt = None ELSE race.lastGateAt = w[k].at /\ k = Len(race.lapTimes) + 1
      BY <2>2, <1>4, <1>5 DEF Running
    <2> HIDE DEF k
    <2> QED
      BY <1>5, <2>4, <2>5 DEF Running
  <1>7. IsStore(Store) /\ Store.race = race /\ Store.saved = saved /\ Store.board = leaderboard
    BY DEF IsStore, Store
  <1>8. Along(t, w, k + Len(batch), Store) /\ Whose(t.race) = Whose(race)
    <2>1. Len(batch) \in Nat /\ \A i \in 1 .. k + Len(batch) : w[i].at \in Nat
      BY <1>1, <1>4
    <2> HIDE DEF k
    <2> QED
      BY <1>4, <1>5, <1>6, <1>7, <2>1, AlongAll DEF t
  <1>9. race' = t.race /\ saved' = t.saved /\ leaderboard' = t.board
    BY <1>3 DEF Becomes
  <1> QED
    BY <1>3, <1>4, <1>7, <1>8, <1>9 DEF Along, w

\* "Finish": the race is over with the laps it has, or never was.
LEMMA StopEnds ==
  ASSUME Inv, Stop
  PROVE  /\ IsRace(race') /\ Whose(race')[1] = race.player /\ Whose(race')[2] = race.targetLaps
         /\ race'.carUid \in {race.carUid, None}
         /\ \/ /\ race' = CreateRace(race.player, race.targetLaps) /\ since' = <<>>
               /\ saved' = saved /\ leaderboard' = leaderboard
            \/ /\ Done(race', since, Len(since)) /\ race'.result.finishedAt = clock
               /\ saved' = Append(saved, race'.result) /\ since' = since
               /\ leaderboard' = RankInsert(leaderboard, race'.result)
  <1> DEFINE q == FinishRace(race, clock)
             t == Bank(Store, q)
  <1>1. /\ race.phase = "racing" /\ race' = t.race /\ saved' = t.saved /\ leaderboard' = t.board
        /\ since' = IF race'.phase = "idle" THEN <<>> ELSE since
    BY DEF Stop, Becomes
  <1>2. Running(race, since, Len(since)) /\ IsRace(race)
    BY <1>1 DEF Inv, PhaseOK, RaceFits
  <1>3. CASE race.lapTimes = <<>>
    <2>1. q = CreateRace(race.player, race.targetLaps)
      BY <1>3 DEF FinishRace
    <2>2. q.phase = "idle" /\ IsRace(q) /\ Whose(q) = <<race.player, race.targetLaps, None>>
      BY <2>1 DEF CreateRace, IsRace, Whose
    <2> HIDE DEF q
    <2>3. t = [Store EXCEPT !.race = q]
      BY <2>2 DEF Bank
    <2>4. race' = q /\ saved' = saved /\ leaderboard' = leaderboard
      BY <1>1, <2>3 DEF Store
    <2> QED
      BY <1>1, <2>1, <2>2, <2>4 DEF Whose
  <1>4. CASE race.lapTimes # <<>>
    <2>1. q = [race EXCEPT !.phase = "finished", !.result = Summarize(race, race.lapTimes, clock)]
      BY <1>4 DEF FinishRace
    <2>2. /\ IsRace(q) /\ Whose(q) = Whose(race) /\ q.phase = "finished" /\ q.lapTimes = race.lapTimes
          /\ q.targetLaps = race.targetLaps /\ q.result = Summarize(race, race.lapTimes, clock)
      BY <1>2, <2>1 DEF IsRace, Whose
    <2>3. q.result.total = Total(race.lapTimes) /\ q.result.finishedAt = clock
      BY <2>2 DEF Summarize
    <2> HIDE DEF q
    <2>4. Done(q, since, Len(since))
      <3>1. InLaps(q, since, Len(since))
        BY <1>2, <2>2 DEF Running, InLaps
      <3>2. Len(race.lapTimes) < race.targetLaps /\ Len(since) = Len(race.lapTimes) + 1
        BY <1>2, <1>4 DEF Running, InLaps
      <3>3. Len(race.lapTimes) \in Nat /\ race.targetLaps \in Nat
        <4>1. race.lapTimes \in Seq(Int)
          BY <1>2 DEF Running, InLaps
        <4>2. race.targetLaps \in LapOptions
          BY DEF Inv, RaceFits
        <4> QED
          BY <4>1, <4>2, Positive
      <3> QED
        BY <1>4, <2>2, <2>3, <3>1, <3>2, <3>3 DEF Done
    <2>5. t = [race |-> q, board |-> RankInsert(leaderboard, q.result), saved |-> Append(saved, q.result)]
      BY <1>1, <2>2 DEF Bank, Store
    <2>6. race' = q /\ saved' = Append(saved, q.result) /\ leaderboard' = RankInsert(leaderboard, q.result)
      BY <1>1, <2>5
    <2> QED
      BY <1>1, <2>2, <2>3, <2>4, <2>6 DEF Whose
  <1> QED
    BY <1>3, <1>4

LEMMA InitInv == Init => Inv
  <1> SUFFICES ASSUME Init PROVE Inv
    OBVIOUS
  <1>1. PICK p \in Players, laps \in LapOptions : race = CreateRace(p, laps)
    BY DEF Init
  <1>2. PortalOK
    BY Bounds, SizesAssumption DEF Init, PortalOK
  <1>3. SinceOK
    BY DEF Init, SinceOK
  <1>4. race.phase = "idle" /\ SeenOK /\ CountOK /\ RaceFits /\ PhaseOK
    BY <1>1 DEF Init, CreateRace, SeenOK, CountOK, RaceFits, PhaseOK, IsRace
  <1> QED
    BY <1>2, <1>3, <1>4 DEF Inv

\* A race that is idle fits whatever the screen shows.
LEMMA IdleFits ==
  ASSUME NEW p \in Players, NEW laps \in LapOptions, NEW car \in Cars \cup {None},
         race' = [CreateRace(p, laps) EXCEPT !.carUid = car]
  PROVE  RaceFits' /\ PhaseOK' /\ SeenOK' /\ race'.phase = "idle" /\ race'.result = NoResult /\ race'.player = p
  BY DEF CreateRace, RaceFits, PhaseOK, SeenOK, IsRace

LEMMA NextInv == Inv /\ [Next]_vars => Inv'
  <1> SUFFICES ASSUME Inv, [Next]_vars PROVE Inv'
    OBVIOUS
  <1> USE Bounds
  <1>1. PortalOK /\ SeenOK /\ SinceOK /\ CountOK /\ RaceFits /\ PhaseOK
    BY DEF Inv
  <1>0. IsRace(race) /\ race.player \in Players /\ race.targetLaps \in LapOptions /\ race.carUid \in Cars \cup {None}
    BY <1>1 DEF RaceFits
  <1>a. ASSUME UNCHANGED <<passes, passCounter, lastSeenPassId, clock>> PROVE PortalOK'
    BY <1>1, <1>a DEF PortalOK
  <1>b. ASSUME UNCHANGED <<since, clock>> PROVE SinceOK'
    BY <1>1, <1>b DEF SinceOK
  <1>c. ASSUME since' = <<>> PROVE SinceOK'
    BY <1>c DEF SinceOK
  <1>2. ASSUME NEW p \in Players, NEW laps \in LapOptions, NEW car \in Cars \cup {None}, StartCountdown(p, laps, car)
        PROVE  Inv'
    <2>1. race' = [race EXCEPT !.phase = "countdown", !.player = p, !.targetLaps = laps, !.carUid = car]
      BY <1>2 DEF StartCountdown
    <2>2. race'.phase = "countdown" /\ race'.result = race.result /\ RaceFits'
      BY <1>0, <2>1 DEF RaceFits, IsRace
    <2>3. race.result.total \in 0 .. MaxClock \cup {None}
      <3>1. CASE race.phase = "idle"
        BY <1>1, <3>1 DEF PhaseOK, NoResult
      <3>2. CASE race.phase = "finished"
        BY <1>1, <3>2 DEF PhaseOK
      <3> QED
        BY <1>2, <3>1, <3>2 DEF StartCountdown
    <2>4. PhaseOK' /\ SeenOK'
      BY <2>2, <2>3 DEF PhaseOK, SeenOK
    <2>5. CountOK'
      BY <1>2, <2>2 DEF StartCountdown, CountOK
    <2>6. PortalOK' /\ SinceOK'
      BY <1>2, <1>a, <1>c DEF StartCountdown, portal
    <2> QED
      BY <2>2, <2>4, <2>5, <2>6 DEF Inv
  <1>3. ASSUME CountdownTick PROVE Inv'
    <2>1. UNCHANGED <<race, passes, passCounter, lastSeenPassId, clock, since>>
      BY <1>3 DEF CountdownTick, portal
    <2>2. RaceFits' /\ PhaseOK' /\ SeenOK'
      BY <1>1, <2>1 DEF RaceFits, PhaseOK, SeenOK
    <2>3. CountOK'
      BY <1>1, <1>3, <2>1 DEF CountdownTick, CountOK
    <2> QED
      BY <2>1, <2>2, <2>3, <1>a, <1>b DEF Inv
  <1>4. ASSUME StartRacing PROVE Inv'
    <2>1. race' = [race EXCEPT !.phase = "racing", !.lastGateAt = None, !.lapTimes = <<>>, !.result = NoResult]
      BY <1>4 DEF StartRacing
    <2>2. /\ race'.phase = "racing" /\ race'.result = NoResult /\ race'.lapTimes = <<>> /\ race'.lastGateAt = None
          /\ race'.targetLaps = race.targetLaps /\ RaceFits'
      BY <1>0, <2>1 DEF RaceFits, IsRace
    <2>3. since' = <<>> /\ lastSeenPassId' = (IF passes = <<>> THEN 0 ELSE passes[1].id)
          /\ UNCHANGED <<passes, passCounter, clock>> /\ count' = 0
      BY <1>4 DEF StartRacing, portal
    <2>4. race'.targetLaps \in Nat /\ race'.targetLaps > 0
      <3>1. race'.targetLaps \in LapOptions
        BY <1>0, <2>2
      <3> QED
        BY <3>1, Bounds, Positive
    <2>5. PhaseOK'
      BY <2>2, <2>3, <2>4 DEF PhaseOK, Running, InLaps
    <2>6. PortalOK' /\ SeenOK'
      <3>1. CASE passes = <<>>
        <4>1. lastSeenPassId' = 0 /\ Len(passes) = 0
          BY <2>3, <3>1
        <4> QED
          BY <1>1, <2>3, <4>1 DEF PortalOK, SeenOK
      <3>2. CASE passes # <<>>
        <4>1. 1 \in 1 .. Len(passes) /\ Len(passes) \in Nat
          BY <1>1, <3>2 DEF PortalOK
        <4>2. lastSeenPassId' = passCounter /\ passCounter \in Nat
          BY <1>1, <2>3, <3>2, <4>1 DEF PortalOK
        <4> QED
          BY <1>1, <2>3, <4>2 DEF PortalOK, SeenOK
      <3> QED
        BY <3>1, <3>2
    <2>7. CountOK'
      BY <2>2, <2>3 DEF CountOK
    <2> QED
      BY <2>2, <2>3, <2>5, <2>6, <2>7, <1>c DEF Inv
  <1>5. ASSUME Stop PROVE Inv'
    <2>1. UNCHANGED <<passes, passCounter, lastSeenPassId, clock, count>> /\ race.phase = "racing"
      BY <1>5 DEF Stop, portal
    <2>2. count = 0
      BY <1>1, <2>1 DEF CountOK
    <2>3. CASE race' = CreateRace(race.player, race.targetLaps) /\ since' = <<>>
      <3>1. RaceFits' /\ PhaseOK' /\ SeenOK' /\ race'.phase = "idle"
        BY <1>0, <2>3 DEF CreateRace, RaceFits, PhaseOK, SeenOK, IsRace
      <3>2. CountOK'
        BY <2>1, <2>2, <3>1 DEF CountOK
      <3> QED
        BY <2>1, <2>3, <3>1, <3>2, <1>a, <1>c DEF Inv
    <2>4. CASE Done(race', since, Len(since)) /\ since' = since
      <3>1. race'.phase = "finished"
        BY <2>4 DEF Done
      <3>2. RaceFits'
        BY <1>5, <1>0, <3>1, StopEnds DEF RaceFits, Whose
      <3>0. race'.result.total \in 0 .. MaxClock
        BY <1>1, <2>4, TotalBounded DEF SinceOK, PortalOK
      <3>3. PhaseOK' /\ SeenOK' /\ CountOK'
        BY <2>1, <2>2, <2>4, <3>0, <3>1 DEF PhaseOK, SeenOK, CountOK
      <3> QED
        BY <2>1, <2>4, <3>2, <3>3, <1>a, <1>b DEF Inv
    <2> QED
      BY <1>5, <2>3, <2>4, StopEnds
  <1>6. ASSUME Abort PROVE Inv'
    <2>1. since' = <<>> /\ count' = 0 /\ UNCHANGED <<passes, passCounter, lastSeenPassId, clock>>
          /\ race' = [CreateRace(race.player, race.targetLaps) EXCEPT !.carUid = race.carUid]
      BY <1>6 DEF Abort, portal
    <2>2. RaceFits' /\ PhaseOK' /\ SeenOK' /\ race'.phase = "idle"
      BY <1>0, <2>1, IdleFits
    <2>3. CountOK'
      BY <2>1, <2>2 DEF CountOK
    <2> QED
      BY <2>1, <2>2, <2>3, <1>a, <1>c DEF Inv
  <1>7. ASSUME UNCHANGED <<race, screen, portal, clock, since>> PROVE Inv'
    <2>1. UNCHANGED <<race, count, passes, passCounter, lastSeenPassId, clock, since>>
      BY <1>7 DEF screen, portal
    <2>2. RaceFits' /\ PhaseOK' /\ SeenOK' /\ CountOK'
      BY <1>1, <2>1 DEF RaceFits, PhaseOK, SeenOK, CountOK
    <2> QED
      BY <2>1, <2>2, <1>a, <1>b DEF Inv
  <1>8. ASSUME passCounter + 2 <= MaxCrossings, NEW batch \in Batches, PassesArrive(batch) PROVE Inv'
    <2> DEFINE buffer == Recorded(passes, batch)
    <2>1. /\ buffer \in Seq(PassSet) /\ Len(buffer) <= MAX_PASSES /\ 1 <= Len(buffer)
          /\ passCounter + Len(batch) \in 0 .. MaxCrossings
          /\ passCounter <= passCounter + Len(batch)
          /\ buffer[1].id = passCounter + Len(batch)
          /\ \A i \in 1 .. Len(buffer) :
               buffer[i].id = ((passCounter + Len(batch)) - i) + 1 /\ buffer[i].at <= clock
      BY <1>1, <1>8, PortalGoesOn
    <2>2. passes' = buffer /\ passCounter' = passCounter + Len(batch) /\ UNCHANGED <<count, clock>>
      BY <1>8 DEF PassesArrive
    <2> HIDE DEF buffer
    <2>3. CASE race.phase = "racing"
      <3>1. lastSeenPassId' = passCounter'
        BY <1>8, <2>1, <2>2, <2>3 DEF PassesArrive, buffer
      <3>2. PortalOK'
        <4>1. passCounter' \in 0 .. MaxCrossings
          BY <2>1, <2>2
        <4>2. lastSeenPassId' \in 0 .. passCounter'
          BY <3>1, <4>1
        <4>3. clock' \in 0 .. MaxClock
          BY <1>1, <2>2 DEF PortalOK
        <4> QED
          BY <2>1, <2>2, <4>1, <4>2, <4>3 DEF PortalOK
      <3>3. SeenOK'
        <4>1. ASSUME NEW i \in 1 .. Len(buffer) PROVE buffer[i].id <= passCounter'
          <5>1. passCounter' \in Nat
            BY <2>1, <2>2
          <5> QED
            BY <2>1, <2>2, <5>1
        <4> QED
          BY <2>2, <3>1, <4>1 DEF SeenOK
      <3>4. /\ since' = since \o batch /\ IsRace(race') /\ Whose(race') = Whose(race)
            /\ \/ Running(race', since', Len(since'))
               \/ Done(race', since', Len(since'))
        BY <1>8, <2>3, RaceGoesOn DEF Lapped
      <3>5. SinceOK'
        <4>1. batch \in Seq(PassSet) /\ clock \in Nat /\ \A i \in 1 .. Len(batch) : batch[i].at = clock
          BY <1>1, BatchIs DEF PortalOK
        <4> QED
          BY <1>1, <2>2, <3>4, <4>1, SinceGoesOn DEF SinceOK
      <3>6. race'.phase \in {"racing", "finished"}
        BY <3>4 DEF Running, Done
      <3>7. RaceFits' /\ PhaseOK'
        <4>1. Done(race', since', Len(since')) => race'.result.total \in 0 .. MaxClock
          <5>1. clock \in 0 .. MaxClock /\ clock' = clock
            BY <1>1, <2>2 DEF PortalOK
          <5> QED
            BY <3>5, <5>1, TotalBounded DEF SinceOK
        <4>2. PhaseOK'
          BY <3>4, <3>6, <4>1 DEF PhaseOK, Running, Done
        <4> QED
          BY <1>0, <3>4, <3>6, <4>2 DEF RaceFits, Whose
      <3>8. CountOK'
        BY <1>1, <2>2, <2>3, <3>6 DEF CountOK
      <3> QED
        BY <3>2, <3>3, <3>5, <3>7, <3>8 DEF Inv
    <2>4. CASE race.phase # "racing"
      <3>1. UNCHANGED <<race, lastSeenPassId, since>>
        BY <1>8, <2>4 DEF PassesArrive
      <3>2. PortalOK'
        <4>1. passCounter' \in 0 .. MaxCrossings /\ passCounter <= passCounter'
          BY <2>1, <2>2
        <4>2. lastSeenPassId' \in 0 .. passCounter'
          BY <1>1, <3>1, <4>1 DEF PortalOK
        <4>3. clock' \in 0 .. MaxClock
          BY <1>1, <2>2 DEF PortalOK
        <4> QED
          BY <2>1, <2>2, <4>1, <4>2, <4>3 DEF PortalOK
      <3>3. SeenOK' /\ RaceFits' /\ PhaseOK' /\ CountOK'
        BY <1>1, <2>2, <2>4, <3>1 DEF SeenOK, RaceFits, PhaseOK, CountOK
      <3> QED
        BY <2>2, <3>1, <3>2, <3>3, <1>b DEF Inv
    <2> QED
      BY <2>3, <2>4
  <1>9. ASSUME Disconnect PROVE Inv'
    <2>1. passes' = <<>> /\ UNCHANGED <<race, count, lastSeenPassId, passCounter, clock, since>>
      BY <1>9 DEF Disconnect, screen
    <2>2. PortalOK' /\ SeenOK'
      BY <1>1, <2>1, SizesAssumption DEF PortalOK, SeenOK
    <2>3. RaceFits' /\ PhaseOK' /\ CountOK'
      BY <1>1, <2>1 DEF RaceFits, PhaseOK, CountOK
    <2> QED
      BY <2>1, <2>2, <2>3, <1>b DEF Inv
  <1>10. ASSUME Restart PROVE Inv'
    <2>1. /\ since' = <<>> /\ count' = 0 /\ passes' = <<>> /\ passCounter' = 0 /\ lastSeenPassId' = 0
          /\ clock' = clock
      BY <1>10 DEF Restart
    <2>2. PICK laps \in LapOptions : race' = CreateRace(race.player, laps)
      BY <1>10 DEF Restart
    <2>3. RaceFits' /\ PhaseOK' /\ SeenOK' /\ race'.phase = "idle"
      BY <1>0, <2>2 DEF CreateRace, RaceFits, PhaseOK, SeenOK, IsRace
    <2>4. CountOK'
      BY <2>1, <2>3 DEF CountOK
    <2>5. PortalOK'
      BY <1>1, <2>1, SizesAssumption DEF PortalOK
    <2> QED
      BY <2>1, <2>3, <2>4, <2>5, <1>c DEF Inv
  <1>11. ASSUME clock < MaxClock, Tick PROVE Inv'
    <2>1. clock' = clock + 1 /\ UNCHANGED <<race, count, lastSeenPassId, passes, passCounter, since>>
      BY <1>11 DEF Tick, screen, portal
    <2>2. clock \in Nat /\ clock' \in 0 .. MaxClock
      BY <1>1, <1>11, <2>1 DEF PortalOK
    <2>3. PortalOK'
      <3>1. ASSUME NEW i \in 1 .. Len(passes) PROVE passes[i].at <= clock'
        <4>0. passes[i] \in PassSet /\ passes[i].at <= clock
          BY <1>1 DEF PortalOK
        <4>1. passes[i].at \in Nat /\ passes[i].at <= clock
          BY <4>0 DEF PassSet
        <4> QED
          BY <4>1, <2>1, <2>2
      <3> QED
        BY <1>1, <2>1, <2>2, <3>1 DEF PortalOK
    <2>4. SinceOK'
      <3>1. ASSUME NEW i \in 1 .. Len(since) PROVE since[i].at <= clock'
        <4>0. since[i] \in PassSet /\ since[i].at <= clock
          BY <1>1 DEF SinceOK
        <4>1. since[i].at \in Nat /\ since[i].at <= clock
          BY <4>0 DEF PassSet
        <4> QED
          BY <4>1, <2>1, <2>2
      <3> QED
        BY <1>1, <2>1, <3>1 DEF SinceOK
    <2>5. RaceFits' /\ PhaseOK' /\ CountOK' /\ SeenOK'
      BY <1>1, <2>1 DEF RaceFits, PhaseOK, CountOK, SeenOK
    <2> QED
      BY <2>3, <2>4, <2>5 DEF Inv
  <1>12. CASE UNCHANGED vars
    BY <1>7, <1>12 DEF vars
  <1>13. ASSUME ClearLeaderboard PROVE Inv'
    BY <1>7, <1>13 DEF ClearLeaderboard
  <1>14. CASE Next
    BY <1>2, <1>3, <1>4, <1>5, <1>6, <1>8, <1>9, <1>10, <1>11, <1>13, <1>14 DEF Next
  <1> QED
    BY <1>12, <1>14

LEMMA Invariant == Spec => []Inv
  BY InitInv, NextInv, PTL DEF Spec

-----------------------------------------------------------------------------
(* What follows.                                                            *)

LEMMA MaxOfTwo ==
  ASSUME NEW a \in Int, NEW b \in Int
  PROVE  Max({a, b}) = IF a >= b THEN a ELSE b
  <1>1. ASSUME NEW S \in SUBSET Int, NEW m \in S, \A y \in S : m >= y PROVE Max(S) = m
    <2>1. \A x \in S : (\A y \in S : x >= y) => x = m
      BY <1>1
    <2> QED
      BY <1>1, <2>1 DEF Max
  <1>2. CASE a >= b
    BY <1>1, <1>2
  <1>3. CASE ~(a >= b)
    BY <1>1, <1>3
  <1> QED
    BY <1>2, <1>3

\* The laps are the times between the passes, the start line first
\* (useRaceSession.ts feeding raceEngine.ts).
THEOREM Measured == Spec => []LapsAreCrossings
  <1>1. Inv => LapsAreCrossings
    <2> SUFFICES ASSUME Inv, race.phase \in {"racing", "finished"}
                 PROVE  LET n == Len(race.lapTimes) IN
                          /\ n = Max({0, Len(since) - 1}) \/ (n = race.targetLaps /\ n < Len(since))
                          /\ \A i \in 1 .. n : race.lapTimes[i] = since[i + 1].at - since[i].at
      BY DEF LapsAreCrossings
    <2> DEFINE n == Len(race.lapTimes)
               k == Len(since)
    <2>1. k \in Nat
      BY DEF Inv, SinceOK
    <2>2. Max({0, k - 1}) = IF 0 >= k - 1 THEN 0 ELSE k - 1
      <3> HIDE DEF k
      <3>1. k - 1 \in Int
        BY <2>1
      <3> QED
        BY <3>1, MaxOfTwo
    <2>3. CASE race.phase = "racing"
      <3>1. Running(race, since, k)
        BY <2>3 DEF Inv, PhaseOK
      <3>2. /\ race.lapTimes \in Seq(Int)
            /\ \A i \in 1 .. n : race.lapTimes[i] = since[i + 1].at - since[i].at
            /\ (k = 0 /\ race.lapTimes = <<>>) \/ k = n + 1
        BY <3>1 DEF Running, InLaps
      <3>3. n \in Nat /\ (race.lapTimes = <<>> => n = 0)
        BY <3>2
      <3> HIDE DEF n, k
      <3>4. n = Max({0, k - 1})
        BY <2>1, <2>2, <3>2, <3>3
      <3> QED
        BY <3>2, <3>4 DEF n, k
    <2>4. CASE race.phase = "finished"
      <3>1. Done(race, since, k)
        BY <2>4 DEF Inv, PhaseOK
      <3>2. /\ race.lapTimes \in Seq(Int) /\ race.lapTimes # <<>> /\ (n < k \/ race.lapTimes = <<>>)
            /\ \A i \in 1 .. n : race.lapTimes[i] = since[i + 1].at - since[i].at
            /\ k = n + 1 \/ n = race.targetLaps
        BY <3>1 DEF Done, InLaps
      <3>3. n \in Nat /\ n < k
        BY <3>2
      <3> HIDE DEF n, k
      <3>4. n = Max({0, k - 1}) \/ (n = race.targetLaps /\ n < k)
        BY <2>1, <2>2, <3>2, <3>3
      <3> QED
        BY <3>2, <3>4 DEF n, k
    <2> QED
      BY <2>3, <2>4
  <1> QED
    BY <1>1, Invariant, PTL

\* What a step does to the phase, to who races, to the result's total and to
\* what was saved.
LEMMA Steps ==
  ASSUME Inv, [Next]_vars
  PROVE  \/ /\ race.phase \in {"idle", "finished"} /\ race'.phase = "countdown"
            /\ race'.player \in Players /\ race'.result = race.result /\ saved' = saved
         \/ /\ race.phase = "countdown" /\ race'.phase = "racing"
            /\ race'.player = race.player /\ race'.result = NoResult /\ saved' = saved
         \/ /\ race.phase = "racing" /\ race'.phase = "finished"
            /\ race'.player = race.player /\ race'.result.total \in 0 .. MaxClock
            /\ saved' = Append(saved, race'.result)
         \/ /\ race'.phase = "idle" /\ race'.player = race.player /\ race'.result = NoResult /\ saved' = saved
         \/ /\ race'.phase = race.phase /\ race'.player = race.player /\ race'.result = race.result
            /\ saved' \in {saved, <<>>}
  <1>0. IsRace(race) /\ PhaseOK /\ CountOK /\ clock \in 0 .. MaxClock
    BY DEF Inv, RaceFits, PortalOK
  <1>i. Inv'
    BY NextInv
  <1>1. ASSUME NEW p \in Players, NEW laps \in LapOptions, NEW car \in Cars \cup {None}, StartCountdown(p, laps, car)
        PROVE  /\ race.phase \in {"idle", "finished"} /\ race'.phase = "countdown"
               /\ race'.player \in Players /\ race'.result = race.result /\ saved' = saved
    BY <1>0, <1>1 DEF StartCountdown, IsRace
  <1>2. ASSUME StartRacing
        PROVE  /\ race.phase = "countdown" /\ race'.phase = "racing"
               /\ race'.player = race.player /\ race'.result = NoResult /\ saved' = saved
    BY <1>0, <1>2 DEF StartRacing, IsRace, CountOK
  <1>3. race'.phase = "finished" => race'.result.total \in 0 .. MaxClock
    BY <1>i DEF Inv, PhaseOK
  <1>4. ASSUME Stop
        PROVE  \/ /\ race.phase = "racing" /\ race'.phase = "finished"
                  /\ race'.player = race.player /\ saved' = Append(saved, race'.result)
               \/ race'.phase = "idle" /\ race'.player = race.player /\ race'.result = NoResult /\ saved' = saved
    <2>1. race.phase = "racing"
      BY <1>4 DEF Stop
    <2>2. race'.player = race.player
      BY <1>4, StopEnds DEF Whose
    <2> QED
      BY <1>4, <2>1, <2>2, StopEnds DEF Done, CreateRace
  <1>5. ASSUME passCounter + 2 <= MaxCrossings, NEW batch \in Batches, PassesArrive(batch)
        PROVE  \/ /\ race.phase = "racing" /\ race'.phase = "finished"
                  /\ race'.player = race.player /\ saved' = Append(saved, race'.result)
               \/ UNCHANGED <<race.phase, race.player, race.result, saved>>
    <2>1. CASE race.phase = "racing"
      <3>1. /\ Whose(race') = Whose(race)
            /\ \/ Running(race', since', Len(since')) /\ saved' = saved
               \/ Done(race', since', Len(since')) /\ saved' = Append(saved, race'.result)
        BY <1>5, <2>1, RaceGoesOn DEF Lapped
      <3>2. race.result = NoResult
        BY <1>0, <2>1 DEF PhaseOK, Running
      <3> QED
        BY <2>1, <3>1, <3>2 DEF Whose, Running, Done
    <2>2. CASE race.phase # "racing"
      BY <1>5, <2>2 DEF PassesArrive
    <2> QED
      BY <2>1, <2>2
  <1>6. ASSUME Abort \/ Restart
        PROVE  race'.phase = "idle" /\ race'.player = race.player /\ race'.result = NoResult /\ saved' = saved
    BY <1>6 DEF Abort, Restart, CreateRace
  <1>7. ASSUME CountdownTick \/ Disconnect \/ Tick \/ ClearLeaderboard \/ UNCHANGED vars
        PROVE  UNCHANGED <<race.phase, race.player, race.result>> /\ saved' \in {saved, <<>>}
    BY <1>7 DEF CountdownTick, Disconnect, Tick, ClearLeaderboard, vars
  <1>8. CASE Next
    BY <1>1, <1>2, <1>3, <1>4, <1>5, <1>6, <1>7, <1>8 DEF Next
  <1> QED
    BY <1>7, <1>8

\* A result is saved by the step that finishes its race and by no other
\* (raceStore.ts gate(), stop()).
THEOREM BankedOnce == Spec => SavedOnce
  <1> DEFINE once == \/ race.phase = "racing" /\ race'.phase = "finished" /\ saved' = Append(saved, race'.result)
                     \/ ~(race.phase = "racing" /\ race'.phase = "finished") /\ saved' \in {saved, <<>>}
  <1>1. Inv /\ [Next]_vars => once
    BY Steps
  <1> HIDE DEF once
  <1>2. Spec => [][once]_vars
    BY <1>1, Invariant, PTL DEF Spec
  <1> QED
    BY <1>2 DEF SavedOnce, once

\* The session runs races as RaceNight takes them to be (Race): each of its
\* steps is one of Race's on the phase, the player and the total, or none.
THEOREM RunsARace == Spec => ImplementsRace
  <1>1. Init => Abstract!NoRace
    BY DEF Init, CreateRace, NoResult, Abstract!NoRace
  <1>2. Inv /\ [Next]_vars => [Abstract!Next]_(Abstract!race)
    <2> SUFFICES ASSUME Inv, [Next]_vars PROVE [Abstract!Next]_(Abstract!race)
      OBVIOUS
    <2>1. NoResult.total = None
      BY DEF NoResult
    <2>2. CASE race.phase \in {"idle", "finished"} /\ race'.phase = "countdown"
               /\ race'.player \in Players /\ race'.result = race.result
      BY <2>2 DEF Abstract!Next, Abstract!Announce
    <2>3. CASE race.phase = "countdown" /\ race'.phase = "racing" /\ race'.player = race.player /\ race'.result = NoResult
      BY <2>1, <2>3 DEF Abstract!Next, Abstract!Go
    <2>4. CASE race.phase = "racing" /\ race'.phase = "finished"
               /\ race'.player = race.player /\ race'.result.total \in 0 .. MaxClock
      BY <2>4 DEF Abstract!Next, Abstract!FinishWith
    <2>5. CASE race'.phase = "idle" /\ race'.player = race.player /\ race'.result = NoResult
      BY <2>1, <2>5 DEF Abstract!Next, Abstract!Abandon
    <2>6. CASE race'.phase = race.phase /\ race'.player = race.player /\ race'.result = race.result
      BY <2>6 DEF Abstract!race
    <2> QED
      BY <2>2, <2>3, <2>4, <2>5, <2>6, Steps
  <1> QED
    BY <1>1, <1>2, Invariant, PTL DEF Spec, ImplementsRace, Abstract!Spec

-----------------------------------------------------------------------------
(* Speeds.                                                                  *)

\* What the screen has left of the race's passes: the newest of the buffer are
\* the newest since "go", what is under them was there before it.
Tracked(buffer, w, counter) ==
  /\ startSnapshot.at \in Nat
  /\ \A j \in 1 .. Len(w) : w[j].at >= startSnapshot.at
  /\ \A i \in 1 .. Len(buffer) :
       IF i <= Len(w) THEN buffer[i] = w[(Len(w) - i) + 1] ELSE buffer[i].at <= startSnapshot.at
  /\ startSnapshot.lastPassId \in {None, counter - Len(w)}

\* The fastest of the car's passes in w up to fin.
Fastest(w, fin) == Max({p.mph : p \in {q \in ToSet(w) : q.uid = startSnapshot.carUid /\ q.at <= fin}})

TopSpeedOK == race.phase = "finished" /\ topSpeed # None => topSpeed = Fastest(since, race.result.finishedAt)

SpeedsOK ==
  /\ startSnapshot.at \in 0 .. clock
  /\ race.phase = "racing" => Tracked(passes, since, passCounter)
  /\ TopSpeedOK

LEMMA TrackedGoesOn ==
  ASSUME Inv, passCounter + 2 <= MaxCrossings, NEW batch \in Batches, Tracked(passes, since, passCounter),
         startSnapshot.at <= clock
  PROVE  Tracked(Recorded(passes, batch), since \o batch, passCounter + Len(batch))
  <1> DEFINE buffer == Recorded(passes, batch)
             w == since \o batch
             nb == Len(batch)
             k == Len(since)
  <1>1. /\ batch \in Seq(PassSet) /\ nb \in 1 .. 2 /\ passCounter \in Nat /\ clock \in Nat /\ passes \in Seq(PassSet)
        /\ \A i \in 1 .. nb : batch[i].at = clock
    BY BatchIs, Bounds DEF Inv, PortalOK
  <1>2. /\ Len(buffer) \in Nat /\ nb <= Len(buffer) /\ Len(buffer) <= nb + Len(passes)
        /\ \A i \in 1 .. Len(buffer) : buffer[i] = IF i <= nb THEN batch[(nb - i) + 1] ELSE passes[i - nb]
    <2>1. buffer \in Seq(PassSet)
      BY <1>1, RecordedIs
    <2>2. Len(buffer) \in Nat
      <3> HIDE DEF buffer
      <3> QED
        BY <2>1
    <2> QED
      BY <1>1, <2>2, RecordedIs
  <1>3. /\ Len(w) = k + nb /\ k \in Nat
        /\ \A i \in 1 .. k : w[i] = since[i]
        /\ \A i \in 1 .. nb : w[k + i] = batch[i]
    <2>1. SinceOK /\ k \in Nat
      BY DEF Inv, SinceOK
    <2> QED
      BY <1>1, <2>1, SinceGoesOn
  <1>4. Len(passes) \in Nat /\ nb \in Nat
    BY <1>1
  <1> HIDE DEF buffer, w, k, nb
  <1>5. ASSUME NEW j \in 1 .. Len(w) PROVE w[j].at >= startSnapshot.at
    <2>1. CASE j <= k
      <3>1. j \in 1 .. k /\ w[j] = since[j]
        BY <1>3, <1>4, <2>1
      <3> QED
        BY <3>1 DEF Tracked, k
    <2>2. CASE ~(j <= k)
      <3>1. j - k \in 1 .. nb /\ k + (j - k) = j
        BY <1>3, <1>4, <2>2
      <3>2. w[j] = batch[j - k] /\ batch[j - k].at = clock
        BY <3>1, <1>1, <1>3
      <3> QED
        BY <3>2, <1>1 DEF Tracked
    <2> QED
      BY <2>1, <2>2
  <1>6. ASSUME NEW i \in 1 .. Len(buffer)
        PROVE  IF i <= Len(w) THEN buffer[i] = w[(Len(w) - i) + 1] ELSE buffer[i].at <= startSnapshot.at
    <2>1. CASE i <= nb
      <3>1. (nb - i) + 1 \in 1 .. nb /\ k + ((nb - i) + 1) = (Len(w) - i) + 1 /\ i <= Len(w)
        BY <1>2, <1>3, <1>4, <2>1
      <3>2. buffer[i] = batch[(nb - i) + 1]
        BY <1>2, <2>1
      <3> QED
        BY <3>1, <3>2, <1>3
    <2>2. CASE ~(i <= nb)
      <3>1. i - nb \in 1 .. Len(passes) /\ (i <= Len(w) <=> i - nb <= k)
        BY <1>2, <1>3, <1>4, <2>2
      <3>2. buffer[i] = passes[i - nb]
        BY <1>2, <2>2
      <3>3. IF i - nb <= k THEN passes[i - nb] = since[(k - (i - nb)) + 1] ELSE passes[i - nb].at <= startSnapshot.at
        BY <3>1 DEF Tracked, k
      <3>4. CASE i - nb <= k
        <4>1. (k - (i - nb)) + 1 = (Len(w) - i) + 1 /\ (k - (i - nb)) + 1 \in 1 .. k
          BY <3>1, <3>4, <1>2, <1>3, <1>4
        <4> QED
          BY <4>1, <3>1, <3>2, <3>3, <3>4, <1>3
      <3>5. CASE ~(i - nb <= k)
        BY <3>1, <3>2, <3>3, <3>5
      <3> QED
        BY <3>4, <3>5
    <2> QED
      BY <2>1, <2>2
  <1>7. (passCounter + nb) - Len(w) = passCounter - k
    BY <1>1, <1>3, <1>4
  <1>8. Tracked(buffer, w, passCounter + nb)
    BY <1>5, <1>6, <1>7 DEF Tracked, k
  <1> QED
    BY <1>8 DEF buffer, w, nb

\* A top speed is shown only while none of the race's passes was lost.
LEMMA TopSpeedIs ==
  ASSUME NEW buffer \in Seq(PassSet), NEW w \in Seq(PassSet), NEW counter \in Nat, NEW fin \in Nat,
         Tracked(buffer, w, counter), \A j \in 1 .. Len(w) : w[j].at <= fin,
         \A i \in 1 .. Len(buffer) : buffer[i].id = (counter - i) + 1,
         TopSpeed(startSnapshot, buffer, fin) # None
  PROVE  TopSpeed(startSnapshot, buffer, fin) = Fastest(w, fin)
  <1> DEFINE L == Len(w)
             m == IF Len(buffer) <= L THEN Len(buffer) ELSE L
             last == startSnapshot.lastPassId
             window == {p \in ToSet(buffer) : p.id > last /\ p.at >= startSnapshot.at /\ p.at <= fin}
             ids == {p.id : p \in window}
             speeds == {p.mph : p \in {q \in window : q.uid = startSnapshot.carUid}}
  <1>1. /\ last # None /\ ids = last + 1 .. last + Cardinality(ids) /\ speeds # {}
        /\ TopSpeed(startSnapshot, buffer, fin) = Max(speeds)
    BY DEF TopSpeed
  <1>2. L \in Nat /\ Len(buffer) \in Nat /\ m \in Nat /\ m <= L /\ m <= Len(buffer)
    OBVIOUS
  <1>3. last = counter - L /\ last \in Int
    BY <1>1, <1>2 DEF Tracked
  <1>4. \A i \in 1 .. Len(buffer) : buffer[i] \in PassSet /\ buffer[i].id \in Nat /\ buffer[i].at \in Nat
    <2>1. \A i \in 1 .. Len(buffer) : buffer[i] \in PassSet
      OBVIOUS
    <2> QED
      BY <2>1 DEF PassSet
  <1>5. DOMAIN buffer = 1 .. Len(buffer) /\ DOMAIN w = 1 .. L
    OBVIOUS
  <1> HIDE DEF L, last
  <1>6. ASSUME NEW i \in 1 .. Len(buffer) PROVE buffer[i] \in window <=> i <= m
    <2>1. ASSUME i <= m PROVE buffer[i] \in window
      <3>1. i <= L /\ (L - i) + 1 \in 1 .. L
        BY <1>2, <2>1
      <3>2. buffer[i] = w[(L - i) + 1]
        BY <3>1 DEF Tracked, L
      <3>3. w[(L - i) + 1].at >= startSnapshot.at /\ w[(L - i) + 1].at <= fin
        BY <3>1 DEF Tracked, L
      <3>4. buffer[i].id > last
        BY <1>2, <1>3, <3>1
      <3> QED
        BY <1>5, <3>2, <3>3, <3>4 DEF ToSet
    <2>2. ASSUME ~(i <= m) PROVE buffer[i] \notin window
      <3>1. i > L
        BY <1>2, <2>2
      <3>2. ~(buffer[i].id > last)
        BY <1>2, <1>3, <3>1
      <3> QED
        BY <3>2
    <2> QED
      BY <2>1, <2>2
  <1>7. window = {buffer[i] : i \in 1 .. m}
    <2>1. window \subseteq {buffer[i] : i \in 1 .. Len(buffer)}
      BY <1>5 DEF ToSet
    <2>2. 1 .. m \subseteq 1 .. Len(buffer)
      BY <1>2
    <2>3. ASSUME NEW p \in window PROVE p \in {buffer[i] : i \in 1 .. m}
      <3>1. PICK i \in 1 .. Len(buffer) : p = buffer[i]
        BY <2>1
      <3>2. i \in 1 .. m
        BY <1>2, <1>6, <3>1
      <3> QED
        BY <3>1, <3>2
    <2>4. ASSUME NEW i \in 1 .. m PROVE buffer[i] \in window
      BY <1>2, <1>6, <2>2
    <2> HIDE DEF window
    <2> QED
      BY <2>3, <2>4
  <1> HIDE DEF window
  <1>8. ids = (counter - m) + 1 .. counter
    <2>1. ASSUME NEW x \in ids PROVE x \in (counter - m) + 1 .. counter
      <3>1. PICK i \in 1 .. m : x = buffer[i].id
        BY <1>7
      <3>2. i \in 1 .. Len(buffer)
        BY <1>2
      <3>3. x = (counter - i) + 1
        BY <3>1, <3>2
      <3> QED
        BY <1>2, <3>3
    <2>2. ASSUME NEW x \in (counter - m) + 1 .. counter PROVE x \in ids
      <3>1. (counter - x) + 1 \in 1 .. m /\ (counter - x) + 1 \in 1 .. Len(buffer) /\ (counter - ((counter - x) + 1)) + 1 = x
        BY <1>2
      <3>2. buffer[(counter - x) + 1].id = x /\ buffer[(counter - x) + 1] \in window
        BY <1>7, <3>1
      <3> QED
        BY <3>2
    <2> HIDE DEF ids
    <2> QED
      BY <2>1, <2>2
  <1>9. Cardinality(ids) \in Nat /\ ids # {}
    <2>1. (counter - m) + 1 \in Int /\ counter \in Int
      BY <1>2
    <2>2. IsFiniteSet(ids)
      BY <1>8, <2>1, FS_Interval
    <2>3. window # {}
      BY <1>1
    <2> QED
      BY <2>2, <2>3, FS_CardinalityType
  <1> HIDE DEF ids, speeds
  <1>10. m = L
    <2> DEFINE c == Cardinality(ids)
    <2>1. c \in Nat /\ ids = last + 1 .. last + c
      BY <1>1, <1>9
    <2> HIDE DEF c
    <2>2. last + 1 \in ids
      BY <1>3, <1>9, <2>1
    <2> HIDE DEF m
    <2>3. (counter - m) + 1 <= last + 1
      BY <2>2, <1>8
    <2> QED
      BY <2>3, <1>2, <1>3
  <1>11. window = ToSet(w)
    <2>1. ASSUME NEW p \in window PROVE p \in ToSet(w)
      <3>1. PICK i \in 1 .. m : p = buffer[i]
        BY <1>7
      <3>2. i \in 1 .. Len(buffer) /\ i <= L /\ (L - i) + 1 \in 1 .. L
        BY <1>2
      <3>3. buffer[i] = w[(L - i) + 1]
        BY <3>2 DEF Tracked, L
      <3> QED
        BY <3>1, <3>2, <3>3, <1>5 DEF ToSet
    <2>2. ASSUME NEW p \in ToSet(w) PROVE p \in window
      <3>1. PICK j \in 1 .. L : p = w[j]
        BY <1>5 DEF ToSet
      <3>2. (L - j) + 1 \in 1 .. m /\ (L - j) + 1 \in 1 .. Len(buffer) /\ (L - j) + 1 <= L /\ (L - ((L - j) + 1)) + 1 = j
        BY <1>2, <1>10
      <3>3. buffer[(L - j) + 1] = w[j]
        BY <3>2 DEF Tracked, L
      <3> QED
        BY <3>1, <3>2, <3>3, <1>7
    <2> QED
      BY <2>1, <2>2
  <1>12. speeds = {p.mph : p \in {q \in ToSet(w) : q.uid = startSnapshot.carUid /\ q.at <= fin}}
    <2>1. \A q \in ToSet(w) : q.at <= fin
      BY <1>5 DEF ToSet, L
    <2>2. {q \in window : q.uid = startSnapshot.carUid} = {q \in ToSet(w) : q.uid = startSnapshot.carUid /\ q.at <= fin}
      BY <1>11, <2>1
    <2> QED
      BY <2>2 DEF speeds
  <1> QED
    BY <1>1, <1>12 DEF Fastest

LEMMA InitSpeeds == Init => SpeedsOK
  <1> SUFFICES ASSUME Init PROVE SpeedsOK
    OBVIOUS
  <1>1. PICK p \in Players, laps \in LapOptions : race = CreateRace(p, laps)
    BY DEF Init
  <1>2. race.phase = "idle" /\ startSnapshot.at = 0 /\ clock = 0
    BY <1>1 DEF Init, CreateRace
  <1> QED
    BY <1>2 DEF SpeedsOK, TopSpeedOK

\* The speed set when a race ends, whatever ended it.
LEMMA ShownIsFastest ==
  ASSUME Inv, Inv', race.phase = "racing", race'.phase = "finished", UNCHANGED <<startSnapshot, clock>>,
         Tracked(passes', since', passCounter'), race'.result.finishedAt = clock,
         ShowTopSpeed(race', passes')
  PROVE  TopSpeedOK'
  <1>1. race.result = NoResult /\ race'.result.total \in Nat
    BY Bounds DEF Inv, PhaseOK, Running
  <1>2. race'.result # NoResult /\ race'.result # race.result
    BY <1>1 DEF NoResult, None
  <1>3. topSpeed' = TopSpeed(startSnapshot, passes', clock)
    BY <1>2 DEF ShowTopSpeed
  <1>4. /\ passes' \in Seq(PassSet) /\ since' \in Seq(PassSet) /\ passCounter' \in Nat /\ clock \in Nat
        /\ \A j \in 1 .. Len(since') : since'[j].at <= clock
        /\ \A i \in 1 .. Len(passes') : passes'[i].id = (passCounter' - i) + 1
    BY DEF Inv, PortalOK, SinceOK
  <1>5. topSpeed' # None => topSpeed' = Fastest(since', clock)
    BY <1>3, <1>4, TopSpeedIs
  <1>6. Fastest(since', clock) = Fastest(since, race.result.finishedAt)'
    BY DEF Fastest
  <1> QED
    BY <1>5, <1>6 DEF TopSpeedOK

LEMMA NextSpeeds ==
  ASSUME Inv, Inv', SpeedsOK, [Next]_vars
  PROVE  SpeedsOK'
  <1>0. /\ startSnapshot.at \in 0 .. clock /\ TopSpeedOK /\ clock \in Nat
        /\ race.phase = "racing" => Tracked(passes, since, passCounter)
    BY DEF SpeedsOK, Inv, PortalOK
  <1>a. ASSUME startSnapshot'.at \in 0 .. clock', race'.phase \notin {"racing", "finished"} PROVE SpeedsOK'
    BY <1>a DEF SpeedsOK, TopSpeedOK
  <1>b. ASSUME startSnapshot'.at \in 0 .. clock', UNCHANGED <<race, since, startSnapshot, topSpeed, passCounter>>,
               passes' \in {passes, <<>>}
        PROVE  SpeedsOK'
    <2>1. TopSpeedOK'
      BY <1>0, <1>b DEF TopSpeedOK, Fastest
    <2>2. race'.phase = "racing" => Tracked(passes, since, passCounter)'
      BY <1>0, <1>b DEF Tracked
    <2> QED
      BY <1>b, <2>1, <2>2 DEF SpeedsOK
  <1>1. ASSUME NEW p \in Players, NEW laps \in LapOptions, NEW car \in Cars \cup {None}, StartCountdown(p, laps, car)
        PROVE  SpeedsOK'
    <2>1. UNCHANGED <<startSnapshot, clock>>
      BY <1>1 DEF StartCountdown
    <2>2. race'.phase = "countdown"
      BY <1>1 DEF StartCountdown, Inv, RaceFits, IsRace
    <2> QED
      BY <1>0, <1>a, <2>1, <2>2
  <1>2. ASSUME StartRacing PROVE SpeedsOK'
    <2>1. /\ startSnapshot'.at = clock /\ since' = <<>> /\ UNCHANGED <<passes, passCounter, clock>>
          /\ startSnapshot'.lastPassId = IF passes = <<>> THEN None ELSE passes[1].id
      BY <1>2 DEF StartRacing, portal
    <2>2. race'.phase = "racing"
      BY <1>2 DEF StartRacing, Inv, RaceFits, IsRace
    <2>3. /\ passes \in Seq(PassSet) /\ passCounter \in Nat
          /\ \A i \in 1 .. Len(passes) : passes[i].id = (passCounter - i) + 1 /\ passes[i].at <= clock
      BY DEF Inv, PortalOK
    <2>4. startSnapshot'.lastPassId \in {None, passCounter}
      <3>1. CASE passes = <<>>
        BY <2>1, <3>1
      <3>2. CASE passes # <<>>
        <4>1. 1 \in 1 .. Len(passes)
          BY <2>3, <3>2
        <4> QED
          BY <2>1, <2>3, <3>2, <4>1
      <3> QED
        BY <3>1, <3>2
    <2>5. Tracked(passes, since, passCounter)'
      <3>1. Len(since') = 0 /\ passCounter - 0 = passCounter
        BY <2>1, <2>3
      <3> QED
        BY <1>0, <2>1, <2>3, <2>4, <3>1 DEF Tracked
    <2> QED
      BY <1>0, <2>1, <2>2, <2>5 DEF SpeedsOK, TopSpeedOK
  <1>3. ASSUME Stop PROVE SpeedsOK'
    <2>1. /\ race.phase = "racing" /\ UNCHANGED <<startSnapshot, clock, passes, passCounter>>
          /\ ShowTopSpeed(race', passes')
      BY <1>3 DEF Stop, portal
    <2>2. CASE race' = CreateRace(race.player, race.targetLaps)
      <3>1. race'.phase = "idle"
        BY <2>2 DEF CreateRace
      <3> QED
        BY <1>0, <1>a, <2>1, <3>1
    <2>3. CASE Done(race', since, Len(since)) /\ race'.result.finishedAt = clock /\ since' = since
      <3>1. race'.phase = "finished"
        BY <2>3 DEF Done
      <3>2. Tracked(passes', since', passCounter')
        BY <1>0, <2>1, <2>3
      <3>3. TopSpeedOK'
        BY <2>1, <2>3, <3>1, <3>2, ShownIsFastest
      <3> QED
        BY <1>0, <2>1, <3>1, <3>3 DEF SpeedsOK
    <2> QED
      BY <1>3, <2>2, <2>3, StopEnds
  <1>4. ASSUME Abort \/ Restart PROVE SpeedsOK'
    <2>1. race'.phase = "idle"
      BY <1>4 DEF Abort, Restart, CreateRace
    <2>2. startSnapshot'.at \in 0 .. clock'
      BY <1>0, <1>4 DEF Abort, Restart
    <2> QED
      BY <1>a, <2>1, <2>2
  <1>5. ASSUME CountdownTick \/ ClearLeaderboard \/ Disconnect \/ Tick \/ UNCHANGED vars PROVE SpeedsOK'
    <2>1. /\ UNCHANGED <<race, since, startSnapshot, topSpeed, passCounter>> /\ passes' \in {passes, <<>>}
          /\ clock' \in {clock, clock + 1}
      BY <1>5 DEF CountdownTick, ClearLeaderboard, Disconnect, Tick, vars, screen, portal
    <2>2. startSnapshot'.at \in 0 .. clock'
      BY <1>0, <2>1
    <2> QED
      BY <1>b, <2>1, <2>2
  <1>6. ASSUME passCounter + 2 <= MaxCrossings, NEW batch \in Batches, PassesArrive(batch) PROVE SpeedsOK'
    <2>1. /\ UNCHANGED <<startSnapshot, clock>> /\ passes' = Recorded(passes, batch)
          /\ passCounter' = passCounter + Len(batch) /\ ShowTopSpeed(race', passes')
      BY <1>6 DEF PassesArrive
    <2>2. CASE race.phase = "racing"
      <3>1. /\ since' = since \o batch /\ Whose(race') = Whose(race)
            /\ Running(race', since', Len(since')) \/ Lapped(race', since', Len(since'))
        BY <1>6, <2>2, RaceGoesOn
      <3>2. Tracked(passes', since', passCounter')
        <4>1. startSnapshot.at <= clock
          BY <1>0
        <4> QED
          BY <1>0, <1>6, <2>1, <2>2, <3>1, <4>1, TrackedGoesOn
      <3>3. CASE Running(race', since', Len(since'))
        <4>1. race'.phase = "racing"
          BY <3>3 DEF Running
        <4>2. Tracked(passes, since, passCounter)'
          BY <2>1, <3>2 DEF Tracked
        <4> QED
          BY <1>0, <2>1, <4>1, <4>2 DEF SpeedsOK, TopSpeedOK
      <3>4. CASE Lapped(race', since', Len(since'))
        <4> DEFINE n == Len(race'.lapTimes)
                   k == Len(since)
        <4>1. /\ n \in Nat /\ n < Len(since') /\ n = race.targetLaps /\ race'.phase = "finished"
              /\ race'.result.finishedAt = since'[n + 1].at
          <5>1. /\ race'.lapTimes \in Seq(Int) /\ race'.lapTimes # <<>> /\ (n < Len(since') \/ race'.lapTimes = <<>>)
                /\ race'.phase = "finished" /\ race'.result.finishedAt = since'[n + 1].at /\ n = race'.targetLaps
            BY <3>4 DEF Lapped, Done, InLaps
          <5> QED
            BY <3>1, <5>1 DEF Whose
        <4>2. /\ race.lapTimes \in Seq(Int) /\ Len(race.lapTimes) < race.targetLaps /\ (k = 0 \/ k = Len(race.lapTimes) + 1)
              /\ k \in Nat
          BY <2>2 DEF Inv, PhaseOK, SinceOK, Running, InLaps
        <4>3. k <= n
          <5>1. Len(race.lapTimes) \in Nat
            BY <4>2
          <5> HIDE DEF n, k
          <5> QED
            BY <4>1, <4>2, <5>1
        <4>4. /\ batch \in Seq(PassSet) /\ \A i \in 1 .. Len(batch) : batch[i].at = clock
              /\ SinceOK /\ passCounter \in Nat
          BY <1>0, BatchIs DEF Inv, PortalOK
        <4>5. Len(since') = k + Len(batch) /\ \A i \in 1 .. Len(batch) : since'[k + i] = batch[i]
          BY <1>0, <3>1, <4>4, SinceGoesOn
        <4>6. race'.result.finishedAt = clock
          <5>1. (n + 1) - k \in 1 .. Len(batch) /\ k + ((n + 1) - k) = n + 1
            <6>1. Len(batch) \in Nat
              BY <4>4
            <6> HIDE DEF n, k
            <6> QED
              BY <4>1, <4>2, <4>3, <4>5, <6>1
          <5>2. since'[n + 1] = batch[(n + 1) - k]
            BY <4>5, <5>1
          <5> QED
            BY <4>1, <4>4, <5>1, <5>2
        <4>7. TopSpeedOK'
          BY <2>1, <2>2, <3>2, <4>1, <4>6, ShownIsFastest
        <4> QED
          BY <1>0, <2>1, <4>1, <4>7 DEF SpeedsOK
      <3> QED
        BY <3>1, <3>3, <3>4
    <2>3. CASE race.phase # "racing"
      <3>1. UNCHANGED <<race, since>>
        BY <1>6, <2>3 DEF PassesArrive
      <3>2. topSpeed' = topSpeed
        BY <2>1, <3>1 DEF ShowTopSpeed
      <3>3. TopSpeedOK'
        BY <1>0, <2>1, <3>1, <3>2 DEF TopSpeedOK, Fastest
      <3> QED
        BY <1>0, <2>1, <2>3, <3>1, <3>3 DEF SpeedsOK
    <2> QED
      BY <2>2, <2>3
  <1>7. CASE Next
    BY <1>1, <1>2, <1>3, <1>4, <1>5, <1>6, <1>7 DEF Next
  <1> QED
    BY <1>5, <1>7

LEMMA SpeedsInvariant == Spec => []SpeedsOK
  <1>1. Inv /\ Inv' /\ SpeedsOK /\ [Next]_vars => SpeedsOK'
    BY NextSpeeds
  <1> QED
    BY InitSpeeds, <1>1, Invariant, PTL DEF Spec

\* The pass that closed a lap is the only one of the car at its time, however
\* the times are added up again.
LEMMA LapGatesAre ==
  ASSUME Inv, Tracked(passes, since, passCounter), race.phase = "racing",
         NEW i \in DOMAIN LapGateSpeeds(race, passes)
  PROVE  LapGateSpeeds(race, passes)[i] = since[i + 1].mph
  <1> DEFINE laps == race.lapTimes
             n == Len(laps)
             L == Len(since)
             At(x) == race.lastGateAt - Total(laps) + Total(SubSeq(laps, 1, x))
             Match(x) == {p \in ToSet(passes) : p.uid = race.carUid /\ p.at = At(x)}
             none == \/ race.carUid = None \/ laps = <<>>
                     \/ \E x \in DOMAIN laps : laps[x] <= 0 \/ Cardinality(Match(x)) # 1
  <1>1. LapGateSpeeds(race, passes) = IF none THEN <<>> ELSE [x \in DOMAIN laps |-> (CHOOSE p \in Match(x) : TRUE).mph]
    BY DEF LapGateSpeeds
  <1>2. /\ ~none /\ i \in DOMAIN laps
        /\ LapGateSpeeds(race, passes)[i] = (CHOOSE p \in Match(i) : TRUE).mph
    <2> HIDE DEF none, laps, Match
    <2>1. ~none
      BY <1>1
    <2> QED
      BY <1>1, <2>1
  <1>3. laps # <<>> /\ Cardinality(Match(i)) = 1 /\ \A x \in DOMAIN laps : ~(laps[x] <= 0)
    BY <1>2
  <1>4. /\ Running(race, since, L) /\ since \in Seq(PassSet) /\ L \in Nat
        /\ \A x, y \in 1 .. L : x <= y => since[x].at <= since[y].at
        /\ passes \in Seq(PassSet)
    BY DEF Inv, PhaseOK, SinceOK, PortalOK
  <1>5. /\ laps \in Seq(Int) /\ n \in Nat /\ n >= 1 /\ L = n + 1 /\ race.lastGateAt = since[n + 1].at
        /\ \A x \in 1 .. n : laps[x] = since[x + 1].at - since[x].at
    <2>1. /\ laps \in Seq(Int) /\ (n < L \/ laps = <<>>)
          /\ \A x \in 1 .. n : laps[x] = since[x + 1].at - since[x].at
          /\ IF L = 0 THEN race.lastGateAt = None ELSE race.lastGateAt = since[L].at /\ L = n + 1
      BY <1>4 DEF Running, InLaps
    <2>2. laps \in Seq(Int)
      BY <1>4 DEF Running, InLaps
    <2>3. n \in Nat /\ n >= 1
      BY <1>3, <2>2
    <2>4. n < L
      BY <1>3, <2>1
    <2> HIDE DEF n, L, laps
    <2> QED
      BY <1>4, <2>1, <2>2, <2>3, <2>4
  <1>6. \A x \in 1 .. L : since[x].at \in Nat
    <2>1. \A x \in 1 .. L : since[x] \in PassSet
      BY <1>4
    <2> QED
      BY <2>1 DEF PassSet
  <1>7. i \in 1 .. n /\ DOMAIN laps = 1 .. n
    BY <1>2, <1>5
  <1> HIDE DEF laps, none, L
  <1>8. Total(laps) = since[n + 1].at - since[1].at
    <2>1. \A x \in 1 .. n + 1 : since[x].at \in Int
      BY <1>5, <1>6
    <2> QED
      BY <1>5, <2>1, Telescopes
  <1>9. Total(SubSeq(laps, 1, i)) = since[i + 1].at - since[1].at
    <2> DEFINE some == SubSeq(laps, 1, i)
    <2>1. i \in Nat /\ i <= n /\ some \in Seq(Int) /\ Len(some) = i /\ \A x \in 1 .. i : some[x] = laps[x]
      BY <1>5, <1>7
    <2> HIDE DEF some, n
    <2>2. \A x \in 1 .. i : x \in 1 .. n
      BY <2>1, <1>5
    <2>3. \A x \in 1 .. i + 1 : since[x].at \in Int
      BY <2>1, <1>5, <1>6
    <2>4. \A x \in 1 .. Len(some) : some[x] = since[x + 1].at - since[x].at
      BY <2>1, <2>2, <1>5
    <2>5. Total(some) = since[Len(some) + 1].at - since[1].at
      BY <2>1, <2>3, <2>4, Telescopes
    <2> QED
      BY <2>1, <2>5 DEF some
  <1>10. /\ i + 1 \in 1 .. L /\ 1 \in 1 .. L /\ n + 1 \in 1 .. L /\ i \in 1 .. L /\ 1 <= i
    BY <1>5, <1>7
  <1>11. At(i) = since[i + 1].at
    <2> DEFINE first == since[1].at
               here  == since[i + 1].at
               end   == since[n + 1].at
    <2>1. first \in Nat /\ here \in Nat /\ end \in Nat
      BY <1>6, <1>10
    <2>2. race.lastGateAt = end /\ Total(laps) = end - first /\ Total(SubSeq(laps, 1, i)) = here - first
      BY <1>5, <1>8, <1>9
    <2>3. At(i) = end - (end - first) + (here - first)
      BY <2>2
    <2> HIDE DEF first, here, end, At
    <2>4. At(i) = here
      BY <2>1, <2>3
    <2> QED
      BY <2>4 DEF here
  <1>12. ASSUME NEW x \in 1 .. L, NEW y \in 1 .. L, x < y PROVE since[x].at < since[y].at
    <2>1. x \in 1 .. n /\ x + 1 \in 1 .. L /\ x + 1 <= y
      BY <1>5, <1>12
    <2>2. since[x].at < since[x + 1].at
      <3>1. ~(laps[x] <= 0) /\ laps[x] = since[x + 1].at - since[x].at
        BY <1>3, <1>5, <1>7, <2>1
      <3> QED
        BY <3>1, <2>1, <1>6
    <2>3. since[x + 1].at <= since[y].at
      BY <2>1, <1>4
    <2> QED
      BY <2>1, <2>2, <2>3, <1>6
  <1>13. ASSUME NEW p \in Match(i) PROVE p = since[i + 1]
    <2>1. p \in ToSet(passes) /\ p.at = since[i + 1].at
      BY <1>11
    <2>2. PICK j \in 1 .. Len(passes) : p = passes[j]
      BY <1>4, <2>1 DEF ToSet
    <2>3. Len(passes) \in Nat
      BY <1>4
    <2>4. CASE j <= L
      <3>1. p = since[(L - j) + 1] /\ (L - j) + 1 \in 1 .. L
        BY <2>2, <2>3, <2>4, <1>4 DEF Tracked, L
      <3>2. ~((L - j) + 1 < i + 1) /\ ~(i + 1 < (L - j) + 1)
        <4> DEFINE a == (L - j) + 1
                   b == i + 1
        <4>1. a \in 1 .. L /\ b \in 1 .. L /\ since[a].at = since[b].at
          BY <3>1, <2>1, <1>10
        <4> HIDE DEF a, b
        <4>2. ~(a < b) /\ ~(b < a)
          BY <4>1, <1>6, <1>12
        <4> QED
          BY <4>2 DEF a, b
      <3>3. (L - j) + 1 = i + 1
        BY <3>1, <3>2, <1>10
      <3> QED
        BY <3>1, <3>3
    <2>5. CASE ~(j <= L)
      <3>1. p.at <= startSnapshot.at /\ since[1].at >= startSnapshot.at /\ startSnapshot.at \in Nat
        BY <2>2, <2>5, <1>10 DEF Tracked, L
      <3>2. since[1].at < since[i + 1].at
        BY <1>10, <1>12
      <3> QED
        BY <3>1, <3>2, <2>1, <1>6, <1>10
    <2> QED
      BY <2>4, <2>5
  <1> HIDE DEF Match
  <1>14. Match(i) # {}
    <2>1. Cardinality({}) = 0
      BY FS_EmptySet
    <2> QED
      BY <1>3, <2>1
  <1>15. (CHOOSE p \in Match(i) : TRUE) \in Match(i)
    BY <1>14
  <1> QED
    BY <1>2, <1>13, <1>15

\* What the screen shows of speeds is the race's own (resultsPresentation.ts
\* raceTopSpeed(), livePresentation.ts lapGateSpeeds()).
THEOREM TrueSpeeds == Spec => []SpeedsAreTrue
  <1>1. Inv /\ SpeedsOK => SpeedsAreTrue
    <2> SUFFICES ASSUME Inv, SpeedsOK PROVE SpeedsAreTrue
      OBVIOUS
    <2>1. race.phase = "finished" /\ topSpeed # None =>
            topSpeed = Max({p.mph : p \in {q \in ToSet(since) :
                             q.uid = startSnapshot.carUid /\ q.at <= race.result.finishedAt}})
      BY DEF SpeedsOK, TopSpeedOK, Fastest
    <2>2. race.phase = "racing" =>
            \A i \in DOMAIN LapGateSpeeds(race, passes) : LapGateSpeeds(race, passes)[i] = since[i + 1].mph
      BY LapGatesAre DEF SpeedsOK
    <2> QED
      BY <2>1, <2>2 DEF SpeedsAreTrue
  <1> QED
    BY <1>1, Invariant, SpeedsInvariant, PTL

-----------------------------------------------------------------------------
(* The leaderboard.                                                         *)

\* Of which results it is made does not matter, only that it is of the saved.
BoardOK ==
  /\ \E S : saved \in Seq(S) /\ leaderboard \in Seq(S)
  /\ \A i \in 1 .. Len(saved) : saved[i].total \in Int
  /\ Ranked(leaderboard, saved, Len(saved))

\* What a step does to the results and to the board.
LEMMA BoardSteps ==
  ASSUME Inv, [Next]_vars
  PROVE  \/ UNCHANGED <<saved, leaderboard>>
         \/ /\ race'.result.total \in Int /\ saved' = Append(saved, race'.result)
            /\ leaderboard' = RankInsert(leaderboard, race'.result)
         \/ saved' = <<>> /\ leaderboard' = <<>>
         \/ saved' = saved /\ leaderboard' = RankAll(saved)
  <1>0. race'.phase = "finished" => race'.result.total \in Int
    BY NextInv DEF Inv, PhaseOK
  <1>1. ASSUME Stop
        PROVE  \/ UNCHANGED <<saved, leaderboard>>
               \/ /\ race'.result.total \in Int /\ saved' = Append(saved, race'.result)
                  /\ leaderboard' = RankInsert(leaderboard, race'.result)
    BY <1>0, <1>1, StopEnds DEF Done
  <1>2. ASSUME passCounter + 2 <= MaxCrossings, NEW batch \in Batches, PassesArrive(batch)
        PROVE  \/ UNCHANGED <<saved, leaderboard>>
               \/ /\ race'.result.total \in Int /\ saved' = Append(saved, race'.result)
                  /\ leaderboard' = RankInsert(leaderboard, race'.result)
    <2>1. CASE race.phase = "racing"
      BY <1>0, <1>2, <2>1, RaceGoesOn DEF Lapped, Done
    <2>2. CASE race.phase # "racing"
      BY <1>2, <2>2 DEF PassesArrive
    <2> QED
      BY <2>1, <2>2
  <1>3. ASSUME Restart PROVE saved' = saved /\ leaderboard' = RankAll(saved)
    BY <1>3 DEF Restart
  <1>4. ASSUME ClearLeaderboard PROVE saved' = <<>> /\ leaderboard' = <<>>
    BY <1>4 DEF ClearLeaderboard
  <1>5. ASSUME NEW p \in Players, NEW laps \in LapOptions, NEW car \in Cars \cup {None}, StartCountdown(p, laps, car)
        PROVE  UNCHANGED <<saved, leaderboard>>
    BY <1>5 DEF StartCountdown
  <1>6. ASSUME CountdownTick \/ StartRacing \/ Abort \/ Disconnect \/ Tick \/ UNCHANGED vars
        PROVE  UNCHANGED <<saved, leaderboard>>
    BY <1>6 DEF CountdownTick, StartRacing, Abort, Disconnect, Tick, vars
  <1>7. CASE Next
    BY <1>1, <1>2, <1>3, <1>4, <1>5, <1>6, <1>7 DEF Next
  <1> QED
    BY <1>6, <1>7

LEMMA NoResults == Ranked(<<>>, <<>>, 0)
  BY SizeIs DEF Ranked

LEMMA NextBoard == Inv /\ BoardOK /\ [Next]_vars => BoardOK'
  <1> SUFFICES ASSUME Inv, BoardOK, [Next]_vars PROVE BoardOK'
    OBVIOUS
  <1>1. PICK S : saved \in Seq(S) /\ leaderboard \in Seq(S)
    BY DEF BoardOK
  <1>2. /\ \A i \in 1 .. Len(saved) : saved[i].total \in Int
        /\ Ranked(leaderboard, saved, Len(saved))
    BY DEF BoardOK
  <1>3. CASE UNCHANGED <<saved, leaderboard>>
    BY <1>1, <1>2, <1>3 DEF BoardOK
  <1>4. CASE saved' = <<>> /\ leaderboard' = <<>>
    <2>1. saved' \in Seq(S) /\ leaderboard' \in Seq(S) /\ Len(saved') = 0
      BY <1>4
    <2>2. Ranked(leaderboard', saved', Len(saved'))
      BY <1>4, <2>1, NoResults
    <2> QED
      BY <2>1, <2>2 DEF BoardOK
  <1>5. CASE saved' = saved /\ leaderboard' = RankAll(saved)
    <2>1. RankAll(saved) \in Seq(S) /\ Ranked(RankAll(saved), saved, Len(saved))
      BY <1>1, <1>2, RankAllIs
    <2> QED
      BY <1>1, <1>2, <1>5, <2>1 DEF BoardOK
  <1>6. CASE /\ race'.result.total \in Int /\ saved' = Append(saved, race'.result)
             /\ leaderboard' = RankInsert(leaderboard, race'.result)
    <2> DEFINE r == race'.result
               n == Len(saved)
               all == Append(saved, r)
               T == S \cup {r}
    <2>1. saved \in Seq(T) /\ leaderboard \in Seq(T) /\ r \in T /\ n \in Nat
      BY <1>1
    <2>2. all \in Seq(T) /\ Len(all) = n + 1 /\ all[n + 1] = r /\ \A i \in 1 .. n : all[i] = saved[i]
      BY <2>1
    <2>3. r.total \in Int
      BY <1>6
    <2> HIDE DEF r, n, all, T
    <2>4. \A i \in 1 .. n + 1 : all[i].total \in Int
      <3> TAKE i \in 1 .. n + 1
      <3>1. i \in 1 .. n \/ i = n + 1
        BY <2>1
      <3> QED
        BY <3>1, <2>2, <2>3, <1>2 DEF n
    <2>5. Ranked(leaderboard, all, n)
      <3>1. \A i \in 1 .. n : PlaceOf(all, n, i) = PlaceOf(saved, n, i)
        <4> TAKE i \in 1 .. n
        <4>1. Ahead(all, n, i) = Ahead(saved, n, i)
          BY <2>2 DEF Ahead, Before
        <4> QED
          BY <4>1 DEF PlaceOf
      <3> QED
        BY <3>1, <2>2, <1>2 DEF Ranked, n
    <2>6. RankInsert(leaderboard, all[n + 1]) \in Seq(T) /\ Ranked(RankInsert(leaderboard, all[n + 1]), all, n + 1)
      BY <2>1, <2>2, <2>4, <2>5, InsertIs
    <2>7. saved' = all /\ leaderboard' = RankInsert(leaderboard, all[n + 1])
      BY <1>6, <2>2 DEF all, r
    <2> QED
      BY <2>2, <2>4, <2>6, <2>7 DEF BoardOK
  <1> QED
    BY <1>3, <1>4, <1>5, <1>6, BoardSteps

LEMMA InitBoard == Init => BoardOK
  <1> SUFFICES ASSUME Init PROVE BoardOK
    OBVIOUS
  <1>1. saved = <<>> /\ leaderboard = <<>>
    BY DEF Init
  <1>2. saved \in Seq({}) /\ leaderboard \in Seq({}) /\ Len(saved) = 0
    BY <1>1
  <1> QED
    BY <1>1, <1>2, NoResults DEF BoardOK

\* A board that keeps its best results only is the best of all there have been
\* (raceStore.ts rankInsert(), rankAll()).
THEOREM BestOfAll == Spec => []BoardIsBest
  <1>1. BoardOK => BoardIsBest
    <2> SUFFICES ASSUME BoardOK PROVE BoardIsBest
      OBVIOUS
    <2> DEFINE n == Len(saved)
    <2>1. n \in Nat /\ DOMAIN saved = 1 .. n
      BY DEF BoardOK
    <2>2. \A i \in 1 .. n : Place(saved, i) = PlaceOf(saved, n, i)
      BY <2>1, Zenon DEF Place, PlaceOf, Ahead, Before
    <2>3. Min({n, MAX_LEADERBOARD}) = IF n <= MAX_LEADERBOARD THEN n ELSE MAX_LEADERBOARD
      <3> HIDE DEF n
      <3> QED
        BY <2>1, SizeIs, MinOfTwo
    <2>4. /\ Len(leaderboard) = IF n <= MAX_LEADERBOARD THEN n ELSE MAX_LEADERBOARD
          /\ \A i \in 1 .. n : PlaceOf(saved, n, i) <= MAX_LEADERBOARD => leaderboard[PlaceOf(saved, n, i)] = saved[i]
      BY DEF BoardOK, Ranked
    <2> HIDE DEF n
    <2>5. Len(leaderboard) = Min({Len(saved), MAX_LEADERBOARD})
      BY <2>3, <2>4 DEF n
    <2>6. \A i \in DOMAIN saved : Place(saved, i) <= MAX_LEADERBOARD => leaderboard[Place(saved, i)] = saved[i]
      BY <2>1, <2>2, <2>4
    <2> QED
      BY <2>5, <2>6 DEF BoardIsBest
  <1> QED
    BY <1>1, InitBoard, NextBoard, Invariant, PTL DEF Spec
=============================================================================
