----------------------------- MODULE Tournament -----------------------------
(***************************************************************************)
(* The single-elimination bracket of race/tournament.ts: pure functions    *)
(* from a bracket to a bracket.  A match is named by its round and its     *)
(* index in the round, <<round, m>>, which is what the code's string id    *)
(* spells.                                                                 *)
(***************************************************************************)
EXTENDS Integers, Sequences

\* JavaScript's null, as a racer, a winner, a champion or a time.
None == 0

\* The size of a bracket of k rounds: 1, doubled k times.
Size[k \in Nat] == IF k = 0 THEN 1 ELSE 2 * Size[k - 1]

\* The seeds of a bracket of that size in slot order: seed s is followed by
\* the seed that adds up with it to size + 1.
SeedOrder[k \in Nat] ==
  IF k <= 1 THEN <<1, 2>>
  ELSE [i \in 1 .. Size[k] |->
          LET s == SeedOrder[k - 1][(i + 1) \div 2]
          IN  IF i % 2 = 1 THEN s ELSE Size[k] + 1 - s]

\* The doublings up to the next power of two.
RoundsFor(n) == CHOOSE k \in 0 .. n : Size[k] >= n /\ \A j \in 0 .. k - 1 : Size[j] < n

\* The code's order, as the names of the matches of a bracket of so many rounds.
MatchIds(rounds) == {<<r, m>> : r \in 1 .. rounds, m \in 0 .. Size[rounds] - 1}
Matches(rounds) == {id \in MatchIds(rounds) : id[2] < Size[rounds - id[1]]}
Before(x, y) == x[1] < y[1] \/ (x[1] = y[1] /\ x[2] < y[2])

\* Where the winner of a match goes.
Parent(id) == <<id[1] + 1, id[2] \div 2>>
ParentSlot(id) == IF id[2] % 2 = 0 THEN "a" ELSE "b"

\* Mutant: whoever won the last match is the champion.
DecideCrowns(t, id, winner) ==
  IF id \notin DOMAIN t.matches \/ t.matches[id].winner # None THEN t
  ELSE LET won == [t.matches EXCEPT ![id].winner = winner]
       IN  [t EXCEPT !.championId = winner,
              !.matches = IF id[1] < t.rounds
                          THEN [won EXCEPT ![Parent(id)] =
                                  [@ EXCEPT ![ParentSlot(id)] = winner]]
                          ELSE won]

\* decide(): sets the winner, feeds the parent, recomputes the champion.
Decide(t, id, winner) ==
  IF \/ id \notin DOMAIN t.matches
     \/ t.matches[id].winner # None
     \/ winner \notin {t.matches[id].a, t.matches[id].b}
  THEN t
  ELSE LET won == [t.matches EXCEPT ![id].winner = winner]
           fed == IF id[1] < t.rounds
                  THEN [won EXCEPT ![Parent(id)] =
                          [@ EXCEPT ![ParentSlot(id)] = winner]]
                  ELSE won
       IN  [t EXCEPT !.matches = fed, !.championId = fed[<<t.rounds, 0>>].winner]

\* A racer facing an empty slot advances at once.
Bye(t, m) ==
  LET match == t.matches[<<1, m>>]
  IN  CASE match.a # None /\ match.b = None -> Decide(t, <<1, m>>, match.a)
        [] match.a = None /\ match.b # None -> Decide(t, <<1, m>>, match.b)
        [] OTHER -> t

\* The bracket before byes are resolved.
Seeded(ids) ==
  LET rounds == RoundsFor(Len(ids))
      seeds  == SeedOrder[rounds]
      In(i)  == IF seeds[i] <= Len(ids) THEN ids[seeds[i]] ELSE None
  IN  [racerIds |-> ids, rounds |-> rounds, championId |-> None,
       matches |-> [id \in Matches(rounds) |->
                      IF id[1] = 1
                      THEN [a |-> In(2 * id[2] + 1), b |-> In(2 * id[2] + 2), winner |-> None]
                      ELSE [a |-> None, b |-> None, winner |-> None]]]

CreateTournament(ids) ==
  IF Len(ids) < 2
  THEN [racerIds |-> ids, rounds |-> 0, matches |-> <<>>,
        championId |-> IF ids = <<>> THEN None ELSE ids[1]]
  ELSE LET t     == Seeded(ids)
           count == Size[t.rounds - 1]
           resolved[m \in 0 .. count] == IF m = 0 THEN t ELSE Bye(resolved[m - 1], m - 1)
       IN  resolved[count]

\* The matches that could run now, and the one that runs: the earliest.
Ready(t) == {id \in DOMAIN t.matches :
               /\ t.matches[id].a # None
               /\ t.matches[id].b # None
               /\ t.matches[id].winner = None}
NoMatch == <<0, 0>>
CurrentMatch(t) ==
  IF Ready(t) = {} THEN NoMatch
  ELSE CHOOSE id \in Ready(t) : \A other \in Ready(t) \ {id} : Before(id, other)

\* Mutant: the slower racer advances.
ReportSlower(t, id, timeA, timeB) ==
  IF id \notin DOMAIN t.matches \/ t.matches[id].a = None \/ t.matches[id].b = None THEN t
  ELSE Decide(t, id, IF timeB > timeA THEN t.matches[id].b ELSE t.matches[id].a)

\* Lower time wins, a tie goes to the racer in slot A.
ReportTimes(t, id, timeA, timeB) ==
  IF id \notin DOMAIN t.matches \/ t.matches[id].a = None \/ t.matches[id].b = None THEN t
  ELSE Decide(t, id, IF timeB < timeA THEN t.matches[id].b ELSE t.matches[id].a)
=============================================================================
