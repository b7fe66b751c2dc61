----------------------------- MODULE MCRaceNight -----------------------------
(* RaceNight for TLC, and brackets larger than the run's.                     *)
EXTENDS RaceNight

\* race/tournament.ts:12: "a lineup of any size >= 2 produces a valid bracket with
\* no double-byes": every racer has one slot, no match is empty, and the racers
\* without an opponent are the first of the lineup and have advanced.
ValidSeeding(n) ==
  LET t     == CreateTournament([i \in 1 .. n |-> i])
      First == {id \in DOMAIN t.matches : id[1] = 1}
      In(id) == {t.matches[id].a, t.matches[id].b} \ {None}
      Byes  == {id \in First : Cardinality(In(id)) = 1}
  IN  /\ \A i \in 1 .. n : Cardinality({id \in First : i \in In(id)}) = 1
      /\ \A id \in First : In(id) # {}
      /\ UNION {In(id) : id \in Byes} = 1 .. Cardinality(Byes)
      /\ Cardinality(DOMAIN t.matches) = Size[t.rounds] - 1
      /\ \A id \in Byes :
           /\ t.matches[id].winner \in In(id)
           /\ t.matches[id].winner \in {t.matches[Parent(id)].a, t.matches[Parent(id)].b}

ASSUME AnyFieldIsSeeded == \A n \in 3 .. 17 : ValidSeeding(n)
=============================================================================
