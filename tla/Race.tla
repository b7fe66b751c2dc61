-------------------------------- MODULE Race --------------------------------
(***************************************************************************)
(* Abstract: what one race is to whoever starts it.  A player is announced *)
(* and counted down, races, and either finishes with a total or does not.  *)
(* RaceSession (race/raceEngine.ts, race/useRaceSession.ts,                 *)
(* store/raceStore.ts) implements it, RaceNight                             *)
(* (app/(tabs)/race.tsx, race/tournament.ts) is built on it.                *)
(***************************************************************************)
CONSTANTS
  Players,    \* who can race
  Totals,     \* the totals a race can have
  NoTotal     \* no result, which is none of the totals

VARIABLES phase, player, total

race == <<phase, player, total>>

Phases == {"idle", "countdown", "racing", "finished"}

RaceOK ==
  /\ phase \in Phases
  /\ player \in Players
  /\ total \in Totals \cup {NoTotal}
  /\ phase = "finished" => total \in Totals

NoRace ==
  /\ phase = "idle"
  /\ player \in Players
  /\ total = NoTotal

\* configure() and startCountdown(): a rematch keeps the result until "go".
Announce(p) ==
  /\ phase \in {"idle", "finished"}
  /\ phase' = "countdown" /\ player' = p
  /\ UNCHANGED total

\* The countdown reaches zero: startRacing().
Go ==
  /\ phase = "countdown"
  /\ phase' = "racing" /\ total' = NoTotal
  /\ UNCHANGED player

\* Mutant: the race is over before its result is made.
FinishWithout(t) ==
  /\ phase = "racing"
  /\ phase' = "finished" /\ total' = NoTotal
  /\ UNCHANGED player

\* The last lap, or "finish" after at least one lap.
FinishWith(t) ==
  /\ phase = "racing"
  /\ phase' = "finished" /\ total' = t
  /\ UNCHANGED player

\* abort(), or "finish" before the first lap is complete.
Abandon ==
  /\ phase' = "idle" /\ total' = NoTotal
  /\ UNCHANGED player

Next ==
  \/ \E p \in Players : Announce(p)
  \/ Go
  \/ \E t \in Totals : FinishWith(t)
  \/ Abandon

Spec == NoRace /\ [][Next]_race
=============================================================================
