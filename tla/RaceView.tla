-------------------------------- MODULE RaceView --------------------------------
(***************************************************************************)
(* What the race screen and the TV stage make of a race: pure functions of  *)
(* the stores (apps/mobile/src/race/*Presentation.ts, race/components,      *)
(* tv/TvStage.tsx, sound/cues.ts).  A view is the record of what it shows   *)
(* or offers; wording, colours and layout are left out.  Times are whole    *)
(* milliseconds, and 0 stands for a time that is not a positive number.     *)
(***************************************************************************)
EXTENDS Integers, Sequences, FiniteSets, Functions

CONSTANT None

LeastOf(S)    == CHOOSE x \in S : \A y \in S : x <= y
GreatestOf(S) == CHOOSE x \in S : \A y \in S : x >= y
Min2(a, b)    == IF a < b THEN a ELSE b
ValuesOf(s)   == {s[i] : i \in DOMAIN s}
Front(s, n)   == SubSeq(s, 1, Min2(n, Len(s)))
Best(laps)    == IF laps = <<>> THEN None ELSE LeastOf(ValuesOf(laps))

-----------------------------------------------------------------------------
(* Before the race.                                                         *)

portalReadiness(connection) ==
  [ready |-> connection = "connected",
   tone  |-> CASE connection = "connected"  -> "ready"
               [] connection = "connecting" -> "busy"
               [] OTHER                     -> "disconnected"]

\* The way to the settings, offered while there is no portal at all.
PortalRecovery(connection) == connection = "disconnected"

canStartRace(mode, connection, lineup) ==
  connection = "connected" /\ (mode = "solo" \/ lineup # <<>>)

\* catalogCar is None for a car nobody identified.
presentRaceCar(uid, catalogCar) ==
  IF uid = None THEN [uid |-> None, name |-> "empty", identified |-> FALSE]
  ELSE [uid |-> uid, name |-> IF catalogCar = None THEN uid ELSE catalogCar,
        identified |-> catalogCar # None]

RaceCar(car, context) ==
  [name |-> car.name,
   meta |-> CASE context # None   -> context
              [] car.identified   -> "Identified car"
              [] car.uid # None   -> "Unidentified car"
              [] OTHER            -> "Flexible assignment"]

\* What each racer's card offers; the first of the lineup is the current racer.
LineupCard(lineup, i, liveCar) ==
  [makeNext  |-> i > 2,
   assignCar |-> liveCar # None /\ liveCar # lineup[i].car,
   remove    |-> TRUE,
   upNext    |-> i = 2]

RaceSetup(mode, lineup, draft, connection) ==
  [player |-> mode = "solo",
   racers |-> IF mode = "solo" THEN <<>> ELSE lineup,
   add    |-> mode # "solo" /\ draft # "",
   start  |-> canStartRace(mode, connection, lineup)]

-----------------------------------------------------------------------------
(* The countdown.                                                           *)

\* The digit, from 0 to 3, and the lights that are lit.
countdownLights(count) ==
  LET digit == IF count > 3 THEN 3 ELSE IF count < 0 THEN 0 ELSE count
  IN  [digit |-> digit, lit |-> IF digit = 0 THEN 3 ELSE 4 - digit, go |-> digit = 0]

countdownBestLap(results, player, car) ==
  LET times == {r.best : r \in {q \in results : q.player = player /\ q.car = car /\ q.best > 0}}
  IN  IF car = None \/ times = {} THEN None ELSE LeastOf(times)

RaceCountdown(count, player, car, best, next) ==
  [lights |-> countdownLights(count), player |-> player, car |-> car, best |-> best, next |-> next]

-----------------------------------------------------------------------------
(* The race.                                                                *)

fastestReference(laps, carBest) ==
  LET valid == {t \in ValuesOf(laps) : t > 0}
  IN  IF valid # {} THEN LeastOf(valid)
      ELSE IF carBest # None /\ carBest > 0 THEN carBest ELSE None

\* The lap being run, or the last; 0 before the first crossing.
DisplayedLap(race) == Min2(Len(race.laps) + (IF race.gateAt # None THEN 1 ELSE 0), race.target)

\* How far an estimate is round the track, in thousandths.
paceFraction(elapsed, reference) ==
  IF reference = None \/ reference <= 0 THEN None
  ELSE LET covered == (1000 * (IF elapsed < 0 THEN 0 ELSE elapsed)) \div reference
       IN  [fraction |-> covered % 1000, progress |-> Min2(1000, covered), overflow |-> covered >= 1000]

\* A marker that overran its reference waits at the gate.
projectPace(elapsed, reference) ==
  LET pace == paceFraction(elapsed, reference)
  IN  IF pace = None THEN None ELSE IF pace.overflow THEN 0 ELSE pace.fraction

RaceTrack(elapsed, best, last, armed) ==
  [last  |-> IF armed /\ last # None THEN projectPace(elapsed, last) ELSE None,
   ghost |-> IF armed /\ best # None THEN projectPace(elapsed, best) ELSE None]

LapSegment(laps, index, armed, elapsed, reference) ==
  LET current == index = Len(laps) + 1 /\ armed
      pace    == paceFraction(elapsed, reference)
  IN  [fastest |-> index <= Len(laps) /\ laps[index] = Best(laps),
       fill    |-> CASE index <= Len(laps)         -> 1000
                     [] current /\ pace # None     -> pace.progress
                     [] OTHER                      -> 0]

\* The lap clock follows the last crossing, never the other way round.
useLapClock(now, gateAt) == IF gateAt = None \/ now < gateAt THEN 0 ELSE now - gateAt

RaceClock(elapsed, offset, inactive) == IF inactive THEN None ELSE elapsed + offset

\* The speed of the pass that closed each lap: None unless every lap has exactly
\* one pass of the car at its instant.
lapGateSpeeds(race, passes) ==
  LET lapsFrom(n) == SumFunctionOnSet(race.laps, n + 1 .. Len(race.laps))
      closing(n)  == {p \in ValuesOf(passes) : p.uid = race.uid /\ p.at = race.gateAt - lapsFrom(n) /\ p.mph > 0}
  IN  IF \/ race.uid = None \/ race.gateAt = None \/ race.laps = <<>>
         \/ \E n \in DOMAIN race.laps : race.laps[n] <= 0 \/ Cardinality(closing(n)) # 1
      THEN None
      ELSE [n \in DOMAIN race.laps |-> (CHOOSE p \in closing(n) : TRUE).mph]

LapRow(laps, best, speeds, i) ==
  [lap |-> i, time |-> laps[i], delta |-> IF best = None THEN None ELSE laps[i] - best,
   fastest |-> laps[i] = best, speed |-> IF speeds = None THEN None ELSE speeds[i]]

LapList(laps, best, running, speeds) ==
  [rows |-> [i \in DOMAIN laps |-> LapRow(laps, best, speeds, i)], running |-> running]

LiveLapList(race, passes) ==
  LapList(race.laps, fastestReference(race.laps, None),
          IF race.gateAt = None THEN None ELSE Min2(Len(race.laps) + 1, race.target),
          lapGateSpeeds(race, passes))

RaceProgress(race, carBest, elapsed, demoReady) ==
  LET armed == race.gateAt # None
      best  == fastestReference(race.laps, None)
      reference == fastestReference(race.laps, carBest)
  IN  [lap      |-> DisplayedLap(race),
       total    |-> RaceClock(elapsed, SumFunction(race.laps), FALSE),
       current  |-> RaceClock(elapsed, 0, ~armed),
       segments |-> [i \in 1 .. race.target |-> LapSegment(race.laps, i, armed, elapsed, reference)],
       track    |-> RaceTrack(elapsed, reference,
                              IF race.laps = <<>> THEN None ELSE race.laps[Len(race.laps)], armed),
       delta    |-> IF best = None THEN None ELSE RaceClock(elapsed, -best, FALSE),
       demo     |-> demoReady, end |-> TRUE]

\* What a lap that was just closed sounds like: the best so far, or any.
nextLapCue(laps) ==
  IF Len(laps) >= 2 /\ laps[Len(laps)] < Best(Front(laps, Len(laps) - 1)) THEN "bestLap" ELSE "lap"

\* What the announcer says when a render finds more laps than the one before:
\* the newest lap, however many were closed since.
Announced(laps, before) ==
  IF Len(laps) <= before THEN None
  ELSE [lap |-> Len(laps),
        best |-> Len(laps) = 1 \/ laps[Len(laps)] < Best(Front(laps, Len(laps) - 1))]

-----------------------------------------------------------------------------
(* The result.                                                              *)

\* previousBest: -1 without a snapshot from the start, None for a first race.
raceRecord(best, previousBest) ==
  LET beat == best > 0 /\ previousBest \notin {None, -1} /\ previousBest > best
  IN  [isRecord |-> best > 0 /\ (previousBest = None \/ beat),
       improvement |-> IF beat THEN previousBest - best ELSE None]

\* Thousandths of the slowest lap.
lapBarFractions(laps) ==
  LET slowest == GreatestOf({0} \cup ValuesOf(laps))
  IN  [i \in DOMAIN laps |-> IF slowest > 0 THEN (1000 * laps[i]) \div slowest ELSE 0]

ResultsLapChart(laps, best) ==
  [i \in DOMAIN laps |-> [bar |-> lapBarFractions(laps)[i], fastest |-> laps[i] = best]]

resultPrimaryActionLabel(mode, lineup, next) ==
  IF mode = "raceNight" /\ Len(lineup) > 1 /\ next # None THEN next ELSE "Race again"

RaceResults(result, previousBest, topSpeed, next) ==
  [record |-> raceRecord(result.best, previousBest),
   third  |-> IF topSpeed = None THEN "average lap" ELSE "top speed",
   chart  |-> ResultsLapChart(result.laps, result.best),
   next   |-> next]

RaceLeaderboard(board) == [rows |-> Front(board, 8), clear |-> board # <<>>]

-----------------------------------------------------------------------------
(* The bracket.                                                             *)

\* Timed heats first, the faster before the slower, otherwise as they were.
rankHeats(heats) ==
  LET before(i, j) == \/ heats[i] # None /\ (heats[j] = None \/ heats[i] < heats[j])
                      \/ heats[i] = heats[j] /\ i < j
  IN  [k \in DOMAIN heats |->
         CHOOSE i \in DOMAIN heats : Cardinality({j \in DOMAIN heats : before(j, i)}) = k - 1]

roundLabel(rounds, round) ==
  LET left == rounds - round IN IF left < 3 THEN <<"Final", "Semifinals", "Quarterfinals">>[left + 1] ELSE "Round"

\* One row per match: its two places, the better heat first.
BracketCard(bracket, active, times) ==
  {[round |-> roundLabel(bracket.rounds, m.round), racing |-> m.id = active,
    rows  |-> [i \in 1 .. 2 |->
                LET heat == <<m.a, m.b>>[rankHeats(times[m.id])[i]]
                IN  [racer |-> heat, winner |-> m.winner # None /\ m.winner = heat]]] : m \in bracket.matches}

TournamentToggle(mode, lineup, on) ==
  LET ready == mode = "raceNight" /\ Len(lineup) >= 2 IN [on |-> on /\ ready, enabled |-> ready]

-----------------------------------------------------------------------------
(* The TV stage: the same stores, on a screen that nobody touches.          *)

Hero(race) ==
  CASE race.phase = "countdown" -> "countdown"
    [] race.phase = "racing"    -> "race"
    [] race.phase = "finished" /\ race.result # None -> "finish"
    [] OTHER -> "speed"

TvHeader(connection, race) ==
  [status |-> portalReadiness(connection).tone,
   mode   |-> CASE race.phase \in {"racing", "countdown"} -> race.player
                [] race.phase = "finished" -> "Race complete"
                [] OTHER -> "Speed trap"]

\* The gauge holds the last pass until the next.
SpeedHero(passes, bestMph) ==
  LET last == IF passes = <<>> THEN 0 ELSE passes[1].mph
  IN  [readout |-> last, needle |-> IF last >= 1 THEN last ELSE 0, best |-> bestMph]

FinishHero(result) ==
  [total |-> result.total, laps |-> Len(result.laps), best |-> result.best]

RaceHero(race, now) ==
  [lap |-> DisplayedLap(race), best |-> Best(race.laps),
   last |-> IF race.laps = <<>> THEN None ELSE race.laps[Len(race.laps)],
   clock |-> IF race.gateAt = None THEN None ELSE useLapClock(now, race.gateAt)]

\* The newest laps stay on the screen, numbered as they were run.
LapBoard(laps, rows) ==
  LET shown == SubSeq(laps, IF Len(laps) > rows THEN Len(laps) - rows + 1 ELSE 1, Len(laps))
  IN  [i \in DOMAIN shown |->
         [lap |-> Len(laps) - Len(shown) + i, time |-> shown[i], best |-> shown[i] = Best(laps)]]

PassBoard(passes, best, rows) ==
  [i \in DOMAIN Front(passes, rows) |->
     [pass |-> passes[i], best |-> best > 0 /\ passes[i].mph >= best]]

Standings(board, rows) == Front(board, rows)

\* The card beside the hero, of the laps or of the passes.
Side(race) == IF race.phase \in {"racing", "finished"} THEN "laps" ELSE "passes"

CarCard(car, name) ==
  [name |-> IF name # None THEN name ELSE car,
   subtitle |-> IF car = None THEN "No car" ELSE IF name = None THEN "Unidentified" ELSE car]

\* How many rows a card of a screen of this height holds.
TV_FALLBACK_HEIGHT == 720
resolveTvRows(measured) ==
  LET height == IF measured > 0 THEN measured ELSE TV_FALLBACK_HEIGHT
      stat == GreatestOf({18, LeastOf({48, (height * 38 + 500) \div 1000})})
  IN  GreatestOf({3, LeastOf({8, height \div (stat * 6)})})
=============================================================================
