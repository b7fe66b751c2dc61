----------------------------- MODULE RaceSession -----------------------------
(***************************************************************************)
(* One race after another: the engine (race/raceEngine.ts), the store      *)
(* around it with its leaderboard (store/raceStore.ts), the hook that       *)
(* counts down and turns the portal's passes into gate crossings            *)
(* (race/useRaceSession.ts), and what the screen shows of speeds            *)
(* (race/resultsPresentation.ts, race/livePresentation.ts).                 *)
(*                                                                          *)
(* Every store is read with useSyncExternalStore, so the effects of a       *)
(* change run before the next task: an action is a task with its effects.   *)
(* A task may bring several passes.  What a write to the repository can do  *)
(* is module Bootstrap's; here a result that was handed over is stored.     *)
(***************************************************************************)
EXTENDS Integers, Sequences, FiniteSetsExt, SequencesExt

CONSTANTS
  Players, Cars, LapOptions,   \* LAP_OPTIONS
  Speeds,
  MAX_PASSES, MAX_LEADERBOARD,
  MaxClock, MaxCrossings, MaxRaces   \* bounds on time, on passes and on results

ASSUME LapsAssumption == LapOptions \subseteq Nat \ {0}
ASSUME SizesAssumption == {MAX_PASSES, MAX_LEADERBOARD} \subseteq Nat \ {0}
ASSUME BatchAssumption == MAX_PASSES >= 2       \* a task's passes fit the buffer
ASSUME BoundsAssumption == {MaxClock, MaxCrossings, MaxRaces} \subseteq Nat

VARIABLES
  race,                         \* raceStore: RaceState
  leaderboard,                  \* raceStore
  saved,                        \* the results in the repository, as they were saved
  count,                        \* the countdown's next number; 0 without an interval
  lastSeenPassId,
  startSnapshot, topSpeed,      \* component state of the screen: the speed shown for race.result
  passes, passCounter,          \* portalStore, newest pass first
  clock,
  since                         \* history: the passes since the last "go", oldest first

screen == <<count, lastSeenPassId, startSnapshot, topSpeed>>
portal == <<passes, passCounter>>
vars   == <<race, leaderboard, saved, screen, portal, clock, since>>

None == -1     \* null, as a time, a pass id, a car or a speed
NoResult == [total |-> None]

-----------------------------------------------------------------------------
(* race/raceEngine.ts                                                       *)

CreateRace(p, laps) ==
  [phase |-> "idle", targetLaps |-> laps, player |-> p, carUid |-> None,
   lastGateAt |-> None, lapTimes |-> <<>>, result |-> NoResult]

Total(laps) ==
  LET sum[n \in 0 .. Len(laps)] == IF n = 0 THEN 0 ELSE sum[n - 1] + laps[n]
  IN  sum[Len(laps)]

\* The first of the best laps, and the first of the worst.
Summarize(r, laps, finishedAt) ==
  LET Nums == DOMAIN laps
      best  == CHOOSE i \in Nums : \A j \in Nums : laps[i] < laps[j] \/ (laps[i] = laps[j] /\ i <= j)
      worst == CHOOSE i \in Nums : \A j \in Nums : laps[i] > laps[j] \/ (laps[i] = laps[j] /\ i <= j)
  IN  [player |-> r.player, carUid |-> r.carUid, lapTimes |-> laps, total |-> Total(laps),
       bestLapNum |-> best, worstLapNum |-> worst, finishedAt |-> finishedAt]

RecordGate(r, now) ==
  LET laps == Append(r.lapTimes, now - r.lastGateAt)
  IN  IF r.phase # "racing" THEN r
      ELSE IF r.lastGateAt = None THEN [r EXCEPT !.lastGateAt = now]
      ELSE IF Len(laps) < r.targetLaps
      THEN [r EXCEPT !.lastGateAt = now, !.lapTimes = laps]
      ELSE [r EXCEPT !.lastGateAt = now, !.lapTimes = laps, !.phase = "finished",
                     !.result = Summarize(r, laps, now)]

FinishRace(r, now) ==
  IF r.lapTimes = <<>> THEN CreateRace(r.player, r.targetLaps)
  ELSE [r EXCEPT !.phase = "finished", !.result = Summarize(r, r.lapTimes, now)]

-----------------------------------------------------------------------------
(* store/raceStore.ts                                                       *)

\* Where a stable sort by total puts a result: after the faster ones, and after
\* those as fast that came before it.
Place(results, i) ==
  1 + Cardinality({j \in DOMAIN results :
                     \/ results[j].total < results[i].total
                     \/ results[j].total = results[i].total /\ j < i})

\* sort and slice.
RankAll(results) ==
  [k \in 1 .. Min({Len(results), MAX_LEADERBOARD}) |->
     results[CHOOSE i \in DOMAIN results : Place(results, i) = k]]

\* Mutant: a full board keeps its results and drops the new one.
RankInsertLast(board, result) ==
  IF Len(board) = MAX_LEADERBOARD THEN board ELSE RankAll(Append(board, result))

RankInsert(board, result) == RankAll(Append(board, result))

\* Mutant: banks whatever race is finished, the one banked before too.
BankAgain(s, r) ==
  IF r.phase = "finished"
  THEN [race |-> r, board |-> RankInsert(s.board, r.result), saved |-> Append(s.saved, r.result)]
  ELSE [s EXCEPT !.race = r]

\* gate() and stop(): a race that just finished is ranked and handed over.
Bank(s, r) ==
  IF r.phase = "finished" /\ s.race.phase # "finished"
  THEN [race |-> r, board |-> RankInsert(s.board, r.result), saved |-> Append(s.saved, r.result)]
  ELSE [s EXCEPT !.race = r]

Gate(s, at) == Bank(s, RecordGate(s.race, at))

\* One gate after the other, each on the store as the one before left it.
Gates(s, crossings) ==
  LET after[n \in 0 .. Len(crossings)] ==
        IF n = 0 THEN s ELSE Gate(after[n - 1], crossings[n].at)
  IN  after[Len(crossings)]

Store == [race |-> race, board |-> leaderboard, saved |-> saved]
Becomes(s) == race' = s.race /\ leaderboard' = s.board /\ saved' = s.saved

-----------------------------------------------------------------------------
(* What the screen says of speeds, from the passes that are still there.    *)

\* Mutant: the best of what is left.
TopSpeedOfBuffer(start, buffer, finishedAt) ==
  LET speeds == {p.mph : p \in {q \in ToSet(buffer) :
                   q.uid = start.carUid /\ q.at >= start.at /\ q.at <= finishedAt}}
  IN  IF start.carUid = None \/ speeds = {} THEN None ELSE Max(speeds)

\* raceTopSpeed(): only with every pass since the snapshot at hand.
TopSpeed(start, buffer, finishedAt) ==
  LET window == {p \in ToSet(buffer) : p.id > start.lastPassId /\ p.at >= start.at /\ p.at <= finishedAt}
      ids    == {p.id : p \in window}
      speeds == {p.mph : p \in {q \in window : q.uid = start.carUid}}
  IN  IF \/ start.carUid = None \/ start.lastPassId = None
         \/ ids # start.lastPassId + 1 .. start.lastPassId + Cardinality(ids)
         \/ speeds = {}
      THEN None
      ELSE Max(speeds)

\* The effect on race.result.
ShowTopSpeed(r, buffer) ==
  topSpeed' = IF r.result = NoResult \/ r.result = race.result THEN topSpeed
              ELSE TopSpeed(startSnapshot, buffer, r.result.finishedAt)

\* lapGateSpeeds(): by time and car, none if any is missing or ambiguous.
LapGateSpeeds(r, buffer) ==
  LET At(i) == r.lastGateAt - Total(r.lapTimes) + Total(SubSeq(r.lapTimes, 1, i))
      Match(i) == {p \in ToSet(buffer) : p.uid = r.carUid /\ p.at = At(i)}
  IN  IF \/ r.carUid = None \/ r.lapTimes = <<>>
         \/ \E i \in DOMAIN r.lapTimes : r.lapTimes[i] <= 0 \/ Cardinality(Match(i)) # 1
      THEN <<>>
      ELSE [i \in DOMAIN r.lapTimes |-> (CHOOSE p \in Match(i) : TRUE).mph]

-----------------------------------------------------------------------------
Init ==
  /\ \E p \in Players, laps \in LapOptions : race = CreateRace(p, laps)
  /\ leaderboard = <<>> /\ saved = <<>>
  /\ count = 0 /\ lastSeenPassId = 0
  /\ startSnapshot = [carUid |-> None, at |-> 0, lastPassId |-> None]
  /\ topSpeed = None
  /\ passes = <<>> /\ passCounter = 0
  /\ clock = 0 /\ since = <<>>

\* configure() and startCountdown(), and the countdown's effect.
StartCountdown(p, laps, car) ==
  /\ race.phase \in {"idle", "finished"}
  /\ race' = [race EXCEPT !.phase = "countdown", !.player = p, !.targetLaps = laps, !.carUid = car]
  /\ count' = 3
  /\ since' = <<>>
  /\ UNCHANGED <<leaderboard, saved, lastSeenPassId, startSnapshot, topSpeed, portal, clock>>

CountdownTick ==
  /\ count > 1
  /\ count' = count - 1
  /\ UNCHANGED <<race, leaderboard, saved, lastSeenPassId, startSnapshot, topSpeed, portal, clock, since>>

\* Mutant: the passes that are there are fresh to the race.
StartRacingOnAll ==
  /\ count = 1
  /\ count' = 0
  /\ startSnapshot' = [carUid |-> race.carUid, at |-> clock,
                       lastPassId |-> IF passes = <<>> THEN None ELSE passes[1].id]
  /\ race' = [race EXCEPT !.phase = "racing", !.lastGateAt = None, !.lapTimes = <<>>,
                          !.result = NoResult]
  /\ topSpeed' = None
  /\ since' = <<>>
  /\ UNCHANGED <<leaderboard, saved, lastSeenPassId, portal, clock>>

\* startRacingWithGo(), and the effect that skips the passes there are.
StartRacing ==
  /\ count = 1
  /\ count' = 0
  /\ startSnapshot' = [carUid |-> race.carUid, at |-> clock,
                       lastPassId |-> IF passes = <<>> THEN None ELSE passes[1].id]
  /\ race' = [race EXCEPT !.phase = "racing", !.lastGateAt = None, !.lapTimes = <<>>,
                          !.result = NoResult]
  /\ lastSeenPassId' = IF passes = <<>> THEN 0 ELSE passes[1].id
  /\ topSpeed' = None
  /\ since' = <<>>
  /\ UNCHANGED <<leaderboard, saved, portal, clock>>

\* "Finish" while racing.
Stop ==
  /\ race.phase = "racing"
  /\ Becomes(Bank(Store, FinishRace(race, clock)))
  /\ ShowTopSpeed(race', passes)
  /\ since' = IF race'.phase = "idle" THEN <<>> ELSE since
  /\ UNCHANGED <<count, lastSeenPassId, startSnapshot, portal, clock>>

\* Mutant: the countdown goes on.
AbortRaceOnly ==
  /\ race.phase # "idle"
  /\ race' = [CreateRace(race.player, race.targetLaps) EXCEPT !.carUid = race.carUid]
  /\ UNCHANGED <<leaderboard, saved, screen, portal, clock, since>>

\* Cancel, on the countdown or on "GO", and "race again".
Abort ==
  /\ race.phase # "idle"
  /\ race' = [CreateRace(race.player, race.targetLaps) EXCEPT !.carUid = race.carUid]
  /\ count' = 0 /\ topSpeed' = None /\ since' = <<>>
  /\ UNCHANGED <<leaderboard, saved, lastSeenPassId, startSnapshot, portal, clock>>

ClearLeaderboard ==
  /\ race.phase \in {"idle", "finished"}
  /\ leaderboard # <<>>
  /\ leaderboard' = <<>> /\ saved' = <<>>
  /\ UNCHANGED <<race, screen, portal, clock, since>>

\* dispatch() of a speed event that counts.
Recorded(buffer, batch) ==
  LET newest == Reverse(batch) \o buffer
  IN  SubSeq(newest, 1, Min({Len(newest), MAX_PASSES}))

\* The passes down to the first that was seen, oldest first.
Fresh(buffer) ==
  LET known == {i \in DOMAIN buffer : buffer[i].id <= lastSeenPassId}
  IN  Reverse(SubSeq(buffer, 1, IF known = {} THEN Len(buffer) ELSE Min(known) - 1))

\* The passes' effect: the fresh ones cross the gate.
PassesArrive(batch) ==
  LET buffer == Recorded(passes, batch)
  IN  /\ passes' = buffer
      /\ passCounter' = passCounter + Len(batch)
      /\ IF race.phase = "racing"
         THEN /\ Becomes(Gates(Store, Fresh(buffer)))
              /\ lastSeenPassId' = buffer[1].id
              /\ since' = since \o batch
         ELSE UNCHANGED <<race, leaderboard, saved, lastSeenPassId, since>>
      /\ ShowTopSpeed(race', buffer)
      /\ UNCHANGED <<count, startSnapshot, clock>>

Batches ==
  {batch \in SeqOf([id : passCounter + 1 .. passCounter + 2, uid : Cars \cup {None},
                    mph : Speeds, at : {clock}], 2) :
     batch # <<>> /\ \A i \in DOMAIN batch : batch[i].id = passCounter + i}

\* The portal goes: setConnection("disconnected").
Disconnect ==
  /\ passes # <<>>
  /\ passes' = <<>>
  /\ UNCHANGED <<race, leaderboard, saved, screen, passCounter, clock, since>>

Tick ==
  /\ clock' = clock + 1
  /\ UNCHANGED <<race, leaderboard, saved, screen, portal, since>>

\* The process starts again: hydrate() from the repository.
Restart ==
  /\ \E laps \in LapOptions : race' = CreateRace(race.player, laps)
  /\ leaderboard' = RankAll(saved)
  /\ count' = 0 /\ lastSeenPassId' = 0
  /\ startSnapshot' = [carUid |-> None, at |-> 0, lastPassId |-> None]
  /\ topSpeed' = None
  /\ passes' = <<>> /\ passCounter' = 0
  /\ since' = <<>>
  /\ UNCHANGED <<saved, clock>>

Next ==
  \/ /\ Len(saved) < MaxRaces
     /\ \E p \in Players, laps \in LapOptions, car \in Cars \cup {None} : StartCountdown(p, laps, car)
  \/ CountdownTick \/ StartRacing \/ Stop \/ Abort \/ ClearLeaderboard
  \/ /\ passCounter + 2 <= MaxCrossings
     /\ \E batch \in Batches : PassesArrive(batch)
  \/ Disconnect \/ Restart
  \/ clock < MaxClock /\ Tick

Spec == Init /\ [][Next]_vars

-----------------------------------------------------------------------------
(* Properties.                                                              *)

Passes == [id : 1 .. MaxCrossings, uid : Cars \cup {None}, mph : Speeds, at : 0 .. MaxClock]

TypeOK ==
  /\ race.phase \in {"idle", "countdown", "racing", "finished"}
  /\ race.player \in Players /\ race.targetLaps \in LapOptions
  /\ race.carUid \in Cars \cup {None}
  /\ race.phase # "countdown" => Len(race.lapTimes) <= race.targetLaps
  /\ race.phase = "finished" => race.result # NoResult
  /\ count \in 0 .. 3 /\ (count > 0 <=> race.phase = "countdown")
  /\ ToSet(passes) \subseteq Passes /\ Len(passes) <= MAX_PASSES
  /\ topSpeed \in Speeds \cup {None}

\* The laps of a race are the times between consecutive passes from "go" on,
\* the start line first: none is missed, counted twice or taken from the race
\* before, however passes are batched, evicted or cleared by a disconnection.
LapsAreCrossings ==
  LET n == Len(race.lapTimes) IN
  race.phase \in {"racing", "finished"} =>
    /\ n = Max({0, Len(since) - 1}) \/ (n = race.targetLaps /\ n < Len(since))
    /\ \A i \in 1 .. n : race.lapTimes[i] = since[i + 1].at - since[i].at

\* The board holds the best results there have been, best first and earlier
\* first, though every result is ranked against the board alone; what a restart
\* reads from the repository is the same board.
BoardIsBest ==
  /\ Len(leaderboard) = Min({Len(saved), MAX_LEADERBOARD})
  /\ \A i \in DOMAIN saved :
       Place(saved, i) <= MAX_LEADERBOARD => leaderboard[Place(saved, i)] = saved[i]

\* A top speed or a lap's speed, when one is shown, is that of the race's own
\* passes, though the passes the screen has left are bounded and may be cleared:
\* the fastest of the car between "go" and the finish, and the one that closed
\* the lap.
SpeedsAreTrue ==
  /\ race.phase = "finished" /\ topSpeed # None =>
       topSpeed = Max({p.mph : p \in {q \in ToSet(since) :
                        q.uid = startSnapshot.carUid /\ q.at <= race.result.finishedAt}})
  /\ race.phase = "racing" =>
       \A i \in DOMAIN LapGateSpeeds(race, passes) :
         LapGateSpeeds(race, passes)[i] = since[i + 1].mph

\* A result is handed to the repository when its race finishes, and only then:
\* a pass that arrives with the last one, or after it, does not save it again.
SavedOnce ==
  [][ \/ race.phase = "racing" /\ race'.phase = "finished" /\ saved' = Append(saved, race'.result)
      \/ ~(race.phase = "racing" /\ race'.phase = "finished") /\ saved' \in {saved, <<>>} ]_vars

\* What a race is to the screen that starts it (Race): it runs after a whole
\* countdown, finishes with the total of its laps or is abandoned, and a
\* cancelled countdown starts nothing.
Abstract == INSTANCE Race WITH
  phase <- race.phase, player <- race.player, total <- race.result.total,
  Totals <- 0 .. MaxClock, NoTotal <- None

ImplementsRace == Abstract!Spec
=============================================================================
