------------------------------ MODULE RaceNight ------------------------------
(***************************************************************************)
(* The Race screen's own state (app/(tabs)/race.tsx): the lineup of         *)
(* race/raceNight.ts, the bracket of race/tournament.ts, the heat times,    *)
(* and the handlers that start races for them.  The race itself is Race.    *)
(*                                                                          *)
(* Racers are their ids; names and cars, which decide nothing, are left     *)
(* out, and so is the portal's connection, without which nothing starts.    *)
(* Which handlers can be called is what the screen shows in a phase.        *)
(***************************************************************************)
EXTENDS Tournament, SequencesExt, FiniteSetsExt

CONSTANTS
  MaxRacers,   \* bound on racer ids
  Times        \* heat totals, in any unit

ASSUME MaxRacersAssumption == MaxRacers \in Nat
ASSUME TimesAssumption == Times \subseteq Nat \ {None}

VARIABLES
  phase, player, total,                 \* the race: raceStore's race
  mode, lineup, tournamentOn,           \* component state: setup
  tournament, matchTimes                \* component state: bracket and heat times

race    == <<phase, player, total>>          \* as in Race
setup   == <<mode, lineup, tournamentOn>>
bracket == <<tournament, matchTimes>>
vars    == <<race, setup, bracket>>

RacerIds == 1 .. MaxRacers
Solo == 0      \* the player of a solo race

Heat == INSTANCE Race WITH Players <- RacerIds \cup {Solo}, Totals <- Times, NoTotal <- None

NoTournament == [racerIds |-> <<>>, rounds |-> 0, matches |-> <<>>, championId |-> None]
NoTimes == [id \in Matches(RoundsFor(MaxRacers)) |-> [a |-> None, b |-> None]]

InTournament == tournament # NoTournament /\ tournament.championId = None
TournamentReady == mode = "raceNight" /\ Len(lineup) >= 2
TournamentArmed == tournamentOn /\ TournamentReady

\* Mutant: setup is on screen between heats, too.
InSetupAlways == phase = "idle"

\* Setup is on screen, with the banner of a finished bracket if there is one.
InSetup == phase = "idle" /\ ~InTournament

Init ==
  /\ phase = "idle" /\ player = Solo /\ total = None
  /\ mode = "solo" /\ lineup = <<>> /\ tournamentOn = FALSE
  /\ tournament = NoTournament /\ matchTimes = NoTimes

-----------------------------------------------------------------------------
(* Setup: race/raceNight.ts.                                                *)

\* One above the largest id present.
NextRacerId == Max({0} \cup ToSet(lineup)) + 1

EditLineup(edited) ==
  /\ InSetup /\ mode = "raceNight"
  /\ lineup' = edited
  /\ UNCHANGED <<race, mode, tournamentOn, bracket>>

AddRacer == NextRacerId \in RacerIds /\ EditLineup(Append(lineup, NextRacerId))
RemoveRacer(id) ==
  LET kept[i \in 0 .. Len(lineup)] ==
        IF i = 0 THEN <<>>
        ELSE IF lineup[i] = id THEN kept[i - 1] ELSE Append(kept[i - 1], lineup[i])
  IN  EditLineup(kept[Len(lineup)])

\* "Make next" is offered from the third place on.
ChooseNext(i) ==
  /\ i > 2
  /\ EditLineup(InsertAt(RemoveAt(lineup, i), 2, lineup[i]))

ChangeMode ==
  /\ InSetup
  /\ mode' = IF mode = "solo" THEN "raceNight" ELSE "solo"
  /\ UNCHANGED <<race, lineup, tournamentOn, bracket>>

\* The toggle gives way to the champion's banner, and is disabled unless ready.
ToggleTournament ==
  /\ InSetup /\ TournamentReady /\ tournament.championId = None
  /\ tournamentOn' = ~tournamentOn
  /\ UNCHANGED <<race, mode, lineup, bracket>>

-----------------------------------------------------------------------------
(* Races outside a bracket.                                                 *)

\* START RACE.
OnStart ==
  /\ InSetup /\ ~TournamentArmed
  /\ mode = "raceNight" => lineup # <<>>
  /\ Heat!Announce(IF mode = "solo" THEN Solo ELSE Head(lineup))
  /\ UNCHANGED <<setup, bracket>>

\* The results' primary action when there is no bracket.
OnAdvanceLineup ==
  /\ phase = "finished" /\ tournament = NoTournament
  /\ mode = "raceNight" /\ Len(lineup) > 1
  /\ lineup' = Append(Tail(lineup), Head(lineup))
  /\ Heat!Abandon
  /\ UNCHANGED <<mode, tournamentOn, bracket>>

RaceAgain ==
  /\ phase = "finished" /\ tournament = NoTournament
  /\ ~(mode = "raceNight" /\ Len(lineup) > 1)
  /\ Heat!Abandon
  /\ UNCHANGED <<setup, bracket>>

-----------------------------------------------------------------------------
(* The bracket.                                                             *)

\* The racer who still owes a heat in a match, A before B.
RunnerId(t, times) ==
  LET id == CurrentMatch(t)
  IN  IF id = NoMatch THEN None
      ELSE IF times[id].a = None THEN t.matches[id].a
      ELSE IF times[id].b = None THEN t.matches[id].b
      ELSE None

\* ... as long as the lineup still has that racer.
RunnerFor(t, times) ==
  IF RunnerId(t, times) \in ToSet(lineup) THEN RunnerId(t, times) ELSE None

OnStartTournament ==
  /\ InSetup /\ TournamentArmed
  /\ tournament' = CreateTournament(lineup)
  /\ matchTimes' = NoTimes
  /\ IF RunnerFor(tournament', NoTimes) # None
     THEN Heat!Announce(RunnerFor(tournament', NoTimes))
     ELSE UNCHANGED race
  /\ UNCHANGED setup

\* "End tournament" between heats, "New tournament" on the banner.
OnResetTournament ==
  /\ phase = "idle"
  /\ InTournament \/ (mode = "raceNight" /\ tournament.championId # None)
  /\ tournament' = NoTournament /\ matchTimes' = NoTimes
  /\ Heat!Abandon
  /\ UNCHANGED setup

\* Mutant: resumes with the racer at the head of the lineup.
OnResumeWithHead ==
  /\ phase = "idle" /\ InTournament /\ lineup # <<>>
  /\ Heat!Announce(Head(lineup))
  /\ UNCHANGED <<setup, bracket>>

\* "Race the next heat", after a heat was abandoned.
OnResumeTournament ==
  /\ phase = "idle" /\ InTournament
  /\ RunnerFor(tournament, matchTimes) # None
  /\ Heat!Announce(RunnerFor(tournament, matchTimes))
  /\ UNCHANGED <<setup, bracket>>

\* Mutant: the heat that comes first is overwritten by the second.
WithTimeOfA(runner) ==
  [matchTimes EXCEPT ![CurrentMatch(tournament)].a = total]

\* The heat's total goes to its runner; with both in, the match is decided.
WithTime(runner) ==
  LET id == CurrentMatch(tournament)
  IN  CASE runner = tournament.matches[id].a -> [matchTimes EXCEPT ![id].a = total]
        [] runner = tournament.matches[id].b -> [matchTimes EXCEPT ![id].b = total]
        [] OTHER -> matchTimes

OnTournamentContinue ==
  LET id     == CurrentMatch(tournament)
      runner == RunnerFor(tournament, matchTimes)
      times  == WithTime(runner)
  IN  /\ phase = "finished" /\ tournament # NoTournament
      /\ id # NoMatch /\ runner # None
      /\ matchTimes' = times
      /\ tournament' = IF times[id].a # None /\ times[id].b # None
                       THEN ReportTimes(tournament, id, times[id].a, times[id].b)
                       ELSE tournament
      /\ IF RunnerFor(tournament', times) # None
         THEN Heat!Announce(RunnerFor(tournament', times))
         ELSE Heat!Abandon
      /\ UNCHANGED setup

-----------------------------------------------------------------------------
(* The race goes its way, or is cancelled on the countdown and on "GO".     *)

RaceGoes ==
  /\ \/ Heat!Go
     \/ \E t \in Times : Heat!FinishWith(t)
     \/ phase \in {"countdown", "racing"} /\ Heat!Abandon
  /\ UNCHANGED <<setup, bracket>>

Setup ==
  \/ AddRacer \/ ChangeMode \/ ToggleTournament
  \/ \E id \in ToSet(lineup) : RemoveRacer(id)
  \/ \E i \in DOMAIN lineup : ChooseNext(i)
Casual == OnStart \/ OnAdvanceLineup \/ RaceAgain
Bracket == OnStartTournament \/ OnResetTournament \/ OnResumeTournament \/ OnTournamentContinue

Next == Setup \/ Casual \/ Bracket \/ RaceGoes
Spec == Init /\ [][Next]_vars

-----------------------------------------------------------------------------
(* Properties.                                                              *)

TypeOK ==
  /\ Heat!RaceOK
  /\ mode \in {"solo", "raceNight"} /\ tournamentOn \in BOOLEAN
  /\ lineup \in SeqOf(RacerIds, MaxRacers)
  /\ ToSet(tournament.racerIds) \subseteq RacerIds
  /\ DOMAIN tournament.matches = Matches(tournament.rounds)
  /\ DOMAIN matchTimes = DOMAIN NoTimes

Of(id) == tournament.matches[id]
Played(id) == Of(id).a # None /\ Of(id).b # None /\ Of(id).winner # None
Loser(id) == IF Of(id).winner = Of(id).a THEN Of(id).b ELSE Of(id).a

\* A bracket that has no champion has a heat to run, by a racer who is still in
\* the lineup: the screen shows nothing but the heat's button, so a bracket
\* that waits for a racer who was removed, or for a match that no winner feeds,
\* could only be thrown away.
BracketGoesOn == InTournament => RunnerFor(tournament, matchTimes) # None

\* The race under way, or just finished, is the heat that the bracket will
\* credit when "Continue" is pressed: the handler looks the runner up again
\* instead of remembering whom it started.
HeatIsCredited ==
  InTournament /\ phase # "idle" => player = RunnerFor(tournament, matchTimes)

\* Who loses a match lost it to the faster of the two (the first to race, on a
\* tie) and races no later match: decide() feeds only winners into the parents.
LosersAreOut ==
  \A id \in DOMAIN tournament.matches : Played(id) =>
    /\ matchTimes[id].a # None /\ matchTimes[id].b # None
    /\ Of(id).winner = Of(id).b <=> matchTimes[id].b < matchTimes[id].a
    /\ \A other \in DOMAIN tournament.matches :
         Before(id, other) => Loser(id) \notin {Of(other).a, Of(other).b}

\* When there is a champion, every other racer of the bracket has lost a match,
\* byes and all: none is left that could still have won (decide(), createTournament()).
OneChampion ==
  tournament.championId # None =>
    {Loser(id) : id \in {m \in DOMAIN tournament.matches : Played(m)}}
      = ToSet(tournament.racerIds) \ {tournament.championId}

\* The heats that a bracket still needs.
HeatsLeft ==
  2 * Cardinality({id \in DOMAIN tournament.matches : Of(id).winner = None})
    - Cardinality({id \in DOMAIN tournament.matches :
                    Of(id).winner = None /\ matchTimes[id].a # None})
    - Cardinality({id \in DOMAIN tournament.matches :
                    Of(id).winner = None /\ matchTimes[id].b # None})

\* No result of a heat is lost, taken back or counted twice: "Continue" brings
\* the bracket exactly one heat nearer to its champion, and nothing else but a
\* new bracket or a reset changes it.
EveryHeatCounts ==
  [][InTournament /\ tournament'.racerIds = tournament.racerIds =>
       \/ phase = "finished" /\ HeatsLeft' = HeatsLeft - 1
       \/ UNCHANGED bracket]_vars

\* The results screen's primary action leads somewhere (the setup, or the next
\* heat): docs/design/redline-v1/SPEC.md:440 says of the results'
\* actions: primary "RACE AGAIN".
ResultsLeadOn ==
  phase = "finished" /\ tournament # NoTournament => CurrentMatch(tournament) # NoMatch
=============================================================================
