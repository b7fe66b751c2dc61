---------------------------------- MODULE Views ----------------------------------
(***************************************************************************)
(* What the views promise, checked over bounded inputs: each assumption     *)
(* states, apart from the code, what a view of RaceView, PortalView,        *)
(* HistoryView or GarageView must show, and is evaluated for every race,    *)
(* status, list of sessions and garage of the small sets below.             *)
(***************************************************************************)
EXTENDS Integers, Sequences, FiniteSets, SequencesExt

CONSTANT Null

R == INSTANCE RaceView WITH None <- Null
P == INSTANCE PortalView WITH None <- Null
H == INSTANCE HistoryView WITH None <- Null
G == INSTANCE GarageView WITH None <- Null

Lists(S, n) == UNION {[1 .. k -> S] : k \in 0 .. n}

-----------------------------------------------------------------------------
(* The race.                                                                *)

Laps == Lists(1 .. 3, 4)
Racing(laps, gateAt) ==
  [phase |-> "racing", laps |-> laps, target |-> 4, player |-> "Ann", uid |-> "t1", gateAt |-> gateAt, result |-> Null]
Races == {Racing(laps, gateAt) : laps \in Laps, gateAt \in {Null, 20}}
Crossings == Lists([uid : {"t1", "t2"}, at : {17, 20}, mph : {0, 5}], 2)

\* The TV keeps the newest laps, under the numbers they were run with.
ASSUME NewestLapsStay == \A laps \in Laps : \A rows \in 3 .. 4 :
  LET shown == R!LapBoard(laps, rows)
  IN  /\ Len(shown) = R!Min2(rows, Len(laps))
      /\ \A i \in DOMAIN shown : shown[i].time = laps[shown[i].lap] /\ shown[i].lap = Len(laps) - Len(shown) + i

\* The phone and the TV agree on the lap, the best lap and the clock.
ASSUME StagesAgree == \A race \in Races : \A now \in {20, 25} :
  LET phone == R!RaceProgress(race, Null, R!useLapClock(now, race.gateAt), TRUE)
      stage == R!RaceHero(race, now)
  IN  phone.lap = stage.lap /\ phone.current = stage.clock /\ R!Hero(race) = "race" /\ R!Side(race) = "laps"

\* The cue of a lap is the announcer's opinion of it, but for the first lap.
ASSUME CueIsAnnounced == \A laps \in Laps :
  (R!nextLapCue(laps) = "bestLap") <=> (Len(laps) >= 2 /\ R!Announced(laps, Len(laps) - 1).best)

\* A marker stays on the track, and a segment fills up once.
ASSUME PaceIsOnTrack == \A elapsed \in -2 .. 9 : \A reference \in {Null, 0, 3, 4} :
  /\ R!projectPace(elapsed, reference) \in {Null} \cup 0 .. 999
  /\ \A race \in Races : \A i \in 1 .. 4 :
       LET segments == R!RaceProgress(race, reference, elapsed, FALSE).segments
       IN  segments[i].fill \in 0 .. 1000 /\ (i > 1 /\ segments[i].fill > 0 => segments[i - 1].fill = 1000)

\* The gate speeds of a race are those of its own car, one for each lap, or none.
ASSUME GateSpeedsAreOfLaps == \A race \in {Racing(<<3>>, 20), Racing(<<3, 3>>, 20), Racing(<<>>, Null)} : \A passes \in Crossings :
  LET speeds == R!lapGateSpeeds(race, passes)
  IN  speeds # Null => Len(speeds) = Len(race.laps) /\ \A i \in DOMAIN speeds : speeds[i] = 5

\* The better heat comes first, a heat without a time last, and none is lost.
ASSUME HeatsAreRanked == \A heats \in [1 .. 2 -> {Null, 1, 2}] :
  LET ranked == R!rankHeats(heats)
  IN  /\ R!ValuesOf(ranked) = DOMAIN heats
      /\ heats[ranked[2]] # Null => heats[ranked[1]] # Null /\ heats[ranked[1]] <= heats[ranked[2]]

\* A record is a faster lap than before, or the first; never equal to the best before.
ASSUME RecordBeats == \A best \in 0 .. 3 : \A before \in {Null, -1, 1, 2, 3} :
  R!raceRecord(best, before).isRecord => best > 0 /\ before # best /\ before # -1

\* The bars are of the laps; the slowest is full.
ASSUME BarsAreOfLaps == \A laps \in Laps :
  LET bars == R!lapBarFractions(laps)
  IN  Len(bars) = Len(laps) /\ \A i, j \in DOMAIN laps : laps[i] <= laps[j] => bars[i] <= bars[j] /\ bars[j] <= 1000

ASSUME RowsFit == \A height \in {0, 480, 720, 1080, 2160} : R!resolveTvRows(height) \in 3 .. 8

-----------------------------------------------------------------------------
(* The portal.                                                              *)

Phases == P!BusyPhases \cup P!FaultPhases \cup {"notFound", "idle", "connected", Null}
Portals == [connection : {"connected", "connecting", "disconnected"}, control : {"carPresent", "transitional", Null},
            phase : Phases, mode : {"live", "demo"}, manual : BOOLEAN]

\* The pill, the chip, the settings card and the press all say the same.
ASSUME OneStatus == \A p \in Portals :
  LET status == P!portalStatusPresentation(p)
  IN  /\ P!StatusPill(p).disabled <=> status.busy
      /\ P!StatusChip(p).disabled <=> P!portalCardPresentation(p).action = Null
      /\ P!usePortalStatusAction(p, TRUE) = "nothing" <=> P!portalCardPresentation(p).action = Null
      /\ P!statusChipPresentation(p).error <=> P!portalCardPresentation(p).error
      /\ (P!portalCardPresentation(p).tone = "connected") <=> p.connection = "connected"
      /\ P!PortalCard(p, FALSE).press # "disconnect"

\* A way out is offered for every fault, and never one the status does not have.
ASSUME FaultsHaveAWayOut == \A p \in Portals :
  p.connection = "disconnected" /\ p.phase \in P!FaultPhases \cup {"notFound"} =>
    /\ P!usePortalStatusAction(p, FALSE) = "retry"
    /\ p.phase # "locked" => P!BleStatusBanner(p.phase) # Null

\* The radio's advice is hidden only while a portal was found, in demo or live.
ASSUME FindOrSpeeds == \A p \in Portals : \A passes \in Lists({[mph |-> 3]}, 1) :
  LET screen == P!SpeedometerScreen(p, Null, Null, passes, 3, "idle", [unit |-> "mph", calibration |-> 100])
  IN  ("find" \in DOMAIN screen) <=> (p.mode = "live" /\ p.connection # "connected" /\ passes = <<>>)

\* A faster pass never reads slower, in any unit and calibration.
ASSUME SpeedsKeepTheirOrder == \A unit \in {"mph", "kmh"} : \A c \in {0, 50, 100, 135, 200, 300} : \A m \in 0 .. 60 :
  LET display == [unit |-> unit, calibration |-> c]
  IN  P!formatSpeedValue(m, display) <= P!formatSpeedValue(m + 1, display)

\* The trace is of the newest passes, oldest first; the last bar is marked.
ASSUME TraceIsNewest == \A values \in Lists({5, 230}, 4) : \A newBest \in BOOLEAN :
  LET bars == P!SpeedTrace(values, newBest, 3)
  IN  /\ Len(bars) = R!Min2(3, Len(values))
      /\ \A i \in DOMAIN bars : bars[i] = "best" => i = Len(bars) /\ newBest

\* The hero is the car on the portal whenever there is one, under its own best.
HeroCars == {Null} \cup [uid : {1, 2}, serial : {Null, "s"}]
ASSUME HeroIsOnPortal == \A current, last \in HeroCars : \A known \in BOOLEAN :
  LET garage == IF known THEN <<[uid |-> 2, serial |-> "g", name |-> Null, bestMph |-> 9]>> ELSE <<>>
      hero   == P!carHeroModel(current, last, garage, Null, 4, Null)
  IN  /\ hero = Null <=> (current = Null /\ last = Null /\ ~known)
      /\ hero # Null => /\ hero.isCurrent <=> (current # Null)
                        /\ hero.bestMph = IF known /\ hero.uid = 2 THEN 9 ELSE 4
                        /\ P!ActiveCarStrip(hero, Null).opens = hero.uid
                        /\ P!CurrentCarHero(hero).context = "best"

\* The live screen warns of a missing radio or of the demo, never of both.
ASSUME LiveWarnsOnce == \A p \in Portals : \A canBle \in BOOLEAN :
  LET live == P!LiveScreen(p, canBle, Null, 0, 0, <<>>, <<>>, [unit |-> "mph", calibration |-> 100])
  IN  ~({"no radio", "demo"} \subseteq live.notices) /\ live.best = Null

ASSUME Spoken == \A before, after \in {Null, 1, 2} :
  /\ P!SpokenStatus(before, after, TRUE) # Null => before # after
  /\ P!SpokenHero(before, after) # Null => P!SpokenStatus(before, after, TRUE) = after

\* A buzz for a record is one the caption and the gauge call a session best.
ASSUME BuzzIsBest == \A passes \in Lists([mph : {0, 3, 4}], 2) : \A best \in {3, 4} :
  P!PassHaptic(passes, best, TRUE) = "record" <=> P!Gauge(passes, best, "idle").newBest

-----------------------------------------------------------------------------
(* The history.  Today is day 20.                                           *)

Session(id, day, passes, best) ==
  [id |-> id, day |-> day, startedAt |-> 1000 * day, endedAt |-> IF day = 20 THEN Null ELSE 1000 * day + 59500,
   passCount |-> passes, bestMph |-> best]
Histories == {[i \in DOMAIN days |-> Session(i, days[i], i, bests[i])] :
                days \in {d \in Lists({6, 14, 20, 21}, 3) : IsSorted(d, LAMBDA a, b : a >= b)},
                bests \in [1 .. 3 -> {0, 4, 7}]}

\* Every session of the fourteen days is in one cell of the strip, with its passes.
ASSUME StripAddsUp == \A sessions \in Histories :
  LET strip == H!heatStrip(sessions, 20, 14)
      cell(i) == strip.days[i]
  IN  /\ Len(strip.days) = 14
      /\ strip.sessions = Cardinality({i \in DOMAIN sessions : sessions[i].day \in 7 .. 20})
      /\ \A i \in 1 .. 14 : cell(i).sessions = Cardinality({k \in DOMAIN sessions : sessions[k].day = cell(i).day})
      /\ (H!HeatStrip(strip).busiest = Null) <=> (strip.sessions = 0)

\* The groups hold every session once, in the order of the list.
ASSUME GroupsPartition == \A sessions \in Histories :
  LET groups == H!groupSessions(sessions, 20)
      ids(s) == [i \in DOMAIN s |-> s[i].id]
  IN  /\ FlattenSeq([g \in DOMAIN groups |-> ids(groups[g].sessions)]) = ids(sessions)
      /\ \A g \in DOMAIN groups : groups[g].sessions # <<>>

\* Whatever the columns, the rows show every session once.
ASSUME RowsShowAll == \A sessions \in Histories : \A columns \in 1 .. 3 :
  LET board == H!HistoryBoard(sessions, 20, 50000, columns)
  IN  /\ FlattenSeq(FlattenSeq(board.sections)) = sessions
      /\ board.clear <=> ~board.empty
      /\ board.records # {} <=> \E i \in DOMAIN sessions : sessions[i].bestMph > 0

\* A line starts at the first pass, ends at the last and touches its top.
ASSUME LineKeepsEnds == \A speeds \in Lists({1, 3, 5}, 5) : \A points \in 2 .. 4 :
  LET line == H!sparkPoints(speeds, points)
  IN  /\ line = Null <=> Len(speeds) < 2
      /\ line # Null /\ speeds[1] < speeds[Len(speeds)] => line[1] < line[Len(line)]

\* A length has no more than 59 seconds, and an open session is counted to now.
ASSUME LengthsRead == \A gap \in {0, 499, 500, 59499, 59500, 90000, 400000} :
  LET closed == H!sessionLength(0, gap, 0) open == H!sessionLength(0, Null, gap)
  IN  closed.unit = "s" => closed.amount < 60 /\ open.amount = closed.amount /\ open.soFar

\* What is shared of a session are its fastest passes, the same the detail marks.
SharedPasses == {[i \in DOMAIN mphs |-> [id |-> i, car |-> i, mph |-> mphs[i]]] : mphs \in Lists({0, 3, 5}, 4)}
ASSUME FastestIsShared == \A passes \in SharedPasses :
  LET session == Session(1, 20, Len(passes), 5)
      shared  == H!sessionShareText(session, passes, [c \in {1} |-> "n"], 3)
      detail  == H!SessionDetailScreen(session, passes, {1}, 30000)
  IN  /\ Len(shared.top) = R!Min2(3, Len(passes)) /\ IsSorted(shared.top, LAMBDA a, b : a.mph >= b.mph)
      /\ \A i \in DOMAIN detail.rows : detail.rows[i].fastest => passes[i].mph = shared.top[1].mph
      /\ detail.share <=> shared.top # <<>>

ASSUME TicketAndRecap == \A sessions \in Histories : \A i \in DOMAIN sessions :
  /\ H!SessionTicket(sessions[i], 50000, FALSE, Null).live <=> H!sessionShareText(sessions[i], <<>>, <<>>, 3).length = Null
  /\ H!raceShareText([car |-> 1, laps |-> <<500, 6100>>, bestLapNum |-> 1, total |-> 6600], Null).total.minutes = 1

-----------------------------------------------------------------------------
(* The garage and the trophies.                                             *)

Garages == {[i \in DOMAIN us |-> [uid |-> us[i], seen |-> seen[us[i]], mph |-> mph[us[i]], lap |-> 0, races |-> 0, name |-> Null]] :
              us \in {s \in Lists(1 .. 3, 3) : IsInjective(s)}, seen \in [1 .. 3 -> 1 .. 2], mph \in [1 .. 3 -> {0, 4, 7}]}
Names == <<"s1", "s2">>
Identities == [1 .. 3 -> {Null, [name |-> "c1", series |-> "s1"], [name |-> "c2", series |-> "s2"]}]

\* A plate is a car's own, whatever the order of the list.
ASSUME PlatesAreOwn == \A cars \in Garages :
  /\ {G!plateNumber(cars, cars[i].uid) : i \in DOMAIN cars} = DOMAIN cars
  /\ \A i \in DOMAIN cars : G!plateNumber(cars, cars[i].uid) = G!plateNumber(Reverse(cars), cars[i].uid)

\* First place, and it alone, is a record; the tag is of the first three places.
ASSUME RecordIsFirst == \A cars \in Garages : \A u \in 1 .. 3 :
  /\ u \in G!recordHolders(cars) <=> G!garageRank(cars, u) = 1
  /\ G!garageRankTag(G!garageRank(cars, u)) # Null => G!garageRank(cars, u) \in 1 .. 3
  /\ G!bestArcFraction(4, 7) \in 0 .. 1000

\* The chips are the series present, most cars first, and each shows its cars.
ASSUME ChipsAreSeries == \A cars \in {g \in Garages : Len(g) = 3 /\ \A i \in 1 .. 3 : g[i].seen = 1 /\ g[i].mph = 4} :
  \A identity \in Identities :
    LET filters == G!seriesFilters(cars, identity, Names)
    IN  /\ IsSorted(filters, LAMBDA f, g : f.count >= g.count)
        /\ \A i \in DOMAIN filters : /\ Len(G!filterBySeries(cars, identity, filters[i].series)) = filters[i].count
                                     /\ G!seriesColor(filters, filters[i].series) = filters[i].color
        /\ \A columns \in 2 .. 3 :
             LET screen == G!GarageScreen(cars, identity, {"c1"}, 1, "s1", Names, columns)
             IN  /\ Len(screen.board.tiles) % columns = 0
                 /\ screen.board.chips # <<>> => Cardinality({i \in DOMAIN screen.board.chips : screen.board.chips[i]}) = 1
                 /\ \A i \in DOMAIN screen.board.tiles :
                      screen.board.tiles[i] # Null =>
                        LET card == G!GarageCard(screen.board.tiles[i])
                        IN  (card.opens = "detail") <=> identity[screen.board.tiles[i].uid] # Null

\* The hint counts the copies the next pick labels, and the rank is the tag's.
ASSUME DetailCounts == \A identity \in Identities : \A links \in [1 .. 3 -> {Null, "k"}] :
  LET cars   == [i \in 1 .. 2 |-> [uid |-> i, seen |-> i, mph |-> 0, lap |-> 0, races |-> 0, name |-> Null]]
      screen == G!CarDetailScreen(cars, identity, {"c1"}, links, 1, 1, Null, Names)
  IN  /\ screen.hint # Null => links[1] = links[2]
      /\ screen.rank = Null /\ ~screen.save /\ screen.missing = FALSE
      /\ G!CarDetailScreen(cars, identity, {"c1"}, links, 3, 1, Null, Names).missing

\* A draft the field was mounted with before the car was there is not the car's
\* name: leaving the field untouched clears it (see the README).
ASSUME StaleDraft ==
  LET named == [uid |-> 1, seen |-> 1, mph |-> 0, lap |-> 0, races |-> 0, name |-> "Bolt"]
  IN  G!saveName(G!DraftOf(<<>>, 1), named.name) = [writes |-> TRUE, name |-> Null]

\* Seconds, minutes, hours, days: the label never goes back to a smaller unit.
ASSUME SeenReads == \A pair \in {<<44999, "now">>, <<45000, "m">>, <<3599999, "m">>, <<3600000, "h">>,
                                 <<86399999, "h">>, <<86400000, "d">>, <<604799999, "d">>, <<604800000, "date">>} :
  G!lastSeen(0, pair[1]).unit = pair[2]

\* The trophy shown as the latest is the last one the banner showed.
Shelf == {[i \in 1 .. 3 |-> [id |-> i, category |-> "c", at |-> at[i], value |-> 2, threshold |-> 3, lte |-> FALSE]] :
            at \in [1 .. 3 -> {Null, 1, 2}]}
ASSUME LatestIsLast == \A views \in Shelf :
  LET shelf == G!TrophyCase(views, <<"c">>)
  IN  /\ shelf.latest = Null <=> shelf.unlocked = 0
      /\ shelf.latest # Null => \A i \in DOMAIN views : views[i].at # Null =>
           views[i].at < shelf.latest.at \/ (views[i].at = shelf.latest.at /\ views[i].id <= shelf.latest.id)
      /\ \A i \in DOMAIN views : (G!medallionProgress(views[i]) = Null) <=> views[i].at # Null
      /\ Len(shelf.groups[1]) = shelf.total /\ Cardinality(G!MoreScreen(shelf.unlocked, 3)) = 5

\* Before the start, the countdown's lights and the boards.
ASSUME StartIsOffered == \A p \in Portals : \A lineup \in {<<>>, <<[car |-> Null]>>, <<[car |-> Null], [car |-> "t1"]>>} : \A mode \in {"solo", "raceNight"} :
  /\ R!RaceSetup(mode, lineup, "", p.connection).start => R!portalReadiness(p.connection).ready /\ ~R!PortalRecovery(p.connection)
  /\ R!TournamentToggle(mode, lineup, TRUE).on => mode = "raceNight" /\ Len(lineup) > 1
  /\ \A i \in DOMAIN lineup : R!LineupCard(lineup, i, "t1").makeNext => ~R!LineupCard(lineup, i, "t1").upNext
  /\ R!resultPrimaryActionLabel(mode, lineup, "Bo") = "Bo" <=> mode = "raceNight" /\ Len(lineup) > 1
ASSUME LightsCountDown == \A count \in -1 .. 5 :
  LET lights == R!RaceCountdown(count, "Ann", Null, R!countdownBestLap({}, "Ann", Null), Null).lights
  IN  lights.lit \in 1 .. 3 /\ (lights.go <=> count <= 0) /\ (count \in 1 .. 3 => lights.lit + lights.digit = 4)
ASSUME BoardsRead ==
  LET result == [best |-> 2, laps |-> <<3, 2>>, total |-> 5]
      shown  == R!RaceResults(result, 3, Null, Null)
  IN  /\ shown.record = [isRecord |-> TRUE, improvement |-> 1] /\ shown.chart[2].fastest /\ ~shown.chart[1].fastest
      /\ R!FinishHero(result).laps = 2 /\ R!RaceLeaderboard(<<result>>).clear
      /\ R!Standings(<<result>>, 3) = <<result>> /\ R!SpeedHero(<<[mph |-> 4]>>, 4).needle = 4
      /\ R!PassBoard(<<[mph |-> 4]>>, 4, 3)[1].best
      /\ R!RaceCar(R!presentRaceCar("t1", Null), Null).meta = "Unidentified car"
      /\ R!CarCard(Null, Null).subtitle = "No car" /\ R!TvHeader("connected", Racing(<<>>, Null)).mode = "Ann"
      /\ R!LiveLapList(Racing(<<3, 2>>, 20), <<>>).rows[1].delta = 1
ASSUME BracketShowsHeats ==
  LET match == [id |-> "m1", round |-> 2, a |-> 1, b |-> 2, winner |-> 2]
      card  == CHOOSE c \in R!BracketCard([rounds |-> 2, matches |-> {match}], "m1", [m1 |-> <<5, 4>>]) : TRUE
  IN  card.round = "Final" /\ card.racing /\ card.rows[1] = [racer |-> 2, winner |-> TRUE]
=============================================================================
