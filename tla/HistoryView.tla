------------------------------ MODULE HistoryView ------------------------------
(***************************************************************************)
(* What the History screens and the share sheet make of the sessions read   *)
(* from the database: pure functions (apps/mobile/src/history/heat.ts and    *)
(* format.ts, share/summary.ts) and the views that draw them.                *)
(*                                                                         *)
(* A session is [id, day, startedAt, endedAt, passCount, bestMph]: day is the *)
(* number of its local calendar day (the calendar is the platform's), the    *)
(* instants are whole milliseconds and endedAt is None while it is open.  A  *)
(* pass is [id, car, mph].  Speeds that are not finite do not occur in a      *)
(* database of passes, and are left out.                                     *)
(***************************************************************************)
EXTENDS Integers, Sequences, FiniteSets, SequencesExt, Functions

CONSTANT None

Larger(a, b)  == IF a > b THEN a ELSE b
Smaller(a, b) == IF a < b THEN a ELSE b

-----------------------------------------------------------------------------
(* The list.                                                                *)

\* Oldest day first, today last.
heatStrip(sessions, today, days) ==
  LET dayOf(i) == today - days + i
      on(i)    == {k \in DOMAIN sessions : sessions[k].day = dayOf(i)}
      drawn    == {k \in DOMAIN sessions : sessions[k].day \in today - days + 1 .. today}
      passes(K) == SumFunctionOnSet([k \in DOMAIN sessions |-> sessions[k].passCount], K)
  IN  [days     |-> [i \in 1 .. days |->
                       [day |-> dayOf(i), sessions |-> Cardinality(on(i)), passes |-> passes(on(i)),
                        level |-> Smaller(3, Cardinality(on(i))), isToday |-> i = days]],
       sessions |-> Cardinality(drawn), passes |-> passes(drawn)]

\* The day the spoken summary names: the last of the busiest.
heatStripLabel(strip) ==
  LET busy == {i \in DOMAIN strip.days : /\ strip.days[i].sessions > 0
                                         /\ \A j \in DOMAIN strip.days : strip.days[j].sessions <= strip.days[i].sessions}
  IN  IF busy = {} THEN None ELSE strip.days[CHOOSE i \in busy : \A j \in busy : j <= i].day

HeatStrip(strip) == [cells |-> [i \in DOMAIN strip.days |-> strip.days[i].level], busiest |-> heatStripLabel(strip)]

GroupKeys == <<"TODAY", "THIS WEEK", "EARLIER">>
GroupOf(day, today) == CASE day >= today -> "TODAY" [] day < today /\ day >= today - 6 -> "THIS WEEK" [] OTHER -> "EARLIER"

groupSessions(sessions, today) ==
  LET of(key) == SelectSeq(sessions, LAMBDA s : GroupOf(s.day, today) = key)
  IN  [k \in DOMAIN SelectSeq(GroupKeys, LAMBDA key : of(key) # <<>>) |->
         LET key == SelectSeq(GroupKeys, LAMBDA q : of(q) # <<>>)[k] IN [key |-> key, sessions |-> of(key)]]

\* The sessions that hold the best speed of all.
recordSessionIds(sessions) ==
  {s.id : s \in {t \in ToSet(sessions) : t.bestMph > 0 /\ \A u \in ToSet(sessions) : u.bestMph <= t.bestMph}}

\* Whole seconds up to a minute, whole minutes from there; rounded to the nearest.
sessionLength(startedAt, endedAt, now) ==
  LET seconds == Larger(0, ((IF endedAt = None THEN now ELSE endedAt) - startedAt + 500) \div 1000)
  IN  [amount |-> IF seconds < 60 THEN seconds ELSE (seconds + 30) \div 60,
       unit   |-> IF seconds < 60 THEN "s" ELSE "min", soFar |-> endedAt = None]

\* The heights of a sparkline, lowest 0 and highest 1000; half for a flat one.
sparkPoints(speeds, maxPoints) ==
  LET count   == Smaller(maxPoints, Len(speeds))
      at(i)   == (2 * (i - 1) * (Len(speeds) - 1) + count - 1) \div (2 * (count - 1))
      sampled == [i \in 1 .. count |-> speeds[at(i) + 1]]
      low     == CHOOSE v \in ToSet(sampled) : \A w \in ToSet(sampled) : v <= w
      high    == CHOOSE v \in ToSet(sampled) : \A w \in ToSet(sampled) : v >= w
  IN  IF Len(speeds) < 2 THEN None
      ELSE [i \in 1 .. count |-> IF high = low THEN 500 ELSE (1000 * (sampled[i] - low)) \div (high - low)]

\* Newest first from the repository; the line is drawn oldest first.
SessionTicket(s, now, record, spark) ==
  [id |-> s.id, live |-> s.endedAt = None, length |-> sessionLength(s.startedAt, s.endedAt, now),
   passes |-> s.passCount, best |-> IF s.bestMph > 0 THEN s.bestMph ELSE None, record |-> record, spark |-> spark]

\* sessions is None until the first read is answered.  Each row holds `columns` tickets.
HistoryBoard(sessions, today, now, columns) ==
  LET list == IF sessions = None THEN <<>> ELSE sessions
      rows(ss) == [r \in 1 .. (Len(ss) + columns - 1) \div columns |->
                     SubSeq(ss, (r - 1) * columns + 1, Smaller(r * columns, Len(ss)))]
  IN  [clear    |-> list # <<>>,
       strip    |-> IF list = <<>> THEN None ELSE HeatStrip(heatStrip(list, today, 14)),
       sections |-> [g \in DOMAIN groupSessions(list, today) |-> rows(groupSessions(list, today)[g].sessions)],
       records  |-> recordSessionIds(list),
       empty    |-> sessions = <<>>]

-----------------------------------------------------------------------------
(* The detail: passes, newest first, or None until they are read.           *)

MAX_BARS == 60

\* The first of the fastest, which is the newest: None when nothing moved.
Fastest(passes) ==
  LET best == {i \in DOMAIN passes : passes[i].mph > 0 /\ \A j \in DOMAIN passes : passes[j].mph <= passes[i].mph}
  IN  IF best = {} THEN None ELSE passes[CHOOSE i \in best : \A j \in best : i <= j].id

\* Numbered from the session's first pass.
PassRow(passes, i, cars) ==
  [number |-> Len(passes) - i + 1, pass |-> passes[i], fastest |-> passes[i].id = Fastest(passes),
   name |-> CASE passes[i].car = None -> "unknown" [] passes[i].car \in cars -> "named" [] OTHER -> "uid",
   opens |-> passes[i].car]

SessionDetailScreen(session, passes, cars, now) ==
  LET list == IF passes = None THEN <<>> ELSE passes
  IN  [share |-> session # None /\ list # <<>>,
       stats |-> IF session = None THEN None
                 ELSE [passes |-> session.passCount, best |-> session.bestMph,
                       length |-> sessionLength(session.startedAt, session.endedAt, now)],
       bars  |-> LET shown == Smaller(MAX_BARS, Len(list))
                 IN  [i \in 1 .. shown |-> list[shown + 1 - i].mph],
       rows  |-> [i \in DOMAIN list |-> PassRow(list, i, cars)],
       empty |-> passes = <<>>]

-----------------------------------------------------------------------------
(* The share sheet.                                                         *)

\* Minutes and hundredths of a second: a time is whole hundredths here.
formatLapTime(t) == [minutes |-> IF t >= 6000 THEN t \div 6000 ELSE None, rest |-> t % 6000]

formatDuration(startedAt, endedAt) ==
  LET seconds == (Larger(0, endedAt - startedAt) + 500) \div 1000
  IN  IF endedAt = None THEN None ELSE [minutes |-> seconds \div 60, seconds |-> seconds % 60]

raceShareText(result, carName) ==
  [car  |-> IF carName # None THEN carName ELSE result.car,
   laps |-> [i \in DOMAIN result.laps |-> [time |-> formatLapTime(result.laps[i]), flash |-> i = result.bestLapNum]],
   best |-> result.bestLapNum, total |-> formatLapTime(result.total)]

\* The fastest passes first, in the order of the list where they tie.
sessionShareText(session, passes, names, topN) ==
  LET before(i, j) == passes[i].mph > passes[j].mph \/ (passes[i].mph = passes[j].mph /\ i < j)
      sorted == [k \in DOMAIN passes |->
                   CHOOSE i \in DOMAIN passes : Cardinality({j \in DOMAIN passes : before(j, i)}) = k - 1]
  IN  [passes |-> session.passCount, best |-> session.bestMph,
       length |-> formatDuration(session.startedAt, session.endedAt),
       top    |-> [k \in 1 .. Smaller(Larger(0, topN), Len(passes)) |->
                     LET p == passes[sorted[k]]
                     IN  [mph |-> p.mph, name |-> IF p.car \in DOMAIN names THEN names[p.car] ELSE p.car]]]
=============================================================================
