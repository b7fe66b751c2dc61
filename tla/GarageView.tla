------------------------------- MODULE GarageView -------------------------------
(***************************************************************************)
(* What the Garage, a car's detail and the trophy case make of the stores:   *)
(* pure functions (apps/mobile/src/garage/*.ts, achievements/                *)
(* trophyPresentation.ts, catalog/useCarIdentity.ts) and the screens that    *)
(* draw them.                                                               *)
(*                                                                         *)
(* A car is [uid, seen, mph, lap, races, name]: uid and seen (firstSeen) are *)
(* numbers, as only their order counts.  identity gives a car's catalog car, *)
(* [name, series], or None; lap is 0 for a car that finished no race.         *)
(***************************************************************************)
EXTENDS Integers, Sequences, FiniteSets, SequencesExt

CONSTANT None

Cars(cars) == ToSet(cars)
CarOf(cars, uid) == CHOOSE c \in Cars(cars) : c.uid = uid
Has(cars, uid) == \E c \in Cars(cars) : c.uid = uid

-----------------------------------------------------------------------------
(* A car among the others.                                                  *)

\* Numbered in the order they were first seen, whatever the order of the list.
plateNumber(cars, uid) ==
  LET before(c, d) == c.seen < d.seen \/ (c.seen = d.seen /\ c.uid < d.uid)
  IN  IF Has(cars, uid) THEN 1 + Cardinality({c \in Cars(cars) : before(c, CarOf(cars, uid))}) ELSE None

\* Ties share a place; a car without a speed has none.
garageRank(cars, uid) ==
  IF Has(cars, uid) /\ CarOf(cars, uid).mph > 0
  THEN 1 + Cardinality({c \in Cars(cars) : c.mph > CarOf(cars, uid).mph}) ELSE None

garageRankTag(rank) == IF rank # None /\ rank <= 3 THEN rank ELSE None

\* Thousandths of the full scale.
bestArcFraction(mph, max) ==
  IF mph <= 0 \/ max <= 0 THEN 0 ELSE IF mph > max THEN 1000 ELSE (1000 * mph) \div max

SERIES_COLORS == 5
SeriesOf(identity, c) == IF identity[c.uid] = None THEN None ELSE identity[c.uid].series
CountOf(cars, identity, s) == Cardinality({c \in Cars(cars) : SeriesOf(identity, c) = s})

\* The series present, most cars first, then by name; colours repeat after the fifth.
seriesFilters(cars, identity, names) ==
  LET present      == {s \in ToSet(names) : CountOf(cars, identity, s) > 0}
      before(s, t) == \/ CountOf(cars, identity, s) > CountOf(cars, identity, t)
                      \/ /\ CountOf(cars, identity, s) = CountOf(cars, identity, t)
                         /\ \E i, j \in DOMAIN names : i < j /\ names[i] = s /\ names[j] = t
  IN  [k \in 1 .. Cardinality(present) |->
         LET s == CHOOSE t \in present : Cardinality({u \in present : before(u, t)}) = k - 1
         IN  [series |-> s, count |-> CountOf(cars, identity, s), color |-> (k - 1) % SERIES_COLORS]]

\* A series that no car has any more selects every car.
filterBySeries(cars, identity, selected) ==
  IF selected = None \/ CountOf(cars, identity, selected) = 0 THEN cars
  ELSE SelectSeq(cars, LAMBDA c : SeriesOf(identity, c) = selected)

seriesColor(filters, series) ==
  LET of == {f \in ToSet(filters) : f.series = series}
  IN  IF series = None \/ of = {} THEN None ELSE (CHOOSE f \in of : TRUE).color

recordHolders(cars) ==
  {c.uid : c \in {d \in Cars(cars) : d.mph > 0 /\ \A e \in Cars(cars) : e.mph <= d.mph}}

\* How many cars of the garage a pick for this car would label.
castingCoverageForUid(cars, links, uid) ==
  LET matched == {c.uid : c \in {d \in Cars(cars) : links[d.uid] = links[uid]}}
      labelled == IF matched = {} THEN {uid} ELSE matched
  IN  IF uid = None THEN None
      ELSE IF links[uid] = None THEN None
      ELSE [total |-> Cardinality(labelled), other |-> Cardinality(labelled) - 1]

-----------------------------------------------------------------------------
(* The grid.                                                                *)

garageCardModel(cars, c, identity, photos, filters, onPortal) ==
  LET known == identity[c.uid]
  IN  [uid |-> c.uid, plate |-> plateNumber(cars, c.uid),
       name |-> IF known # None THEN known.name ELSE c.name,
       identified |-> known # None,
       color |-> seriesColor(filters, SeriesOf(identity, c)),
       photo |-> known # None /\ known.name \in photos,
       best  |-> IF c.mph > 0 THEN c.mph ELSE None, races |-> c.races,
       onPortal |-> c.uid = onPortal, record |-> c.uid \in recordHolders(cars)]

\* The last row is filled up, so that its cards keep their width.
padGrid(items, columns) ==
  LET over == IF columns > 1 THEN Len(items) % columns ELSE 0
  IN  IF over = 0 THEN items ELSE items \o [i \in 1 .. columns - over |-> None]

\* Where a card leads, and what it is drawn with.
GarageCard(card) ==
  [opens |-> IF card.identified THEN "detail" ELSE "identify",
   name  |-> IF card.name # None THEN card.name ELSE "mystery",
   photo |-> card.identified /\ card.photo,
   plate |-> IF card.identified THEN card.plate ELSE None,
   onPortal |-> card.onPortal]

GarageBoard(cards, filters, active, columns) ==
  [chips |-> IF filters = <<>> THEN <<>> ELSE <<active = None>> \o [i \in DOMAIN filters |-> filters[i].series = active],
   tiles |-> padGrid(cards, columns)]

GarageScreen(cars, identity, photos, onPortal, selected, names, columns) ==
  LET filters == seriesFilters(cars, identity, names)
      active  == IF \E f \in ToSet(filters) : f.series = selected THEN selected ELSE None
      visible == filterBySeries(cars, identity, active)
      cards   == [i \in DOMAIN visible |-> garageCardModel(cars, visible[i], identity, photos, filters, onPortal)]
  IN  [count      |-> Len(cars),
       identified |-> Cardinality({c \in Cars(cars) : identity[c.uid] # None}),
       onPortal   |-> onPortal # None /\ Has(cars, onPortal),
       board      |-> GarageBoard(cards, filters, active, columns)]

-----------------------------------------------------------------------------
(* A car's detail.  The nickname's field keeps the draft it was mounted with. *)

DraftOf(cars, uid) == IF Has(cars, uid) THEN CarOf(cars, uid).name ELSE None

\* Leaving the field: None for a blank draft, which clears the name.
saveName(draft, name) == [writes |-> draft # name, name |-> draft]

lastSeen(at, now) ==
  LET seconds == (now - at) \div 1000
      minutes == seconds \div 60
      hours   == minutes \div 60
  IN  CASE seconds < 45                   -> [unit |-> "now", n |-> 0]
        [] seconds >= 45 /\ minutes < 60  -> [unit |-> "m", n |-> IF minutes < 1 THEN 1 ELSE minutes]
        [] minutes >= 60 /\ hours < 24    -> [unit |-> "h", n |-> hours]
        [] hours >= 24 /\ hours < 168     -> [unit |-> "d", n |-> hours \div 24]
        [] OTHER                          -> [unit |-> "date", n |-> 0]

CarDetailScreen(cars, identity, photos, links, uid, onPortal, draft, names) ==
  IF ~Has(cars, uid) THEN [missing |-> TRUE]
  ELSE LET c     == CarOf(cars, uid)
           known == identity[uid]
           cover == castingCoverageForUid(cars, links, uid)
       IN  [missing  |-> FALSE, plate |-> plateNumber(cars, uid),
            title    |-> IF known # None THEN known.name ELSE c.name,
            photo    |-> known # None /\ known.name \in photos,
            swatch   |-> seriesColor(seriesFilters(cars, identity, names), SeriesOf(identity, c)),
            identify |-> IF known # None THEN "change" ELSE "identify",
            hint     |-> CASE known = None /\ cover # None /\ cover.other > 0 -> cover.other
                           [] known # None /\ cover # None /\ cover.total > 1 -> cover.total
                           [] OTHER -> None,
            best     |-> IF c.mph > 0 THEN c.mph ELSE None,
            rank     |-> garageRankTag(garageRank(cars, uid)),
            lap      |-> IF c.lap > 0 THEN c.lap ELSE None,
            races    |-> c.races, seen |-> uid = onPortal,
            save     |-> draft # c.name]

-----------------------------------------------------------------------------
(* The trophy case.  A view is [id, category, at, value, threshold, lte].    *)

medallionProgress(v) ==
  IF v.at # None \/ v.value <= 0 THEN None
  ELSE IF v.lte THEN [value |-> v.value] ELSE [value |-> v.value, of |-> v.threshold]

\* Of those stamped together, the last of the catalog.
latestUnlock(views) ==
  LET latest == {i \in DOMAIN views : /\ views[i].at # None
                                      /\ \A j \in DOMAIN views : views[j].at # None => views[j].at <= views[i].at}
  IN  IF latest = {} THEN None ELSE views[CHOOSE i \in latest : \A j \in latest : j <= i]

TrophyCase(views, categories) ==
  [unlocked |-> Cardinality({i \in DOMAIN views : views[i].at # None}), total |-> Len(views),
   latest   |-> latestUnlock(views),
   groups   |-> [k \in DOMAIN categories |->
                   SelectSeq(views, LAMBDA v : v.category = categories[k])]]

\* The way to the rarer screens; only the trophies show how far they are.
MoreScreen(unlocked, total) ==
  {[href |-> h, progress |-> IF h = "achievements" THEN <<unlocked, total>> ELSE None] :
     h \in {"achievements", "live", "tv", "settings", "credits"}}
=============================================================================
