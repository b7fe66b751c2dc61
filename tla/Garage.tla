------------------------------- MODULE Garage -------------------------------
(***************************************************************************)
(* The garage, from the portal's events to the table and back: the car of   *)
(* the portal store (apps/mobile/src/store/portalStore.ts), the garage half *)
(* of wirePortalBridges (store/persistence/initPersistence.ts), the mirror  *)
(* (store/garageStore.ts, carRepository.ts), the statements                 *)
(* (sqliteCarRepository.ts, sqliteRaceRepository.ts), and the record a race *)
(* is compared with (app/(tabs)/race.tsx, race/records.ts).                 *)
(*                                                                         *)
(* A dispatch and what the subscribed bridge does about it are one step.    *)
(* The writes wait in the order they were issued, each for one statement of *)
(* the shared connection (expo-sqlite, external), which may be rejected.    *)
(* History's addPass opens a transaction on that same connection, which is  *)
(* not exclusive; of addPass only that transaction is here, one at a time   *)
(* (SqliteSessions has the rest).  Timestamps, and the order of the list    *)
(* they give, are left out.  The serial of car u is written u.              *)
(***************************************************************************)
EXTENDS Integers, Sequences, FiniteSetsExt

CONSTANTS Uids, Speeds, Laps, Names,
          MaxArrivals, MaxPasses, MaxWrites, MaxStarts    \* bounds

ASSUME ValuesAssumption == 0 \notin Uids /\ Speeds \cup Laps \cup Names \subseteq Nat \ {0}
ASSUME BoundsAssumption == {MaxArrivals, MaxPasses, MaxWrites, MaxStarts} \subseteq Nat

VARIABLES
  on, announced, quiet,        \* the portal: the car on it, told so; a removal was not told
  connected, car, head, passCounter,     \* portal store; head: the id of passes[0]
  wired, lastUid, lastSerial, lastPassId,    \* wirePortalBridges
  garage, writes,              \* the mirror; the statements it issued that are not settled
  db, before, tx,              \* the tables, what BEGIN found, and addPass's next statement
  starts, issued,              \* runs of the application, writes issued: both bounded
  arrivals, fastest, banked, claim,      \* history: what really happened
  lost, mixed                  \* history: cars whose writes failed; cars a lost removal mixed up

portal  == <<on, announced, quiet>>
store   == <<connected, car, head, passCounter>>
bridge  == <<wired, lastUid, lastSerial, lastPassId>>
mirror  == <<garage, writes>>
disk    == <<db, before, tx>>
bounds  == <<starts, issued>>
truth   == <<arrivals, fastest, banked, claim, lost, mixed>>
vars    == <<portal, store, bridge, mirror, disk, bounds, truth>>

None   == 0      \* null, and the empty uid
NoCar  == [uid |-> None, serial |-> None]
Absent == [detections |-> -1]        \* no such row
NoRace == [races |-> 0, best |-> None]

Rows    == [name : Names \cup {None}, serial : Uids \cup {None}, detections : Nat, bestMph : Nat]
Results == [races : Nat, best : Laps \cup {None}]
Tables  == [cars : [Uids -> Rows \cup {Absent}], results : [Uids -> Results]]
Empty   == [cars |-> [u \in Uids |-> Absent], results |-> [u \in Uids |-> NoRace]]
Writes  == [op : {"detection", "serial", "speed", "name", "result"}, uid : Uids, arg : Nat \cup Uids]

TypeOK ==
  /\ on \in Uids \cup {None} /\ {announced, quiet, connected, wired} \subseteq BOOLEAN
  /\ car \in [uid : Uids \cup {None}, serial : Uids \cup {None}]
  /\ head \in 0 .. passCounter
  /\ \A u \in Uids : garage[u] # Absent => garage[u].row \in Rows
  /\ writes \in Seq(Writes) /\ db \in Tables /\ before \in Tables
  /\ tx \in {"none", "begin", "open"}
  /\ ~wired => writes = <<>> /\ tx = "none"

Init ==
  /\ on = None /\ announced = FALSE /\ quiet = FALSE
  /\ connected = FALSE /\ car = NoCar /\ head = 0 /\ passCounter = 0
  /\ wired = FALSE /\ lastUid = None /\ lastSerial = None /\ lastPassId = 0
  /\ garage = [u \in Uids |-> Absent] /\ writes = <<>>
  /\ db = Empty /\ before = Empty /\ tx = "none"
  /\ starts = 0 /\ issued = 0
  /\ arrivals = [u \in Uids |-> 0] /\ fastest = [u \in Uids |-> 0]
  /\ banked = [u \in Uids |-> NoRace] /\ claim = <<>>
  /\ lost = {} /\ mixed = {}

Arrivals == MapThenSumSet(LAMBDA u : arrivals[u], Uids)
Larger(a, b) == IF a > b THEN a ELSE b
Faster(a, b) == IF a = None \/ b < a THEN b ELSE a

-----------------------------------------------------------------------------
(* The mirror: the reducers of carRepository.ts, and the sinks they feed.   *)
(* g is [cars, writes]; the race columns of a car are those of its hydrate. *)

Blank == [name |-> None, serial |-> None, detections |-> 0, bestMph |-> 0]
Known(g, u) == g.cars[u] # Absent
Issue(g, cars, op, u, arg) ==
  [cars |-> cars, writes |-> Append(g.writes, [op |-> op, uid |-> u, arg |-> arg])]
Put(g, u, row) ==
  [g.cars EXCEPT ![u] = [row |-> row, races |-> IF Known(g, u) THEN @.races ELSE NoRace]]
RowOf(g, u) == IF Known(g, u) THEN g.cars[u].row ELSE Blank

RecordDetection(g, u, serial) ==
  Issue(g, Put(g, u, [RowOf(g, u) EXCEPT !.detections = @ + 1,
                                         !.serial = IF serial # None THEN serial ELSE @]),
        "detection", u, serial)

RecordSerial(g, u, serial) ==
  Issue(g, IF Known(g, u) THEN Put(g, u, [RowOf(g, u) EXCEPT !.serial = serial]) ELSE g.cars,
        "serial", u, serial)

RecordSpeed(g, u, mph) ==
  Issue(g, Put(g, u, [RowOf(g, u) EXCEPT !.bestMph = Larger(@, mph)]), "speed", u, mph)

Mirror == [cars |-> garage, writes |-> writes]
MirrorBecomes(g) ==
  /\ garage' = g.cars /\ writes' = g.writes
  /\ issued' = issued + Len(g.writes) - Len(writes) /\ issued' <= MaxWrites

-----------------------------------------------------------------------------
(* The statements.                                                          *)

\* Mutant: ON CONFLICT takes the serial of the new placement, null or not.
UpsertOverwrites(row, w) ==
  CASE w.op = "detection" /\ row = Absent -> [Blank EXCEPT !.detections = 1, !.serial = w.arg]
    [] w.op = "detection" /\ row # Absent -> [row EXCEPT !.detections = @ + 1, !.serial = w.arg]
    [] w.op = "speed" /\ row = Absent     -> [Blank EXCEPT !.bestMph = w.arg]
    [] w.op = "speed" /\ row # Absent     -> [row EXCEPT !.bestMph = Larger(@, w.arg)]
    [] w.op = "serial" /\ row # Absent    -> [row EXCEPT !.serial = w.arg]
    [] w.op = "name" /\ row # Absent      -> [row EXCEPT !.name = w.arg]
    [] OTHER                              -> row

\* INSERT ... ON CONFLICT(uid) DO UPDATE, and UPDATE ... WHERE uid.
Upsert(row, w) ==
  CASE w.op = "detection" /\ row = Absent -> [Blank EXCEPT !.detections = 1, !.serial = w.arg]
    [] w.op = "detection" /\ row # Absent ->
         [row EXCEPT !.detections = @ + 1, !.serial = IF w.arg # None THEN w.arg ELSE @]
    [] w.op = "speed" /\ row = Absent     -> [Blank EXCEPT !.bestMph = w.arg]
    [] w.op = "speed" /\ row # Absent     -> [row EXCEPT !.bestMph = Larger(@, w.arg)]
    [] w.op = "serial" /\ row # Absent    -> [row EXCEPT !.serial = w.arg]
    [] w.op = "name" /\ row # Absent      -> [row EXCEPT !.name = w.arg]
    [] OTHER                              -> row

\* A result is inserted; what a car has of them is MIN(best_lap) and COUNT.
SaveResult(r, lap) == [races |-> r.races + 1, best |-> Faster(r.best, lap)]

Perform(d, w) ==
  IF w.op = "result" THEN [d EXCEPT !.results[w.uid] = SaveResult(@, w.arg)]
  ELSE [d EXCEPT !.cars[w.uid] = Upsert(@, w)]

\* getCars(): the cars with what race_results holds of them.
GetCars(d) ==
  [u \in Uids |-> IF d.cars[u] = Absent THEN Absent
                  ELSE [row |-> d.cars[u], races |-> d.results[u]]]

-----------------------------------------------------------------------------
(* The bridge.                                                              *)

\* Mutant: the last uid is kept while no car is there.
ObserveKeepsUid(c, p) ==
  LET placed  == IF c.uid # None /\ c.uid # lastUid THEN RecordDetection(Mirror, c.uid, c.serial)
                 ELSE IF c.uid # None /\ c.serial # None /\ c.serial # lastSerial
                 THEN RecordSerial(Mirror, c.uid, c.serial)
                 ELSE Mirror
      crosses == p.id # 0 /\ p.id # lastPassId
  IN  /\ MirrorBecomes(IF crosses /\ p.uid # None THEN RecordSpeed(placed, p.uid, p.mph) ELSE placed)
      /\ lastUid' = IF c.uid = None THEN lastUid ELSE c.uid
      /\ lastSerial' = c.serial
      /\ lastPassId' = IF crosses THEN p.id ELSE lastPassId
      /\ tx' \in {tx} \cup (IF crosses THEN {"begin"} ELSE {})

\* The subscriber, on a store that now holds car c and newest pass p.  A pass
\* goes to History too, if a session is known by then.
Observe(c, p) ==
  LET placed  == IF c.uid # None /\ c.uid # lastUid THEN RecordDetection(Mirror, c.uid, c.serial)
                 ELSE IF c.uid # None /\ c.serial # None /\ c.serial # lastSerial
                 THEN RecordSerial(Mirror, c.uid, c.serial)
                 ELSE Mirror
      crosses == p.id # 0 /\ p.id # lastPassId
  IN  /\ MirrorBecomes(IF crosses /\ p.uid # None THEN RecordSpeed(placed, p.uid, p.mph) ELSE placed)
      /\ lastUid' = c.uid
      /\ lastSerial' = c.serial
      /\ lastPassId' = IF crosses THEN p.id ELSE lastPassId
      /\ tx' \in {tx} \cup (IF crosses THEN {"begin"} ELSE {})

\* Mutant: subscribed before the mirror is hydrated.
NotifyAlways(c, p) == Observe(c, p)

Notify(c, p) ==
  \/ wired /\ Observe(c, p)
  \/ /\ ~wired
     /\ UNCHANGED <<mirror, issued, lastUid, lastSerial, lastPassId, tx>>

-----------------------------------------------------------------------------
(* The portal and the portal store.                                         *)

\* The head of a store whose passes did not change, as far as the bridge looks.
Seen == [id |-> head, uid |-> None, mph |-> 0]

Place(u) ==
  /\ connected /\ on = None
  /\ on' = u /\ announced' = FALSE
  /\ UNCHANGED <<quiet, store, bridge, mirror, disk, bounds, truth>>

\* The serial may have come first; it is kept, whoever it was sent for.
CarDetected(u) == [uid |-> u, serial |-> car.serial]

\* Told of the car that is there, once or again.  Told of a car that the store
\* still shows from before, the bridge sees no arrival.
TellCar ==
  /\ connected /\ on # None /\ (announced \/ Arrivals < MaxArrivals)
  /\ LET c == CarDetected(on) IN
     /\ car' = c
     /\ Notify(c, Seen)
  /\ announced' = TRUE /\ quiet' = FALSE
  /\ arrivals' = IF ~announced /\ wired THEN [arrivals EXCEPT ![on] = @ + 1] ELSE arrivals
  /\ mixed' = IF quiet THEN mixed \cup {on} ELSE mixed
  /\ UNCHANGED <<on, connected, head, passCounter, wired, db, before, starts,
                 fastest, banked, claim, lost>>

\* A serial without a car makes one with an empty uid.
TellSerial ==
  /\ connected /\ on # None
  /\ LET c == [uid |-> car.uid, serial |-> on] IN
     /\ car' = c
     /\ Notify(c, Seen)
  /\ mixed' = IF quiet /\ car.uid # None THEN mixed \cup {car.uid} ELSE mixed
  /\ UNCHANGED <<portal, connected, head, passCounter, wired, db, before, starts,
                 arrivals, fastest, banked, claim, lost>>

\* Mutant: only the uid is cleared.
CarRemovedKeepsSerial == [car EXCEPT !.uid = None]

CarRemoved == NoCar

\* The car is taken away, and the portal says so.
TellRemoved ==
  /\ connected /\ on # None
  /\ on' = None /\ announced' = FALSE /\ quiet' = FALSE
  /\ car' = CarRemoved
  /\ Notify(CarRemoved, Seen)
  /\ UNCHANGED <<connected, head, passCounter, wired, db, before, starts, truth>>

\* The car is taken away, and that does not reach the application.
RemoveUntold ==
  /\ connected /\ on # None
  /\ on' = None /\ announced' = FALSE
  /\ quiet' = (quiet \/ car # NoCar)
  /\ UNCHANGED <<store, bridge, mirror, disk, bounds, truth>>

\* A speed event the store accepts as a pass (dispatch); the pass is the store's
\* car's.
Cross(v) ==
  /\ connected /\ on # None /\ passCounter < MaxPasses /\ tx = "none"
  /\ passCounter' = passCounter + 1
  /\ head' = passCounter'
  /\ Notify(car, [id |-> head', uid |-> car.uid, mph |-> v])
  /\ fastest' = IF wired /\ car.uid = on THEN [fastest EXCEPT ![on] = Larger(@, v)] ELSE fastest
  /\ mixed' = IF quiet /\ car.uid # None THEN mixed \cup {car.uid} ELSE mixed
  /\ UNCHANGED <<portal, connected, car, wired, db, before, starts,
                 arrivals, banked, claim, lost>>

Connect ==
  /\ ~connected
  /\ connected' = TRUE /\ on' \in Uids \cup {None}
  /\ UNCHANGED <<announced, quiet, car, head, passCounter, bridge, mirror, disk, bounds, truth>>

\* setConnection("disconnected") empties the store; what is on the portal matters
\* again, and is told again, when it is connected again.
Disconnect ==
  /\ connected
  /\ connected' = FALSE /\ on' = None /\ announced' = FALSE /\ quiet' = FALSE
  /\ car' = NoCar /\ head' = 0
  /\ Notify(NoCar, [Seen EXCEPT !.id = 0])
  /\ UNCHANGED <<passCounter, wired, db, before, starts, truth>>

-----------------------------------------------------------------------------
(* The user.                                                                *)

\* garage/[uid].tsx saves a name that differs from the car's.
Rename(u, name) ==
  /\ wired
  /\ garage[u] # Absent /\ garage[u].row.name # name
  /\ MirrorBecomes(Issue(Mirror, Put(Mirror, u, [RowOf(Mirror, u) EXCEPT !.name = name]),
                         "name", u, name))
  /\ UNCHANGED <<portal, store, bridge, disk, starts, truth>>

\* A race with u that ends with best lap `lap`: at GO the screen took the
\* garage's bestLap for the best so far, `undefined` without a car.
Record(previous, lap) == previous = None \/ lap < previous
Race(u, lap) ==
  /\ wired
  /\ car.uid = u
  /\ LET previous == IF garage[u] = Absent THEN None ELSE garage[u].races.best
     IN  claim' = IF Record(previous, lap) THEN <<u, lap, banked[u].best>> ELSE <<>>
  /\ MirrorBecomes(Issue(Mirror, garage, "result", u, lap))
  /\ banked' = [banked EXCEPT ![u] = SaveResult(@, lap)]
  /\ UNCHANGED <<portal, store, bridge, garage, disk, starts, arrivals, fastest, lost, mixed>>

-----------------------------------------------------------------------------
(* The connection to the database.                                          *)

\* The oldest write is done; or it is rejected, and logged.
Settle ==
  /\ writes # <<>>
  /\ writes' = Tail(writes)
  /\ \/ db' = Perform(db, Head(writes)) /\ UNCHANGED lost
     \/ lost' = lost \cup {Head(writes).uid} /\ UNCHANGED db
  /\ UNCHANGED <<portal, store, bridge, garage, before, tx, bounds, arrivals, fastest, banked, claim, mixed>>

Begin ==
  /\ tx = "begin"
  /\ tx' = "open" /\ before' = db
  /\ UNCHANGED <<portal, store, bridge, mirror, db, bounds, truth>>

Commit ==
  /\ tx = "open"
  /\ tx' = "none" /\ before' = Empty
  /\ UNCHANGED <<portal, store, bridge, mirror, db, bounds, truth>>

Undone(d, e) == {u \in Uids : d.cars[u] # e.cars[u] \/ d.results[u] # e.results[u]}

\* The task of addPass throws when its session is gone, or on an error.
\* Whatever the connection did since BEGIN goes with it.
Rollback ==
  /\ tx = "open"
  /\ tx' = "none" /\ before' = Empty
  /\ db' = before
  /\ lost' = lost \cup Undone(db, before)
  /\ UNCHANGED <<portal, store, bridge, mirror, bounds, arrivals, fastest, banked, claim, mixed>>

-----------------------------------------------------------------------------
(* The application.                                                         *)

\* Hydration, sinks and bridge; Bootstrap is about what falls between them.
Wire ==
  /\ ~wired /\ starts < MaxStarts /\ (car.uid = None \/ Arrivals < MaxArrivals)
  /\ wired' = TRUE /\ starts' = starts + 1
  /\ LET g == [cars |-> GetCars(db), writes |-> <<>>]
     IN  MirrorBecomes(IF car.uid = None THEN g ELSE RecordDetection(g, car.uid, car.serial))
  /\ arrivals' = IF car.uid = None THEN arrivals ELSE [arrivals EXCEPT ![car.uid] = @ + 1]
  /\ lastUid' = car.uid /\ lastSerial' = car.serial /\ lastPassId' = head
  /\ UNCHANGED <<portal, store, disk, fastest, banked, claim, lost, mixed>>

InTransaction == tx = "open"

\* The process ends: the stores, the writes not settled and an open transaction.
Crash ==
  /\ wired
  /\ wired' = FALSE /\ lastUid' = None /\ lastSerial' = None /\ lastPassId' = 0
  /\ connected' = FALSE /\ on' = None /\ announced' = FALSE /\ quiet' = FALSE
  /\ car' = NoCar /\ head' = 0
  /\ garage' = [u \in Uids |-> Absent] /\ writes' = <<>>
  /\ db' = IF InTransaction THEN before ELSE db
  /\ tx' = "none" /\ before' = Empty
  /\ lost' = lost \cup {writes[i].uid : i \in DOMAIN writes} \cup Undone(db, db')
  /\ UNCHANGED <<passCounter, bounds, arrivals, fastest, banked, claim, mixed>>

Next ==
  \/ TellCar \/ TellSerial \/ TellRemoved \/ RemoveUntold \/ Connect \/ Disconnect
  \/ \E u \in Uids : Place(u) \/ \E n \in Names \cup {None} : Rename(u, n)
  \/ \E v \in Speeds : Cross(v)
  \/ \E u \in Uids, lap \in Laps : Race(u, lap)
  \/ Settle \/ Begin \/ Commit \/ Rollback
  \/ Wire \/ Crash

Spec == Init /\ [][Next]_vars
-----------------------------------------------------------------------------
(* Properties.                                                              *)

\* "The in-memory mirror of the durable car collection": when no write waits,
\* the table holds what the garage shows, statement for reducer, and
\* race_results the races that were banked, except of cars whose write was
\* rejected, died with the process, or was in a transaction of History's that
\* was rolled back.
MirrorOnDisk ==
  wired /\ writes = <<>> /\ ~InTransaction =>
    \A u \in Uids \ lost :
      /\ IF garage[u] = Absent THEN db.cars[u] = Absent ELSE db.cars[u] = garage[u].row
      /\ db.results[u] = banked[u]

\* Restarts, drops and repeated or reordered events included, a car has one
\* detection for every time it was put on the portal or found there again, and
\* the speed of its own fastest pass; a removal that is not told, or a lost
\* write, is all that can upset it, and never adds a detection.
GarageIsTrue ==
  wired => \A u \in Uids :
    LET row == RowOf(Mirror, u) IN
    /\ row.detections <= arrivals[u]
    /\ u \notin lost \cup mixed => row.detections = arrivals[u] /\ row.bestMph = fastest[u]

\* A car is given no other car's serial, in whichever order uid and serial
\* arrive, unless a removal was not told.
SerialIsOwn ==
  \A u \in Uids \ mixed : RowOf(Mirror, u).serial \in {None, u}

\* "When result.bestLap beats the car's previous CarRecord.bestLap, or the car
\* had no previous best": a race called a new record is faster than every race
\* of that car before it.
RecordsAreReal == claim # <<>> => claim[3] = None \/ claim[2] < claim[3]
=============================================================================
