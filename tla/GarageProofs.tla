----------------------------- MODULE GarageProofs -----------------------------
(***************************************************************************)
(* A car is given no other car's serial, for any cars, speeds and bounds,   *)
(* by whichever way a serial travels: the portal store, the mirror, a write *)
(* that waits, the table, what a transaction of History's would bring back. *)
(* The invariant says it of each (StoreOK, CarsFit, WritesFit, TableFits);  *)
(* StoreOK is where the serial comes in: unless a removal was not told, the *)
(* store shows the car that is on the portal or none, and a serial that     *)
(* came before its car is that of the car on the portal.                    *)
(*                                                                         *)
(* The truth of the garage needs more (TInv): of each car, that the writes  *)
(* that wait, done in their order, make of what the table holds what the    *)
(* mirror shows and what was banked (Leads), and that the detections among  *)
(* them bring the table to no more than the arrivals (Room).  Both are said *)
(* by the trace of rows, or of counts, along the queue, since what a fold   *)
(* over a queue computes is out of the provers' reach; a trace is a witness *)
(* that a write appended extends and a write settled shortens.              *)
(***************************************************************************)
EXTENDS Garage, TLAPS

\* Serial s may be known of car u, when the cars in m were mixed up.
Fits(u, s, m) == s \in {None, u} \/ u \in m

CarFits(c, m) ==
  /\ c \in [uid : Uids \cup {None}, serial : Uids \cup {None}]
  /\ c.uid # None => Fits(c.uid, c.serial, m)

StoreOK ==
  /\ CarFits(car, mixed)
  /\ on \in Uids \cup {None}
  /\ ~connected => on = None /\ car = NoCar /\ ~quiet
  /\ ~quiet => car.uid \in {None, on} /\ (car.uid = None => car.serial \in {None, on})

Entries == [row : Rows, races : Results]

CarsFit(cars, m) ==
  /\ cars \in [Uids -> Entries \cup {Absent}]
  /\ \A u \in Uids : cars[u] # Absent => Fits(u, cars[u].row.serial, m)

WriteFits(w, m) ==
  /\ w.op \in {"detection", "serial"} => w.arg \in Uids \cup {None} /\ Fits(w.uid, w.arg, m)
  /\ w.op = "speed" => w.arg \in Nat
  /\ w.op = "name" => w.arg \in Names \cup {None}
  /\ w.op = "result" => w.arg \in Laps

WritesFit(ws, m) == ws \in Seq({w \in Writes : WriteFits(w, m)})

TableFits(d, m) ==
  /\ d \in Tables
  /\ \A u \in Uids : d.cars[u] # Absent => Fits(u, d.cars[u].serial, m)

MirrorFits(g, m) == CarsFit(g.cars, m) /\ WritesFit(g.writes, m)

IInv ==
  /\ StoreOK
  /\ CarsFit(garage, mixed) /\ WritesFit(writes, mixed)
  /\ TableFits(db, mixed) /\ TableFits(before, mixed)

-----------------------------------------------------------------------------
LEMMA Values == None \in Nat /\ None \notin Uids /\ Speeds \subseteq Nat /\ Laps \subseteq Nat
                /\ Names \subseteq Nat /\ Blank \in Rows /\ NoRace \in Results
  BY ValuesAssumption DEF None, Blank, Rows, NoRace, Results

\* More cars mixed up: what fitted still does.
LEMMA MoreMixed ==
  ASSUME NEW m, NEW n, m \subseteq n
  PROVE  /\ \A c : CarFits(c, m) => CarFits(c, n)
         /\ \A g : CarsFit(g, m) => CarsFit(g, n)
         /\ \A ws : WritesFit(ws, m) => WritesFit(ws, n)
         /\ \A d : TableFits(d, m) => TableFits(d, n)
  <1>1. \A w : WriteFits(w, m) => WriteFits(w, n)
    BY DEF WriteFits, Fits
  <1>2. {w \in Writes : WriteFits(w, m)} \subseteq {w \in Writes : WriteFits(w, n)}
    BY <1>1
  <1>3. \A ws : WritesFit(ws, m) => WritesFit(ws, n)
    BY <1>2 DEF WritesFit
  <1>4. \A c : CarFits(c, m) => CarFits(c, n)
    BY DEF CarFits, Fits
  <1>5. \A g : CarsFit(g, m) => CarsFit(g, n)
    BY DEF CarsFit, Fits
  <1>6. \A d : TableFits(d, m) => TableFits(d, n)
    BY DEF TableFits, Fits
  <1> QED
    BY <1>3, <1>4, <1>5, <1>6

-----------------------------------------------------------------------------
(* The reducers.                                                            *)

\* The row of a car that is put on the portal, with a serial or without.
PlacedRow(r, s) == [r EXCEPT !.detections = @ + 1, !.serial = IF s # None THEN s ELSE @]

LEMMA Placed ==
  ASSUME NEW m, NEW u, NEW r \in Rows, NEW s \in Uids \cup {None}, Fits(u, s, m), Fits(u, r.serial, m)
  PROVE  PlacedRow(r, s) \in Rows /\ Fits(u, PlacedRow(r, s).serial, m)
  <1> DEFINE t == IF s # None THEN s ELSE r.serial
  <1>1. t \in Uids \cup {None} /\ Fits(u, t, m)
    BY DEF Rows
  <1>2. PlacedRow(r, s) = [[r EXCEPT !.detections = r.detections + 1] EXCEPT !.serial = t]
    BY DEF PlacedRow, Rows
  <1> HIDE DEF t
  <1>3. [r EXCEPT !.detections = r.detections + 1] \in Rows
    BY DEF Rows
  <1> QED
    BY <1>1, <1>2, <1>3 DEF Rows

LEMMA Rowed ==
  ASSUME NEW m, NEW g, CarsFit(g.cars, m), NEW u \in Uids
  PROVE  RowOf(g, u) \in Rows /\ Fits(u, RowOf(g, u).serial, m)
  BY Values DEF CarsFit, RowOf, Known, Entries, Fits, Blank

LEMMA Putting ==
  ASSUME NEW m, NEW g, CarsFit(g.cars, m), NEW u \in Uids, NEW row \in Rows, Fits(u, row.serial, m)
  PROVE  CarsFit(Put(g, u, row), m)
  <1> DEFINE races == IF Known(g, u) THEN g.cars[u].races ELSE NoRace
             new   == [row |-> row, races |-> races]
  <1>1. races \in Results
    BY Values DEF CarsFit, Known, Entries
  <1>2. new \in Entries /\ new.row = row
    BY <1>1 DEF Entries
  <1>3. Put(g, u, row) = [g.cars EXCEPT ![u] = new]
    BY DEF Put
  <1> HIDE DEF new
  <1> QED
    BY <1>2, <1>3 DEF CarsFit

LEMMA Issuing ==
  ASSUME NEW m, NEW g, WritesFit(g.writes, m), NEW cars, CarsFit(cars, m),
         NEW op \in {"detection", "serial", "speed", "name", "result"}, NEW u \in Uids,
         NEW arg \in Nat \cup Uids, WriteFits([op |-> op, uid |-> u, arg |-> arg], m)
  PROVE  MirrorFits(Issue(g, cars, op, u, arg), m)
  <1> DEFINE w == [op |-> op, uid |-> u, arg |-> arg]
             W == {x \in Writes : WriteFits(x, m)}
  <1>1. w \in W
    BY DEF Writes
  <1>2. g.writes \in Seq(W)
    BY DEF WritesFit
  <1> HIDE DEF W
  <1>3. Append(g.writes, w) \in Seq(W)
    BY <1>1, <1>2
  <1> QED
    BY <1>3 DEF Issue, MirrorFits, WritesFit, W

LEMMA Reducing ==
  ASSUME NEW m, NEW g, MirrorFits(g, m), NEW u \in Uids
  PROVE  /\ \A s \in Uids \cup {None} : Fits(u, s, m) => MirrorFits(RecordDetection(g, u, s), m)
         /\ \A s \in Uids : Fits(u, s, m) => MirrorFits(RecordSerial(g, u, s), m)
         /\ \A v \in Nat : MirrorFits(RecordSpeed(g, u, v), m)
         /\ \A n \in Names \cup {None} :
              MirrorFits(Issue(g, Put(g, u, [RowOf(g, u) EXCEPT !.name = n]), "name", u, n), m)
         /\ \A lap \in Laps : MirrorFits(Issue(g, g.cars, "result", u, lap), m)
  <1> USE Values
  <1>0. CarsFit(g.cars, m) /\ WritesFit(g.writes, m) /\ RowOf(g, u) \in Rows
        /\ Fits(u, RowOf(g, u).serial, m)
    BY Rowed DEF MirrorFits
  <1>1. ASSUME NEW s \in Uids \cup {None}, Fits(u, s, m) PROVE MirrorFits(RecordDetection(g, u, s), m)
    <2> DEFINE row == [RowOf(g, u) EXCEPT !.detections = @ + 1, !.serial = IF s # None THEN s ELSE @]
    <2>0. row = PlacedRow(RowOf(g, u), s)
      BY DEF PlacedRow
    <2> HIDE DEF row
    <2>1. row \in Rows /\ Fits(u, row.serial, m)
      BY <1>0, <1>1, <2>0, Placed
    <2>2. WriteFits([op |-> "detection", uid |-> u, arg |-> s], m)
      BY <1>1 DEF WriteFits
    <2> HIDE DEF row
    <2>3. CarsFit(Put(g, u, row), m)
      BY <1>0, <2>1, Putting
    <2>4. MirrorFits(Issue(g, Put(g, u, row), "detection", u, s), m)
      BY <1>0, <2>2, <2>3, Issuing
    <2> QED
      BY <2>4 DEF RecordDetection, row
  <1>2. ASSUME NEW s \in Uids, Fits(u, s, m) PROVE MirrorFits(RecordSerial(g, u, s), m)
    <2> DEFINE row  == [RowOf(g, u) EXCEPT !.serial = s]
               cars == IF Known(g, u) THEN Put(g, u, row) ELSE g.cars
    <2>1. row \in Rows /\ Fits(u, row.serial, m)
      BY <1>0, <1>2 DEF Rows
    <2>2. WriteFits([op |-> "serial", uid |-> u, arg |-> s], m)
      BY <1>2 DEF WriteFits
    <2> HIDE DEF row
    <2>3. CarsFit(cars, m)
      BY <1>0, <2>1, Putting
    <2>4. MirrorFits(Issue(g, cars, "serial", u, s), m)
      <3> HIDE DEF cars
      <3> QED
        BY <1>0, <2>2, <2>3, Issuing
    <2> QED
      BY <2>4 DEF RecordSerial, row
  <1>3. ASSUME NEW v \in Nat PROVE MirrorFits(RecordSpeed(g, u, v), m)
    <2> DEFINE row == [RowOf(g, u) EXCEPT !.bestMph = Larger(@, v)]
    <2>1. row \in Rows /\ Fits(u, row.serial, m)
      BY <1>0 DEF Rows, Larger
    <2>2. WriteFits([op |-> "speed", uid |-> u, arg |-> v], m)
      BY DEF WriteFits
    <2> HIDE DEF row
    <2>3. CarsFit(Put(g, u, row), m)
      BY <1>0, <2>1, Putting
    <2>4. MirrorFits(Issue(g, Put(g, u, row), "speed", u, v), m)
      BY <1>0, <2>2, <2>3, Issuing
    <2> QED
      BY <2>4 DEF RecordSpeed, row
  <1>4. ASSUME NEW n \in Names \cup {None}
        PROVE  MirrorFits(Issue(g, Put(g, u, [RowOf(g, u) EXCEPT !.name = n]), "name", u, n), m)
    <2> DEFINE row == [RowOf(g, u) EXCEPT !.name = n]
    <2>1. row \in Rows /\ Fits(u, row.serial, m)
      BY <1>0 DEF Rows
    <2>2. WriteFits([op |-> "name", uid |-> u, arg |-> n], m)
      BY DEF WriteFits
    <2> HIDE DEF row
    <2>3. CarsFit(Put(g, u, row), m)
      BY <1>0, <2>1, Putting
    <2>4. MirrorFits(Issue(g, Put(g, u, row), "name", u, n), m)
      BY <1>0, <2>2, <2>3, Issuing
    <2> QED
      BY <2>4 DEF row
  <1>5. ASSUME NEW lap \in Laps PROVE MirrorFits(Issue(g, g.cars, "result", u, lap), m)
    <2>1. WriteFits([op |-> "result", uid |-> u, arg |-> lap], m)
      BY DEF WriteFits
    <2> QED
      BY <1>0, <2>1, Issuing
  <1> QED
    BY <1>1, <1>2, <1>3, <1>4, <1>5

-----------------------------------------------------------------------------
(* The statements.                                                          *)

LEMMA Upserting ==
  ASSUME NEW m, NEW w \in Writes, WriteFits(w, m), w.op # "result",
         NEW row \in Rows \cup {Absent}, row # Absent => Fits(w.uid, row.serial, m)
  PROVE  /\ Upsert(row, w) \in Rows \cup {Absent}
         /\ Upsert(row, w) # Absent => Fits(w.uid, Upsert(row, w).serial, m)
  <1> USE Values DEF WriteFits
  <1>1. CASE w.op = "detection" /\ row = Absent
    <2>1. Upsert(row, w) = [Blank EXCEPT !.detections = 1, !.serial = w.arg]
      BY <1>1 DEF Upsert
    <2>2. Upsert(row, w) = [name |-> None, serial |-> w.arg, detections |-> 1, bestMph |-> 0]
      BY <2>1 DEF Blank
    <2> QED
      BY <1>1, <2>2 DEF Rows
  <1>2. CASE w.op = "detection" /\ row # Absent
    <2>1. Upsert(row, w) = PlacedRow(row, w.arg)
      BY <1>2 DEF Upsert, PlacedRow
    <2> QED
      BY <1>2, <2>1, Placed
  <1>3. CASE w.op = "speed" /\ row = Absent
    <2>1. Upsert(row, w) = [Blank EXCEPT !.bestMph = w.arg]
      BY <1>3 DEF Upsert
    <2> QED
      BY <1>3, <2>1 DEF Rows, Blank, Fits
  <1>4. CASE w.op = "speed" /\ row # Absent
    <2>1. Upsert(row, w) = [row EXCEPT !.bestMph = Larger(@, w.arg)]
      BY <1>4 DEF Upsert
    <2> QED
      BY <1>4, <2>1 DEF Rows, Larger
  <1>5. CASE w.op = "serial"
    <2>1. Upsert(row, w) = IF row # Absent THEN [row EXCEPT !.serial = w.arg] ELSE row
      BY <1>5 DEF Upsert
    <2> QED
      BY <1>5, <2>1 DEF Rows
  <1>6. CASE w.op = "name"
    <2>1. Upsert(row, w) = IF row # Absent THEN [row EXCEPT !.name = w.arg] ELSE row
      BY <1>6 DEF Upsert
    <2> QED
      BY <1>6, <2>1 DEF Rows
  <1> QED
    BY <1>1, <1>2, <1>3, <1>4, <1>5, <1>6 DEF Writes

LEMMA Performing ==
  ASSUME NEW m, NEW d, TableFits(d, m), NEW w \in Writes, WriteFits(w, m)
  PROVE  TableFits(Perform(d, w), m)
  <1>1. CASE w.op = "result"
    <2>1. w.uid \in Uids /\ w.arg \in Laps /\ d.results[w.uid] \in Results
      BY <1>1 DEF Writes, WriteFits, TableFits, Tables
    <2>2. SaveResult(d.results[w.uid], w.arg) \in Results
      BY <2>1 DEF SaveResult, Results, Faster
    <2>3. Perform(d, w) = [d EXCEPT !.results = [d.results EXCEPT ![w.uid] = SaveResult(d.results[w.uid], w.arg)]]
      BY <1>1, <2>1 DEF Perform, TableFits, Tables
    <2>4. [d.results EXCEPT ![w.uid] = SaveResult(d.results[w.uid], w.arg)] \in [Uids -> Results]
      BY <2>2 DEF TableFits, Tables
    <2> QED
      BY <2>3, <2>4 DEF TableFits, Tables
  <1>2. CASE w.op # "result"
    <2> DEFINE row == Upsert(d.cars[w.uid], w)
    <2>1. w.uid \in Uids /\ d.cars[w.uid] \in Rows \cup {Absent}
          /\ (d.cars[w.uid] # Absent => Fits(w.uid, d.cars[w.uid].serial, m))
      BY DEF Writes, TableFits, Tables
    <2>2. row \in Rows \cup {Absent} /\ (row # Absent => Fits(w.uid, row.serial, m))
      BY <1>2, <2>1, Upserting
    <2>3. Perform(d, w) = [d EXCEPT !.cars = [d.cars EXCEPT ![w.uid] = row]]
      BY <1>2, <2>1 DEF Perform, TableFits, Tables
    <2> HIDE DEF row
    <2> QED
      BY <2>1, <2>2, <2>3 DEF TableFits, Tables
  <1> QED
    BY <1>1, <1>2

LEMMA EmptyFits == \A m : TableFits(Empty, m) /\ WritesFit(<<>>, m) /\ CarsFit([u \in Uids |-> Absent], m)
  BY Values DEF TableFits, Empty, Tables, WritesFit, CarsFit, Absent

LEMMA Hydrating ==
  ASSUME NEW m, NEW d, TableFits(d, m)
  PROVE  CarsFit(GetCars(d), m)
  <1>1. ASSUME NEW u \in Uids, d.cars[u] # Absent
        PROVE  [row |-> d.cars[u], races |-> d.results[u]] \in Entries
    BY <1>1 DEF TableFits, Tables, Entries
  <1> QED
    BY <1>1 DEF TableFits, CarsFit, GetCars

-----------------------------------------------------------------------------
(* The bridge, on a store whose car fits.                                   *)

LEMMA Observing ==
  ASSUME NEW m, MirrorFits(Mirror, m), NEW c, CarFits(c, m),
         NEW p, p.uid \in Uids \cup {None}, p.mph \in Nat, Notify(c, p)
  PROVE  CarsFit(garage', m) /\ WritesFit(writes', m)
  <1>1. CASE ~wired
    BY <1>1 DEF Notify, mirror, MirrorFits, Mirror
  <1>2. CASE wired /\ Observe(c, p)
    <2> DEFINE placed == IF c.uid # None /\ c.uid # lastUid THEN RecordDetection(Mirror, c.uid, c.serial)
                         ELSE IF c.uid # None /\ c.serial # None /\ c.serial # lastSerial
                         THEN RecordSerial(Mirror, c.uid, c.serial)
                         ELSE Mirror
               crosses == p.id # 0 /\ p.id # lastPassId
               g == IF crosses /\ p.uid # None THEN RecordSpeed(placed, p.uid, p.mph) ELSE placed
    <2>1. MirrorFits(placed, m)
      <3>1. CASE c.uid = None
        BY <3>1
      <3>2. CASE c.uid # None
        <4>1. c.uid \in Uids /\ c.serial \in Uids \cup {None} /\ Fits(c.uid, c.serial, m)
          BY <3>2 DEF CarFits
        <4>2. MirrorFits(RecordDetection(Mirror, c.uid, c.serial), m)
          BY <4>1, Reducing
        <4>3. c.serial # None => MirrorFits(RecordSerial(Mirror, c.uid, c.serial), m)
          BY <4>1, Reducing
        <4> QED
          BY <4>2, <4>3
      <3> QED
        BY <3>1, <3>2
    <2>2. MirrorBecomes(g)
      BY <1>2 DEF Observe
    <2> HIDE DEF placed
    <2>3. MirrorFits(g, m)
      BY <2>1, Reducing
    <2> HIDE DEF g
    <2> QED
      BY <2>2, <2>3 DEF MirrorBecomes, MirrorFits
  <1> QED
    BY <1>1, <1>2 DEF Notify

-----------------------------------------------------------------------------
LEMMA MirrorIs == Mirror.cars = garage /\ Mirror.writes = writes
  BY DEF Mirror

LEMMA Initially == Init => IInv
  BY EmptyFits, Values DEF Init, IInv, StoreOK, CarFits, NoCar

\* What the portal tells, or fails to tell.
LEMMA Telling ==
  ASSUME IInv
  PROVE  /\ TellCar => IInv'
         /\ TellSerial => IInv'
         /\ TellRemoved => IInv'
         /\ RemoveUntold => IInv'
         /\ \A u \in Uids : Place(u) => IInv'
         /\ \A v \in Speeds : Cross(v) => IInv'
         /\ Connect => IInv'
         /\ Disconnect => IInv'
  <1> USE Values, MirrorIs
  <1>0. ASSUME NEW c, NEW p, Notify(c, p), CarFits(c, mixed'), mixed \subseteq mixed',
               p.uid \in Uids \cup {None}, p.mph \in Nat, UNCHANGED <<db, before>>, StoreOK'
        PROVE  IInv'
    <2>1. MirrorFits(Mirror, mixed') /\ TableFits(db, mixed') /\ TableFits(before, mixed')
      BY <1>0, MoreMixed DEF IInv, MirrorFits
    <2> QED
      BY <1>0, <2>1, Observing DEF IInv
  <1>1. ASSUME UNCHANGED <<garage, writes, db, before, mixed>>, StoreOK' PROVE IInv'
    BY <1>1 DEF IInv
  <1>2. Seen.uid = None /\ Seen.mph = 0 /\ [Seen EXCEPT !.id = 0].uid = None /\ [Seen EXCEPT !.id = 0].mph = 0
    BY DEF Seen
  <1>3. ASSUME TellCar PROVE IInv'
    <2> DEFINE c == [uid |-> on, serial |-> car.serial]
    <2>1. c = CarDetected(on)
      BY DEF CarDetected
    <2>2. /\ Notify(c, Seen) /\ car' = c /\ ~quiet' /\ on' = on /\ on \in Uids /\ connected' = connected
          /\ connected /\ mixed' = IF quiet THEN mixed \cup {on} ELSE mixed
          /\ UNCHANGED <<db, before>>
      BY <1>3, <2>1 DEF TellCar, IInv, StoreOK
    <2>3. CarFits(c, mixed')
      BY <2>2 DEF IInv, StoreOK, CarFits, Fits
    <2>4. StoreOK'
      BY <2>2, <2>3 DEF StoreOK
    <2> HIDE DEF c
    <2> QED
      BY <1>0, <1>2, <2>2, <2>3, <2>4
  <1>4. ASSUME TellSerial PROVE IInv'
    <2> DEFINE c == [uid |-> car.uid, serial |-> on]
    <2>2. /\ Notify(c, Seen) /\ car' = c /\ quiet' = quiet /\ on' = on /\ on \in Uids /\ connected' = connected
          /\ connected /\ mixed' = IF quiet /\ car.uid # None THEN mixed \cup {car.uid} ELSE mixed
          /\ UNCHANGED <<db, before>>
      BY <1>4 DEF TellSerial, portal, IInv, StoreOK
    <2>3. CarFits(c, mixed')
      BY <2>2 DEF IInv, StoreOK, CarFits, Fits
    <2>4. StoreOK'
      BY <2>2, <2>3 DEF IInv, StoreOK
    <2> HIDE DEF c
    <2> QED
      BY <1>0, <1>2, <2>2, <2>3, <2>4
  <1>5. CarFits(NoCar, mixed) /\ NoCar.uid = None /\ NoCar.serial = None
    BY DEF CarFits, NoCar
  <1>6. ASSUME TellRemoved PROVE IInv'
    <2>1. /\ Notify(NoCar, Seen) /\ car' = NoCar /\ ~quiet' /\ on' = None
          /\ UNCHANGED <<db, before, mixed>>
      BY <1>6 DEF TellRemoved, CarRemoved, truth
    <2>2. StoreOK'
      BY <1>5, <2>1 DEF StoreOK
    <2> QED
      BY <1>0, <1>2, <1>5, <2>1, <2>2
  <1>7. ASSUME RemoveUntold PROVE IInv'
    <2>1. UNCHANGED <<garage, writes, db, before, mixed, car, connected>>
      BY <1>7 DEF RemoveUntold, store, mirror, disk, truth
    <2>2. StoreOK'
      BY <1>5, <1>7, <2>1 DEF RemoveUntold, IInv, StoreOK
    <2> QED
      BY <1>1, <2>1, <2>2
  <1>8. ASSUME NEW u \in Uids, Place(u) PROVE IInv'
    <2>1. UNCHANGED <<garage, writes, db, before, mixed, car, connected, quiet>>
      BY <1>8 DEF Place, store, mirror, disk, truth
    <2>2. StoreOK'
      BY <1>8, <2>1 DEF Place, IInv, StoreOK
    <2> QED
      BY <1>1, <2>1, <2>2
  <1>9. ASSUME NEW v \in Speeds, Cross(v) PROVE IInv'
    <2> DEFINE p == [id |-> head', uid |-> car.uid, mph |-> v]
    <2>1. /\ Notify(car, p) /\ mixed \subseteq mixed' /\ UNCHANGED <<db, before, car, connected, on, quiet>>
          /\ p.uid \in Uids \cup {None} /\ p.mph \in Nat
      BY <1>9 DEF Cross, portal, IInv, StoreOK, CarFits
    <2>2. CarFits(car, mixed')
      BY <2>1, MoreMixed DEF IInv, StoreOK
    <2>3. StoreOK'
      BY <2>1, <2>2 DEF IInv, StoreOK
    <2> HIDE DEF p
    <2> QED
      BY <1>0, <2>1, <2>2, <2>3
  <1>10. ASSUME Connect PROVE IInv'
    <2>1. UNCHANGED <<garage, writes, db, before, mixed, car, quiet>>
      BY <1>10 DEF Connect, mirror, disk, truth
    <2>2. StoreOK'
      BY <1>5, <1>10, <2>1 DEF Connect, IInv, StoreOK
    <2> QED
      BY <1>1, <2>1, <2>2
  <1>11. ASSUME Disconnect PROVE IInv'
    <2> DEFINE p == [Seen EXCEPT !.id = 0]
    <2>1. /\ Notify(NoCar, p) /\ car' = NoCar /\ ~quiet' /\ on' = None
          /\ UNCHANGED <<db, before, mixed>>
      BY <1>11 DEF Disconnect, truth
    <2>2. StoreOK'
      BY <1>5, <2>1 DEF StoreOK
    <2>3. p.uid = None /\ p.mph = 0
      BY <1>2
    <2> HIDE DEF p
    <2> QED
      BY <1>0, <1>5, <2>1, <2>2, <2>3
  <1> QED
    BY <1>3, <1>4, <1>6, <1>7, <1>8, <1>9, <1>10, <1>11

\* The user, the connection to the database, and the application.
LEMMA Elsewhere ==
  ASSUME IInv
  PROVE  /\ \A u \in Uids, n \in Names \cup {None} : Rename(u, n) => IInv'
         /\ \A u \in Uids, lap \in Laps : Race(u, lap) => IInv'
         /\ Settle => IInv'
         /\ Begin \/ Commit \/ Rollback => IInv'
         /\ Wire => IInv'
         /\ Crash => IInv'
         /\ UNCHANGED vars => IInv'
  <1> USE MirrorIs
  <1>0. ASSUME UNCHANGED <<on, quiet, connected, car, mixed>> PROVE StoreOK'
    BY <1>0 DEF IInv, StoreOK
  <1>m. MirrorFits(Mirror, mixed)
    BY DEF IInv, MirrorFits
  <1>1. ASSUME NEW u \in Uids, NEW n \in Names \cup {None}, Rename(u, n) PROVE IInv'
    <2> DEFINE g == Issue(Mirror, Put(Mirror, u, [RowOf(Mirror, u) EXCEPT !.name = n]), "name", u, n)
    <2>1. MirrorBecomes(g) /\ UNCHANGED <<on, quiet, connected, car, mixed, db, before>>
      BY <1>1 DEF Rename, portal, store, disk, truth
    <2>2. MirrorFits(g, mixed)
      BY <1>m, Reducing
    <2> HIDE DEF g
    <2> QED
      BY <1>0, <2>1, <2>2 DEF IInv, MirrorBecomes, MirrorFits
  <1>2. ASSUME NEW u \in Uids, NEW lap \in Laps, Race(u, lap) PROVE IInv'
    <2> DEFINE g == Issue(Mirror, garage, "result", u, lap)
    <2>1. MirrorBecomes(g) /\ UNCHANGED <<on, quiet, connected, car, mixed, db, before>>
      BY <1>2 DEF Race, portal, store, disk
    <2>2. MirrorFits(g, mixed)
      BY <1>m, Reducing
    <2> HIDE DEF g
    <2> QED
      BY <1>0, <2>1, <2>2 DEF IInv, MirrorBecomes, MirrorFits
  <1>3. ASSUME Settle PROVE IInv'
    <2> DEFINE W == {w \in Writes : WriteFits(w, mixed)}
    <2>1. /\ writes \in Seq(W) /\ writes # <<>> /\ writes' = Tail(writes)
          /\ UNCHANGED <<on, quiet, connected, car, mixed, garage, before>>
          /\ db' = db \/ db' = Perform(db, Head(writes))
      BY <1>3 DEF Settle, portal, store, IInv, WritesFit
    <2> HIDE DEF W
    <2>2. Head(writes) \in W /\ writes' \in Seq(W)
      BY <2>1
    <2>3. TableFits(Perform(db, Head(writes)), mixed)
      BY <2>2, Performing DEF IInv, W
    <2> QED
      BY <1>0, <2>1, <2>2, <2>3 DEF IInv, WritesFit, W
  <1>4. ASSUME Begin \/ Commit \/ Rollback PROVE IInv'
    <2>1. /\ UNCHANGED <<on, quiet, connected, car, mixed, garage, writes>>
          /\ db' \in {db, before} /\ before' \in {db, Empty}
      BY <1>4 DEF Begin, Commit, Rollback, portal, store, mirror, truth
    <2> QED
      BY <1>0, <2>1, EmptyFits DEF IInv
  <1>5. ASSUME Wire PROVE IInv'
    <2> DEFINE g == [cars |-> GetCars(db), writes |-> <<>>]
               h == IF car.uid = None THEN g ELSE RecordDetection(g, car.uid, car.serial)
    <2>1. MirrorBecomes(h) /\ UNCHANGED <<on, quiet, connected, car, mixed, db, before>>
      BY <1>5 DEF Wire, portal, store, disk
    <2>2. MirrorFits(g, mixed)
      BY Hydrating, EmptyFits DEF IInv, MirrorFits
    <2> HIDE DEF g
    <2>3. MirrorFits(h, mixed)
      BY <2>2, Reducing DEF IInv, StoreOK, CarFits
    <2> HIDE DEF h
    <2> QED
      BY <1>0, <2>1, <2>3 DEF IInv, MirrorBecomes, MirrorFits
  <1>6. ASSUME Crash PROVE IInv'
    <2>1. /\ ~connected' /\ on' = None /\ car' = NoCar /\ ~quiet' /\ mixed' = mixed
          /\ garage' = [u \in Uids |-> Absent] /\ writes' = <<>>
          /\ db' \in {db, before} /\ before' = Empty
      BY <1>6 DEF Crash
    <2>2. StoreOK'
      BY <2>1, Values DEF StoreOK, CarFits, NoCar
    <2> QED
      BY <2>1, <2>2, EmptyFits DEF IInv
  <1>7. ASSUME UNCHANGED vars PROVE IInv'
    BY <1>0, <1>7 DEF vars, portal, store, mirror, disk, truth, IInv
  <1> QED
    BY <1>1, <1>2, <1>3, <1>4, <1>5, <1>6, <1>7

(***************************************************************************)
(* Unless a removal was not told, no car is given another car's serial,     *)
(* whatever order uid and serial arrive in, across restarts and rejected or *)
(* rolled back writes (portalStore.ts, initPersistence.ts: the garage half  *)
(* of wirePortalBridges, sqliteCarRepository.ts).                           *)
(***************************************************************************)
THEOREM OwnSerial == Spec => []SerialIsOwn
  <1>1. IInv /\ [Next]_vars => IInv'
    BY Telling, Elsewhere DEF Next
  <1>2. IInv => SerialIsOwn
    <2> SUFFICES ASSUME IInv, NEW u \in Uids \ mixed
                 PROVE  RowOf(Mirror, u).serial \in {None, u}
      BY DEF SerialIsOwn
    <2> QED
      BY Rowed, MirrorIs DEF IInv, Fits
  <1> QED
    BY Initially, <1>1, <1>2, PTL DEF Spec

-----------------------------------------------------------------------------
(* What a write does to one car, in the table and in the mirror.            *)

Held(u)     == [row |-> db.cars[u], races |-> db.results[u]]
RowIn(g, u) == IF Known(g, u) THEN g.cars[u].row ELSE Absent
Tally(row)  == IF row = Absent THEN 0 ELSE row.detections
Best(row)   == IF row = Absent THEN 0 ELSE row.bestMph

Does(u, e, w) ==
  IF w.uid # u THEN e
  ELSE IF w.op = "result" THEN [row |-> e.row, races |-> SaveResult(e.races, w.arg)]
  ELSE [row |-> Upsert(e.row, w), races |-> e.races]

\* The writes, one after the other, make f of e; without one of u nothing changes.
Leads(u, e, ws, f) ==
  \E t : /\ t[0] = e /\ t[Len(ws)] = f
         /\ \A i \in 1 .. Len(ws) : t[i] = Does(u, t[i - 1], ws[i])
         /\ \A i, j \in 0 .. Len(ws) :
              (i <= j /\ \A k \in i + 1 .. j : ws[k].uid # u) => t[i] = t[j]

Counts(u, w) == w.op = "detection" /\ w.uid = u

\* From `lo` up to `hi` there is room for the detections of u among the writes.
Room(u, lo, ws, hi) ==
  \E b \in [0 .. Len(ws) -> Nat] :
    /\ lo <= b[0] /\ b[Len(ws)] <= hi
    /\ \A i, j \in 0 .. Len(ws) : i <= j => b[i] <= b[j]
    /\ \A i \in 1 .. Len(ws) : Counts(u, ws[i]) => b[i - 1] < b[i]

\* h is what w makes of g.
Follows(g, h, w) ==
  /\ h.writes = Append(g.writes, w)
  /\ \A u \in Uids : RowIn(h, u) = IF w.uid = u /\ w.op # "result" THEN Upsert(RowIn(g, u), w)
                                   ELSE RowIn(g, u)

-----------------------------------------------------------------------------
LEMMA LeadsNowhere == \A u, e, f : Leads(u, e, <<>>, f) <=> e = f
  <1>1. ASSUME NEW u, NEW e PROVE Leads(u, e, <<>>, e)
    <2> DEFINE t == [i \in 0 .. 0 |-> e]
    <2>1. t[0] = e /\ \A i, j \in 0 .. 0 : t[i] = t[j]
      OBVIOUS
    <2> HIDE DEF t
    <2> QED
      BY <2>1 DEF Leads
  <1>2. ASSUME NEW u, NEW e, NEW f, Leads(u, e, <<>>, f) PROVE e = f
    BY <1>2 DEF Leads
  <1> QED
    BY <1>1, <1>2

LEMMA LeadsOn ==
  ASSUME NEW u, NEW e, NEW f, NEW S, NEW ws \in Seq(S), NEW w, Leads(u, e, ws, f)
  PROVE  Leads(u, e, Append(ws, w), Does(u, f, w))
  <1> DEFINE n  == Len(ws)
             xs == Append(ws, w)
  <1>0. n \in Nat /\ Len(xs) = n + 1 /\ xs[n + 1] = w /\ \A i \in 1 .. n : xs[i] = ws[i]
    OBVIOUS
  <1>1. PICK t : /\ t[0] = e /\ t[n] = f
                 /\ \A i \in 1 .. n : t[i] = Does(u, t[i - 1], ws[i])
                 /\ \A i, j \in 0 .. n :
                      (i <= j /\ \A k \in i + 1 .. j : ws[k].uid # u) => t[i] = t[j]
    BY DEF Leads
  <1> DEFINE s == [i \in 0 .. n + 1 |-> IF i <= n THEN t[i] ELSE Does(u, f, w)]
  <1>2. (\A i \in 0 .. n : s[i] = t[i]) /\ s[n + 1] = Does(u, f, w)
    BY <1>0
  <1> HIDE DEF s, xs, n
  <1>3. ASSUME NEW i \in 1 .. n + 1 PROVE s[i] = Does(u, s[i - 1], xs[i])
    <2>1. CASE i = n + 1
      <3>1. i - 1 = n /\ n \in 0 .. n
        BY <1>0, <2>1
      <3> QED
        BY <1>0, <1>1, <1>2, <2>1, <3>1
    <2>2. CASE i # n + 1
      <3>1. i \in 1 .. n /\ i \in 0 .. n /\ i - 1 \in 0 .. n
        BY <1>0, <2>2
      <3> QED
        BY <1>0, <1>1, <1>2, <3>1
    <2> QED
      BY <2>1, <2>2
  <1>4. ASSUME NEW i \in 0 .. n + 1, NEW j \in 0 .. n + 1, i <= j, \A k \in i + 1 .. j : xs[k].uid # u
        PROVE  s[i] = s[j]
    <2>1. CASE j <= n
      <3>1. i \in 0 .. n /\ j \in 0 .. n /\ \A k \in i + 1 .. j : ws[k].uid # u
        BY <1>0, <1>4, <2>1
      <3> QED
        BY <1>1, <1>2, <1>4, <3>1
    <2>2. CASE i = j
      BY <2>2
    <2>3. CASE j = n + 1 /\ i <= n
      <3>1. i \in 0 .. n /\ n \in 0 .. n /\ i <= n /\ \A k \in i + 1 .. n : ws[k].uid # u
        BY <1>0, <1>4, <2>3
      <3>2. t[i] = f
        BY <1>1, <3>1
      <3>3. w.uid # u
        BY <1>0, <1>4, <2>3
      <3> QED
        BY <1>2, <2>3, <3>1, <3>2, <3>3 DEF Does
    <2> QED
      BY <1>0, <1>4, <2>1, <2>2, <2>3
  <1>5. s[0] = e /\ s[n + 1] = Does(u, f, w)
    BY <1>0, <1>1, <1>2
  <1>6. Leads(u, e, xs, Does(u, f, w))
    <2>1. /\ s[0] = e /\ s[Len(xs)] = Does(u, f, w)
          /\ \A i \in 1 .. Len(xs) : s[i] = Does(u, s[i - 1], xs[i])
          /\ \A i, j \in 0 .. Len(xs) : (i <= j /\ \A k \in i + 1 .. j : xs[k].uid # u) => s[i] = s[j]
      BY <1>0, <1>3, <1>4, <1>5
    <2> QED
      BY <2>1 DEF Leads
  <1> QED
    BY <1>6 DEF xs

LEMMA LeadsFrom ==
  ASSUME NEW u, NEW e, NEW f, NEW S, NEW ws \in Seq(S), ws # <<>>, Leads(u, e, ws, f)
  PROVE  Leads(u, Does(u, e, Head(ws)), Tail(ws), f)
  <1> DEFINE n  == Len(ws)
             xs == Tail(ws)
  <1>0. n \in Nat /\ n > 0 /\ Len(xs) = n - 1 /\ Head(ws) = ws[1] /\ \A i \in 1 .. n - 1 : xs[i] = ws[i + 1]
    OBVIOUS
  <1>1. PICK t : /\ t[0] = e /\ t[n] = f
                 /\ \A i \in 1 .. n : t[i] = Does(u, t[i - 1], ws[i])
                 /\ \A i, j \in 0 .. n :
                      (i <= j /\ \A k \in i + 1 .. j : ws[k].uid # u) => t[i] = t[j]
    BY DEF Leads
  <1> DEFINE s == [i \in 0 .. n - 1 |-> t[i + 1]]
  <1> HIDE DEF xs, n
  <1>2. \A i \in 0 .. n - 1 : s[i] = t[i + 1]
    OBVIOUS
  <1> HIDE DEF s
  <1>3. ASSUME NEW i \in 1 .. n - 1 PROVE s[i] = Does(u, s[i - 1], xs[i])
    <2>1. i \in 0 .. n - 1 /\ i - 1 \in 0 .. n - 1 /\ i + 1 \in 1 .. n /\ (i + 1) - 1 = i /\ (i - 1) + 1 = i
      BY <1>0
    <2> QED
      BY <1>0, <1>1, <1>2, <2>1
  <1>4. ASSUME NEW i \in 0 .. n - 1, NEW j \in 0 .. n - 1, i <= j, \A k \in i + 1 .. j : xs[k].uid # u
        PROVE  s[i] = s[j]
    <2>1. ASSUME NEW k \in (i + 1) + 1 .. j + 1 PROVE ws[k].uid # u
      <3>1. k - 1 \in i + 1 .. j /\ k - 1 \in 1 .. n - 1 /\ (k - 1) + 1 = k
        BY <1>0
      <3> QED
        BY <1>0, <1>4, <3>1
    <2>2. i + 1 \in 0 .. n /\ j + 1 \in 0 .. n /\ i + 1 <= j + 1
      BY <1>0, <1>4
    <2> QED
      BY <1>1, <1>2, <2>1, <2>2
  <1>5. s[0] = Does(u, e, Head(ws)) /\ s[n - 1] = f
    <2>1. 0 \in 0 .. n - 1 /\ n - 1 \in 0 .. n - 1 /\ 0 + 1 = 1 /\ (n - 1) + 1 = n /\ 1 \in 1 .. n /\ 1 - 1 = 0
      BY <1>0
    <2> QED
      BY <1>0, <1>1, <1>2, <2>1
  <1>6. Leads(u, Does(u, e, Head(ws)), xs, f)
    <2>1. /\ s[0] = Does(u, e, Head(ws)) /\ s[Len(xs)] = f
          /\ \A i \in 1 .. Len(xs) : s[i] = Does(u, s[i - 1], xs[i])
          /\ \A i, j \in 0 .. Len(xs) : (i <= j /\ \A k \in i + 1 .. j : xs[k].uid # u) => s[i] = s[j]
      BY <1>0, <1>3, <1>4, <1>5
    <2> QED
      BY <2>1 DEF Leads
  <1> QED
    BY <1>6 DEF xs

\* Without a write of u nothing changes.
LEMMA LeadsStill ==
  ASSUME NEW u, NEW e, NEW f, NEW S, NEW ws \in Seq(S), Leads(u, e, ws, f),
         \A i \in 1 .. Len(ws) : ws[i].uid # u
  PROVE  e = f
  <1>1. Len(ws) \in Nat /\ 0 \in 0 .. Len(ws) /\ Len(ws) \in 0 .. Len(ws) /\ 0 <= Len(ws) /\ 0 + 1 = 1
    OBVIOUS
  <1> QED
    BY <1>1 DEF Leads

LEMMA RoomNone ==
  ASSUME NEW u, NEW lo \in Nat, NEW hi \in Nat
  PROVE  Room(u, lo, <<>>, hi) <=> lo <= hi
  <1>1. ASSUME lo <= hi PROVE Room(u, lo, <<>>, hi)
    <2> DEFINE b == [i \in 0 .. 0 |-> lo]
    <2>1. b \in [0 .. 0 -> Nat] /\ b[0] = lo /\ \A i, j \in 0 .. 0 : i <= j => b[i] <= b[j]
      OBVIOUS
    <2> HIDE DEF b
    <2> QED
      BY <1>1, <2>1 DEF Room
  <1>2. ASSUME Room(u, lo, <<>>, hi) PROVE lo <= hi
    <2>1. PICK b \in [0 .. 0 -> Nat] : lo <= b[0] /\ b[0] <= hi
      BY <1>2 DEF Room
    <2>2. b[0] \in Nat
      OBVIOUS
    <2> QED
      BY <2>1, <2>2
  <1> QED
    BY <1>1, <1>2

LEMMA RoomOn ==
  ASSUME NEW u, NEW lo \in Nat, NEW hi \in Nat, NEW S, NEW ws \in Seq(S), NEW w, Room(u, lo, ws, hi),
         NEW up \in Nat, hi <= up, Counts(u, w) => hi < up
  PROVE  Room(u, lo, Append(ws, w), up)
  <1> DEFINE n  == Len(ws)
             xs == Append(ws, w)
  <1>0. n \in Nat /\ Len(xs) = n + 1 /\ xs[n + 1] = w /\ \A i \in 1 .. n : xs[i] = ws[i]
    OBVIOUS
  <1>1. PICK b \in [0 .. n -> Nat] :
          /\ lo <= b[0] /\ b[n] <= hi
          /\ \A i, j \in 0 .. n : i <= j => b[i] <= b[j]
          /\ \A i \in 1 .. n : Counts(u, ws[i]) => b[i - 1] < b[i]
    BY DEF Room
  <1> DEFINE c == [i \in 0 .. n + 1 |-> IF i <= n THEN b[i] ELSE up]
  <1> HIDE DEF n, xs
  <1>2. c \in [0 .. n + 1 -> Nat] /\ (\A i \in 0 .. n : c[i] = b[i] /\ b[i] \in Nat /\ b[i] <= up) /\ c[n + 1] = up
    <2>1. n \in 0 .. n /\ b[n] \in Nat
      BY <1>0
    <2>2. ASSUME NEW i \in 0 .. n PROVE b[i] \in Nat /\ b[i] <= up
      BY <1>0, <1>1, <2>1
    <2> QED
      BY <1>0, <2>2
  <1> HIDE DEF c
  <1>3. ASSUME NEW i \in 0 .. n + 1, NEW j \in 0 .. n + 1, i <= j PROVE c[i] <= c[j]
    <2>1. CASE j <= n
      <3>1. i \in 0 .. n /\ j \in 0 .. n
        BY <1>0, <1>3, <2>1
      <3> QED
        BY <1>1, <1>2, <1>3, <3>1
    <2>2. CASE j = n + 1
      <3>1. i \in 0 .. n \/ i = n + 1
        BY <1>0
      <3> QED
        BY <1>2, <2>2, <3>1
    <2> QED
      BY <1>0, <2>1, <2>2
  <1>4. ASSUME NEW i \in 1 .. n + 1, Counts(u, xs[i]) PROVE c[i - 1] < c[i]
    <2>1. CASE i = n + 1
      <3>1. i - 1 = n /\ n \in 0 .. n /\ Counts(u, w)
        BY <1>0, <1>4, <2>1
      <3>2. b[n] \in Nat /\ b[n] <= hi /\ hi < up
        BY <1>1, <1>2, <3>1
      <3>3. c[i] = up /\ c[i - 1] = b[n]
        BY <1>2, <2>1, <3>1
      <3> QED
        BY <3>2, <3>3
    <2>2. CASE i # n + 1
      <3>1. i \in 1 .. n /\ i \in 0 .. n /\ i - 1 \in 0 .. n
        BY <1>0, <2>2
      <3> QED
        BY <1>0, <1>1, <1>2, <1>4, <3>1
    <2> QED
      BY <2>1, <2>2
  <1>5. lo <= c[0] /\ c[n + 1] <= up
    BY <1>0, <1>1, <1>2
  <1> QED
    BY <1>0, <1>2, <1>3, <1>4, <1>5 DEF Room, xs

\* The first write is over: done, what it counted is counted; rejected, or not.
LEMMA RoomFrom ==
  ASSUME NEW u, NEW lo \in Nat, NEW hi \in Nat, NEW S, NEW ws \in Seq(S), ws # <<>>, Room(u, lo, ws, hi)
  PROVE  /\ Room(u, lo, Tail(ws), hi)
         /\ Counts(u, Head(ws)) => Room(u, lo + 1, Tail(ws), hi)
  <1> DEFINE n  == Len(ws)
             xs == Tail(ws)
  <1>0. n \in Nat /\ n > 0 /\ Len(xs) = n - 1 /\ Head(ws) = ws[1] /\ \A i \in 1 .. n - 1 : xs[i] = ws[i + 1]
    OBVIOUS
  <1>1. PICK b \in [0 .. n -> Nat] :
          /\ lo <= b[0] /\ b[n] <= hi
          /\ \A i, j \in 0 .. n : i <= j => b[i] <= b[j]
          /\ \A i \in 1 .. n : Counts(u, ws[i]) => b[i - 1] < b[i]
    BY DEF Room
  <1> DEFINE c == [i \in 0 .. n - 1 |-> b[i + 1]]
  <1> HIDE DEF n, xs
  <1>2. c \in [0 .. n - 1 -> Nat] /\ \A i \in 0 .. n - 1 : c[i] = b[i + 1]
    BY <1>0
  <1> HIDE DEF c
  <1>3. ASSUME NEW i \in 0 .. n - 1, NEW j \in 0 .. n - 1, i <= j PROVE c[i] <= c[j]
    <2>1. i + 1 \in 0 .. n /\ j + 1 \in 0 .. n /\ i + 1 <= j + 1
      BY <1>0, <1>3
    <2> QED
      BY <1>1, <1>2, <2>1
  <1>4. ASSUME NEW i \in 1 .. n - 1, Counts(u, xs[i]) PROVE c[i - 1] < c[i]
    <2>1. i \in 0 .. n - 1 /\ i - 1 \in 0 .. n - 1 /\ i + 1 \in 1 .. n /\ (i + 1) - 1 = i /\ (i - 1) + 1 = i
      BY <1>0
    <2> QED
      BY <1>0, <1>1, <1>2, <1>4, <2>1
  <1>5. 0 \in 0 .. n /\ 1 \in 0 .. n /\ 1 \in 1 .. n /\ 0 \in 0 .. n - 1 /\ n - 1 \in 0 .. n - 1
        /\ (n - 1) + 1 = n /\ 0 + 1 = 1 /\ 1 - 1 = 0
    BY <1>0
  <1>6. c[0] = b[1] /\ c[n - 1] = b[n] /\ b[0] \in Nat /\ b[1] \in Nat /\ b[0] <= b[1]
    <2>1. c[0] = b[1]
      BY <1>2, <1>5
    <2>2. c[n - 1] = b[(n - 1) + 1]
      BY <1>2, <1>5
    <2>3. b[0] \in Nat /\ b[1] \in Nat /\ b[0] <= b[1]
      BY <1>1, <1>5
    <2> QED
      BY <1>5, <2>1, <2>2, <2>3
  <1>7. lo <= c[0] /\ (Counts(u, Head(ws)) => lo + 1 <= c[0]) /\ c[n - 1] <= hi
    <2>1. Counts(u, Head(ws)) => b[0] < b[1]
      BY <1>0, <1>1, <1>5
    <2> QED
      BY <1>1, <1>6, <2>1
  <1> QED
    BY <1>0, <1>2, <1>3, <1>4, <1>7 DEF Room, xs

LEMMA RoomIs ==
  ASSUME NEW u, NEW lo \in Nat, NEW hi \in Nat, NEW S, NEW ws \in Seq(S), Room(u, lo, ws, hi)
  PROVE  /\ lo <= hi
         /\ \A l, up \in Nat : l <= lo /\ hi <= up => Room(u, l, ws, up)
  <1>1. PICK b \in [0 .. Len(ws) -> Nat] :
          /\ lo <= b[0] /\ b[Len(ws)] <= hi
          /\ \A i, j \in 0 .. Len(ws) : i <= j => b[i] <= b[j]
          /\ \A i \in 1 .. Len(ws) : Counts(u, ws[i]) => b[i - 1] < b[i]
    BY DEF Room
  <1>2. Len(ws) \in Nat /\ 0 \in 0 .. Len(ws) /\ Len(ws) \in 0 .. Len(ws) /\ 0 <= Len(ws)
    OBVIOUS
  <1>3. b[0] \in Nat /\ b[Len(ws)] \in Nat /\ b[0] <= b[Len(ws)]
    BY <1>1, <1>2
  <1>4. lo <= hi
    BY <1>1, <1>3
  <1>5. ASSUME NEW l \in Nat, NEW up \in Nat, l <= lo, hi <= up PROVE Room(u, l, ws, up)
    <2>1. l <= b[0] /\ b[Len(ws)] <= up
      BY <1>1, <1>3, <1>5
    <2> QED
      BY <1>1, <2>1 DEF Room
  <1> QED
    BY <1>4, <1>5

-----------------------------------------------------------------------------
(* What the reducers and the statements count.                              *)

LEMMA RowsOf ==
  ASSUME NEW row \in Rows \cup {Absent}
  PROVE  /\ Tally(row) \in Nat /\ Best(row) \in Nat
         /\ row # Absent => row \in Rows /\ Tally(row) = row.detections /\ Best(row) = row.bestMph
         /\ Tally(Absent) = 0 /\ Best(Absent) = 0
         /\ \A r \in Rows : r # Absent
  <1>1. ASSUME NEW r \in Rows PROVE r # Absent
    <2>1. r.detections \in Nat /\ Absent.detections = -1
      BY DEF Rows, Absent
    <2> QED
      BY <2>1
  <1> QED
    BY <1>1 DEF Tally, Best, Rows

LEMMA Upserted ==
  ASSUME NEW m, NEW w \in Writes, WriteFits(w, m), w.op # "result", NEW row \in Rows \cup {Absent}
  PROVE  /\ Upsert(row, w) \in Rows \cup {Absent}
         /\ Tally(Upsert(row, w)) = Tally(row) + (IF w.op = "detection" THEN 1 ELSE 0)
         /\ Best(Upsert(row, w)) = IF w.op = "speed" THEN Larger(Best(row), w.arg) ELSE Best(row)
  <1> USE Values, RowsOf DEF WriteFits
  <1> DEFINE new == Upsert(row, w)
  <1>1. CASE w.op = "detection" /\ row = Absent
    <2>1. new = [name |-> None, serial |-> w.arg, detections |-> 1, bestMph |-> 0]
      BY <1>1 DEF Upsert, Blank
    <2>2. new \in Rows
      BY <1>1, <2>1 DEF Rows
    <2> HIDE DEF new
    <2> QED
      BY <1>1, <2>1, <2>2 DEF new
  <1>2. CASE w.op = "detection" /\ row # Absent
    <2> DEFINE t == IF w.arg # None THEN w.arg ELSE row.serial
               more == [row EXCEPT !.detections = row.detections + 1]
    <2>1. new = [more EXCEPT !.serial = t]
      BY <1>2 DEF Upsert, Rows
    <2>2. row \in Rows /\ t \in Uids \cup {None}
      BY <1>2 DEF Rows
    <2>a. more \in Rows /\ more.detections = row.detections + 1 /\ more.bestMph = row.bestMph
      BY <2>2 DEF Rows
    <2> HIDE DEF new, t, more
    <2>3. new \in Rows /\ new.detections = row.detections + 1 /\ new.bestMph = row.bestMph
      BY <2>1, <2>2, <2>a DEF Rows
    <2> QED
      BY <1>2, <2>2, <2>3 DEF new
  <1>3. CASE w.op = "speed" /\ row = Absent
    <2>1. new = [name |-> None, serial |-> None, detections |-> 0, bestMph |-> w.arg]
      BY <1>3 DEF Upsert, Blank
    <2>2. new \in Rows /\ w.arg \in Nat
      BY <1>3, <2>1 DEF Rows
    <2> HIDE DEF new
    <2>3. Larger(0, w.arg) = w.arg
      BY <2>2 DEF Larger
    <2> QED
      BY <1>3, <2>1, <2>2, <2>3 DEF new
  <1>4. CASE w.op = "speed" /\ row # Absent
    <2>1. new = [row EXCEPT !.bestMph = Larger(row.bestMph, w.arg)]
      BY <1>4 DEF Upsert
    <2>2. row \in Rows /\ Larger(row.bestMph, w.arg) \in Nat
      BY <1>4 DEF Rows, Larger
    <2> HIDE DEF new
    <2>3. new \in Rows /\ new.detections = row.detections /\ new.bestMph = Larger(row.bestMph, w.arg)
      BY <2>1, <2>2 DEF Rows
    <2> QED
      BY <1>4, <2>2, <2>3 DEF new
  <1>5. CASE w.op \in {"serial", "name"} /\ row = Absent
    <2>1. new = row
      BY <1>5 DEF Upsert
    <2> QED
      BY <1>5, <2>1
  <1>6. CASE w.op \in {"serial", "name"} /\ row # Absent
    <2>1. new = IF w.op = "serial" THEN [row EXCEPT !.serial = w.arg] ELSE [row EXCEPT !.name = w.arg]
      BY <1>6 DEF Upsert
    <2>2. row \in Rows
      BY <1>6
    <2> HIDE DEF new
    <2>3. new \in Rows /\ new.detections = row.detections /\ new.bestMph = row.bestMph
      BY <1>6, <2>1, <2>2 DEF Rows
    <2> QED
      BY <1>6, <2>2, <2>3 DEF new
  <1> QED
    BY <1>1, <1>2, <1>3, <1>4, <1>5, <1>6 DEF Writes

LEMMA RowedIn ==
  ASSUME NEW m, NEW g, CarsFit(g.cars, m), NEW u \in Uids
  PROVE  /\ RowIn(g, u) \in Rows \cup {Absent}
         /\ RowIn(g, u) = Absent <=> ~Known(g, u)
         /\ RowOf(g, u) = IF RowIn(g, u) = Absent THEN Blank ELSE RowIn(g, u)
  <1>1. Known(g, u) => g.cars[u].row \in Rows
    BY DEF CarsFit, Known, Entries
  <1>2. \A r \in Rows : r # Absent
    BY RowsOf
  <1> QED
    BY <1>1, <1>2 DEF RowIn, RowOf

\* A reducer does to the mirror what its statement does to the table.
LEMMA Mirrored ==
  ASSUME NEW m, NEW g, MirrorFits(g, m), NEW u \in Uids
  PROVE  /\ \A s \in Uids \cup {None} :
              Follows(g, RecordDetection(g, u, s), [op |-> "detection", uid |-> u, arg |-> s])
         /\ \A s \in Uids : Follows(g, RecordSerial(g, u, s), [op |-> "serial", uid |-> u, arg |-> s])
         /\ \A v \in Nat : Follows(g, RecordSpeed(g, u, v), [op |-> "speed", uid |-> u, arg |-> v])
         /\ \A n : Known(g, u) =>
              Follows(g, Issue(g, Put(g, u, [RowOf(g, u) EXCEPT !.name = n]), "name", u, n),
                      [op |-> "name", uid |-> u, arg |-> n])
         /\ \A lap : Follows(g, Issue(g, g.cars, "result", u, lap), [op |-> "result", uid |-> u, arg |-> lap])
  <1>0. CarsFit(g.cars, m) /\ g.cars \in [Uids -> Entries \cup {Absent}]
    BY DEF MirrorFits, CarsFit
  <1>1. /\ RowIn(g, u) \in Rows \cup {Absent}
        /\ RowIn(g, u) = Absent <=> ~Known(g, u)
        /\ RowOf(g, u) = IF RowIn(g, u) = Absent THEN Blank ELSE RowIn(g, u)
    <2>1. CarsFit(g.cars, m)
      BY <1>0
    <2> QED
      BY <2>1, RowedIn
  <1>a. RowIn(g, u) = Absent => RowOf(g, u) = Blank /\ ~Known(g, u)
    BY <1>1
  <1>b. RowIn(g, u) # Absent => RowOf(g, u) = RowIn(g, u) /\ Known(g, u)
    BY <1>1
  <1>2. ASSUME NEW row, NEW op, NEW arg, op # "result", row = Upsert(RowIn(g, u), [op |-> op, uid |-> u, arg |-> arg])
        PROVE  Follows(g, Issue(g, Put(g, u, row), op, u, arg), [op |-> op, uid |-> u, arg |-> arg])
    <2> DEFINE h == Issue(g, Put(g, u, row), op, u, arg)
               w == [op |-> op, uid |-> u, arg |-> arg]
    <2>1. h.writes = Append(g.writes, w) /\ h.cars = Put(g, u, row)
      BY DEF Issue
    <2>2. ASSUME NEW v \in Uids PROVE RowIn(h, v) = IF u = v THEN row ELSE RowIn(g, v)
      <3>1. h.cars[v] = IF u = v THEN [row |-> row, races |-> IF Known(g, u) THEN g.cars[u].races ELSE NoRace] ELSE g.cars[v]
        BY <1>0, <2>1 DEF Put
      <3>2. [row |-> row, races |-> IF Known(g, u) THEN g.cars[u].races ELSE NoRace] # Absent
        BY DEF Absent
      <3> HIDE DEF h
      <3> QED
        BY <3>1, <3>2 DEF RowIn, Known
    <2>3. w.uid = u /\ w.op # "result" /\ row = Upsert(RowIn(g, u), w)
      BY <1>2
    <2> HIDE DEF h, w
    <2>4. Follows(g, h, w)
      BY <2>1, <2>2, <2>3 DEF Follows
    <2> QED
      BY <2>4 DEF h, w
  <1>3. ASSUME NEW s \in Uids \cup {None}
        PROVE  Follows(g, RecordDetection(g, u, s), [op |-> "detection", uid |-> u, arg |-> s])
    <2> DEFINE row == [RowOf(g, u) EXCEPT !.detections = @ + 1, !.serial = IF s # None THEN s ELSE @]
               w   == [op |-> "detection", uid |-> u, arg |-> s]
    <2>1. CASE RowIn(g, u) = Absent
      <3>1. row = [name |-> None, serial |-> s, detections |-> 1, bestMph |-> 0]
        <4>1. row = [Blank EXCEPT !.detections = @ + 1, !.serial = IF s # None THEN s ELSE @]
          BY <1>a, <2>1
        <4>2. Blank.detections + 1 = 1 /\ (IF s # None THEN s ELSE Blank.serial) = s
          BY DEF Blank
        <4>3. [Blank EXCEPT !.detections = 1, !.serial = s]
                = [name |-> None, serial |-> s, detections |-> 1, bestMph |-> 0]
          <5> DEFINE once == [Blank EXCEPT !.detections = 1]
          <5>1. once = [name |-> None, serial |-> None, detections |-> 1, bestMph |-> 0]
            BY DEF Blank
          <5> HIDE DEF once
          <5>2. [once EXCEPT !.serial = s] = [name |-> None, serial |-> s, detections |-> 1, bestMph |-> 0]
            BY <5>1
          <5> QED
            BY <5>2 DEF once
        <4>4. row = [Blank EXCEPT !.detections = 1, !.serial = s]
          BY <4>1, <4>2
        <4> HIDE DEF row
        <4> QED
          BY <4>3, <4>4
      <3>2. Upsert(RowIn(g, u), w) = [name |-> None, serial |-> s, detections |-> 1, bestMph |-> 0]
        BY <2>1 DEF Upsert, Blank
      <3> QED
        BY <1>2, <3>1, <3>2 DEF RecordDetection
    <2>2. CASE RowIn(g, u) # Absent
      <3>1. row = Upsert(RowIn(g, u), w)
        BY <1>b, <2>2 DEF Upsert
      <3> HIDE DEF row
      <3>2. Follows(g, Issue(g, Put(g, u, row), "detection", u, s), w)
        BY <1>2, <3>1
      <3> QED
        BY <3>2 DEF RecordDetection, row
    <2> QED
      BY <2>1, <2>2
  <1>4. ASSUME NEW s \in Uids
        PROVE  Follows(g, RecordSerial(g, u, s), [op |-> "serial", uid |-> u, arg |-> s])
    <2> DEFINE row == [RowOf(g, u) EXCEPT !.serial = s]
               w   == [op |-> "serial", uid |-> u, arg |-> s]
    <2>1. CASE RowIn(g, u) = Absent
      <3>1. RecordSerial(g, u, s) = [cars |-> g.cars, writes |-> Append(g.writes, w)]
        BY <1>a, <2>1 DEF RecordSerial, Issue
      <3>2. Upsert(RowIn(g, u), w) = RowIn(g, u)
        BY <2>1 DEF Upsert
      <3>3. w.uid = u
        OBVIOUS
      <3> DEFINE h == RecordSerial(g, u, s)
      <3>4. h.writes = Append(g.writes, w) /\ \A v \in Uids : RowIn(h, v) = RowIn(g, v)
        BY <3>1 DEF RowIn, Known
      <3> HIDE DEF h, w
      <3>5. Follows(g, h, w)
        BY <3>2, <3>3, <3>4 DEF Follows
      <3> QED
        BY <3>5 DEF h, w
    <2>2. CASE RowIn(g, u) # Absent
      <3>1. row = Upsert(RowIn(g, u), w)
        BY <1>b, <2>2 DEF Upsert
      <3> HIDE DEF row
      <3>2. Follows(g, Issue(g, Put(g, u, row), "serial", u, s), w)
        BY <1>2, <3>1
      <3> QED
        BY <1>b, <2>2, <3>2 DEF RecordSerial, row
    <2> QED
      BY <2>1, <2>2
  <1>5. ASSUME NEW v \in Nat
        PROVE  Follows(g, RecordSpeed(g, u, v), [op |-> "speed", uid |-> u, arg |-> v])
    <2> DEFINE row == [RowOf(g, u) EXCEPT !.bestMph = Larger(@, v)]
               w   == [op |-> "speed", uid |-> u, arg |-> v]
    <2>1. CASE RowIn(g, u) = Absent
      <3>1. Larger(0, v) = v
        BY DEF Larger
      <3>2. row = [name |-> None, serial |-> None, detections |-> 0, bestMph |-> v]
        BY <1>1, <2>1, <3>1 DEF Blank
      <3>3. Upsert(RowIn(g, u), w) = [name |-> None, serial |-> None, detections |-> 0, bestMph |-> v]
        BY <2>1 DEF Upsert, Blank
      <3> HIDE DEF row
      <3>4. Follows(g, Issue(g, Put(g, u, row), "speed", u, v), w)
        BY <1>2, <3>2, <3>3
      <3> QED
        BY <3>4 DEF RecordSpeed, row
    <2>2. CASE RowIn(g, u) # Absent
      <3>1. row = Upsert(RowIn(g, u), w)
        BY <1>b, <2>2 DEF Upsert
      <3> HIDE DEF row
      <3>2. Follows(g, Issue(g, Put(g, u, row), "speed", u, v), w)
        BY <1>2, <3>1
      <3> QED
        BY <3>2 DEF RecordSpeed, row
    <2> QED
      BY <2>1, <2>2
  <1>6. ASSUME NEW n, Known(g, u)
        PROVE  Follows(g, Issue(g, Put(g, u, [RowOf(g, u) EXCEPT !.name = n]), "name", u, n),
                       [op |-> "name", uid |-> u, arg |-> n])
    <2> DEFINE row == [RowOf(g, u) EXCEPT !.name = n]
               w   == [op |-> "name", uid |-> u, arg |-> n]
    <2>1. row = Upsert(RowIn(g, u), w)
      BY <1>a, <1>b, <1>6 DEF Upsert
    <2> HIDE DEF row
    <2>2. Follows(g, Issue(g, Put(g, u, row), "name", u, n), w)
      BY <1>2, <2>1
    <2> QED
      BY <2>2 DEF row
  <1>7. ASSUME NEW lap
        PROVE  Follows(g, Issue(g, g.cars, "result", u, lap), [op |-> "result", uid |-> u, arg |-> lap])
    BY DEF Follows, Issue, RowIn, Known
  <1> QED
    BY <1>3, <1>4, <1>5, <1>6, <1>7

\* What a write adds to the detections of u, and makes of its best speed and races.
Plus(u, w)    == IF Counts(u, w) THEN 1 ELSE 0
Sped(u, b, w) == IF w.op = "speed" /\ w.uid = u THEN Larger(b, w.arg) ELSE b
Raced(u, r, w) == IF w.op = "result" /\ w.uid = u THEN SaveResult(r, w.arg) ELSE r

LEMMA Followed ==
  ASSUME NEW m, NEW g, MirrorFits(g, m), NEW w \in Writes, WriteFits(w, m), NEW h, Follows(g, h, w),
         NEW u \in Uids
  PROVE  /\ Tally(RowIn(h, u)) = Tally(RowIn(g, u)) + Plus(u, w)
         /\ Best(RowIn(h, u)) = Sped(u, Best(RowIn(g, u)), w)
         /\ \A e, r : Leads(u, e, g.writes, [row |-> RowIn(g, u), races |-> r]) =>
                      Leads(u, e, h.writes, [row |-> RowIn(h, u), races |-> Raced(u, r, w)])
         /\ \A lo, hi \in Nat : Room(u, lo, g.writes, hi) => Room(u, lo, h.writes, hi + Plus(u, w))
  <1>0. RowIn(g, u) \in Rows \cup {Absent} /\ g.writes \in Seq(Writes)
    <2>1. g.writes \in Seq({x \in Writes : WriteFits(x, m)})
      BY DEF MirrorFits, WritesFit
    <2>2. g.writes \in Seq(Writes)
      <3> DEFINE W == {x \in Writes : WriteFits(x, m)}
      <3>1. g.writes \in Seq(W) /\ W \subseteq Writes
        BY <2>1
      <3> HIDE DEF W
      <3> QED
        BY <3>1
    <2> QED
      BY <2>2, RowedIn DEF MirrorFits
  <1>1. h.writes = Append(g.writes, w)
        /\ RowIn(h, u) = IF w.uid = u /\ w.op # "result" THEN Upsert(RowIn(g, u), w) ELSE RowIn(g, u)
    BY DEF Follows
  <1>2. Tally(RowIn(h, u)) = Tally(RowIn(g, u)) + Plus(u, w) /\ Best(RowIn(h, u)) = Sped(u, Best(RowIn(g, u)), w)
    <2>1. CASE w.uid = u /\ w.op # "result"
      BY <1>0, <1>1, <2>1, Upserted DEF Plus, Sped, Counts
    <2>2. CASE ~(w.uid = u /\ w.op # "result")
      <3>1. Plus(u, w) = 0 /\ Tally(RowIn(g, u)) \in Nat
        BY <1>0, <2>2, RowsOf DEF Plus, Counts
      <3> QED
        BY <1>1, <2>2, <3>1 DEF Sped
    <2> QED
      BY <2>1, <2>2
  <1>3. ASSUME NEW e, NEW r, Leads(u, e, g.writes, [row |-> RowIn(g, u), races |-> r])
        PROVE  Leads(u, e, h.writes, [row |-> RowIn(h, u), races |-> Raced(u, r, w)])
    <2> DEFINE f == [row |-> RowIn(g, u), races |-> r]
    <2>1. Does(u, f, w) = [row |-> RowIn(h, u), races |-> Raced(u, r, w)]
      BY <1>1 DEF Does, Raced
    <2>2. Leads(u, e, Append(g.writes, w), Does(u, f, w))
      BY <1>0, <1>3, LeadsOn
    <2> HIDE DEF f
    <2> QED
      BY <1>1, <2>1, <2>2
  <1>4. ASSUME NEW lo \in Nat, NEW hi \in Nat, Room(u, lo, g.writes, hi)
        PROVE  Room(u, lo, h.writes, hi + Plus(u, w))
    <2>1. hi + Plus(u, w) \in Nat /\ hi <= hi + Plus(u, w) /\ (Counts(u, w) => hi < hi + Plus(u, w))
      BY DEF Plus
    <2> QED
      BY <1>0, <1>1, <1>4, <2>1, RoomOn
  <1> QED
    BY <1>2, <1>3, <1>4

-----------------------------------------------------------------------------
(* What the mirror says of a car, and what is true of it.                   *)

\* Of car u, which arrived `a` times, drove `f` and raced `r`, the mirror g:
\* what waits makes the table what it shows, and it counts no arrival twice.
Told(u, g, a, f, r, m) ==
  /\ u \notin lost => Leads(u, Held(u), g.writes, [row |-> RowIn(g, u), races |-> r])
  /\ Room(u, Tally(db.cars[u]), g.writes, a)
  /\ Tally(RowIn(g, u)) <= a
  /\ u \notin lost \cup m => Tally(RowIn(g, u)) = a /\ Best(RowIn(g, u)) = f

\* While no application runs the table says it.
Stored(u) ==
  /\ u \notin lost => db.results[u] = banked[u]
  /\ Tally(db.cars[u]) <= arrivals[u]
  /\ u \notin lost \cup mixed => Tally(db.cars[u]) = arrivals[u] /\ Best(db.cars[u]) = fastest[u]

CarOK(u) ==
  /\ wired => Told(u, Mirror, arrivals[u], fastest[u], banked[u], mixed)
  /\ ~wired => Stored(u)

\* A car that was announced is the store's; a store with another has missed a
\* removal.  The bridge has seen the store as it is.
ActorsOK ==
  /\ announced => ~quiet /\ on # None /\ car.uid = on
  /\ ~announced /\ car.uid # None => quiet
  /\ wired => lastUid = car.uid
  /\ ~wired => writes = <<>> /\ tx = "none"
  /\ passCounter \in Nat /\ lastPassId \in 0 .. passCounter /\ head \in 0 .. passCounter
  /\ wired => head \in {0, lastPassId}

HistoryOK ==
  arrivals \in [Uids -> Nat] /\ fastest \in [Uids -> Nat] /\ banked \in [Uids -> Results]

BeforeOK == InTransaction => \A u \in Uids : Tally(before.cars[u]) <= Tally(db.cars[u])

TInv == IInv /\ ActorsOK /\ HistoryOK /\ BeforeOK /\ \A u \in Uids : CarOK(u)

-----------------------------------------------------------------------------
LEMMA TableRows ==
  ASSUME NEW m, NEW d, TableFits(d, m), NEW u \in Uids
  PROVE  /\ d.cars[u] \in Rows \cup {Absent} /\ Tally(d.cars[u]) \in Nat /\ Best(d.cars[u]) \in Nat
         /\ d.results[u] \in Results
  BY RowsOf DEF TableFits, Tables

LEMMA SomeWrites ==
  ASSUME NEW m, NEW ws, WritesFit(ws, m)
  PROVE  /\ ws \in Seq(Writes) /\ Len(ws) \in Nat
         /\ ws # <<>> => Head(ws) \in Writes /\ WriteFits(Head(ws), m)
  <1> DEFINE W == {x \in Writes : WriteFits(x, m)}
  <1>1. ws \in Seq(W) /\ W \subseteq Writes
    BY DEF WritesFit
  <1>2. \A w \in W : w \in Writes /\ WriteFits(w, m)
    OBVIOUS
  <1> HIDE DEF W
  <1>3. ws \in Seq(Writes)
    BY <1>1
  <1>4. ws # <<>> => Head(ws) \in W
    BY <1>1
  <1> QED
    BY <1>2, <1>3, <1>4

LEMMA ToldOn ==
  ASSUME IInv, NEW m, NEW n, NEW g, MirrorFits(g, n), NEW w \in Writes, WriteFits(w, n), NEW h, Follows(g, h, w),
         NEW u \in Uids, NEW a \in Nat, NEW f, NEW r, Told(u, g, a, f, r, m)
  PROVE  Told(u, h, a + Plus(u, w), Sped(u, f, w), Raced(u, r, w), m)
  <1>0. Tally(db.cars[u]) \in Nat
    BY TableRows DEF IInv
  <1>1. /\ Tally(RowIn(h, u)) = Tally(RowIn(g, u)) + Plus(u, w)
        /\ Best(RowIn(h, u)) = Sped(u, Best(RowIn(g, u)), w)
    BY Followed
  <1>2. Leads(u, Held(u), g.writes, [row |-> RowIn(g, u), races |-> r]) =>
        Leads(u, Held(u), h.writes, [row |-> RowIn(h, u), races |-> Raced(u, r, w)])
    BY Followed
  <1>3. Room(u, Tally(db.cars[u]), h.writes, a + Plus(u, w))
    BY <1>0, Followed DEF Told
  <1>4. Tally(RowIn(g, u)) \in Nat /\ Plus(u, w) \in Nat
    BY RowsOf, RowedIn DEF MirrorFits, Plus
  <1> QED
    BY <1>1, <1>2, <1>3, <1>4 DEF Told

\* More arrivals, and more cars mixed up.
LEMMA ToldMore ==
  ASSUME IInv, NEW g, NEW k, WritesFit(g.writes, k), NEW m, NEW n, m \subseteq n, NEW u \in Uids, NEW a \in Nat, NEW f, NEW r, Told(u, g, a, f, r, m),
         NEW b \in Nat, a <= b, NEW v, u \notin lost \cup n => a = b /\ f = v, Tally(RowIn(g, u)) \in Nat
  PROVE  Told(u, g, b, v, r, n)
  <1>0. Tally(db.cars[u]) \in Nat /\ g.writes \in Seq(Writes)
    BY TableRows, SomeWrites DEF IInv
  <1>1. Room(u, Tally(db.cars[u]), g.writes, b)
    BY <1>0, RoomIs DEF Told
  <1>2. Tally(RowIn(g, u)) <= b
    BY DEF Told
  <1> QED
    BY <1>1, <1>2 DEF Told

\* What the bridge makes of a store with car c and newest pass p.
LEMMA ToldObserved ==
  ASSUME IInv, ActorsOK, wired, NEW n, MirrorFits(Mirror, n), NEW c, CarFits(c, n),
         NEW p, p.uid \in Uids \cup {None}, p.mph \in Nat, Observe(c, p),
         NEW m, NEW u \in Uids, NEW a \in Nat, NEW f, NEW r, Told(u, Mirror, a, f, r, m)
  PROVE  Told(u, [cars |-> garage', writes |-> writes'],
              a + (IF c.uid = u /\ c.uid # lastUid THEN 1 ELSE 0),
              IF p.id # 0 /\ p.id # lastPassId /\ p.uid = u THEN Larger(f, p.mph) ELSE f, r, m)
  <1> DEFINE placed == IF c.uid # None /\ c.uid # lastUid THEN RecordDetection(Mirror, c.uid, c.serial)
                       ELSE IF c.uid # None /\ c.serial # None /\ c.serial # lastSerial
                       THEN RecordSerial(Mirror, c.uid, c.serial)
                       ELSE Mirror
             crosses == p.id # 0 /\ p.id # lastPassId
             g == IF crosses /\ p.uid # None THEN RecordSpeed(placed, p.uid, p.mph) ELSE placed
             one == IF c.uid = u /\ c.uid # lastUid THEN 1 ELSE 0
  <1> USE Values
  <1>1. MirrorFits(placed, n) /\ Told(u, placed, a + one, f, r, m)
    <2>1. CASE c.uid # None /\ c.uid # lastUid
      <3> DEFINE w == [op |-> "detection", uid |-> c.uid, arg |-> c.serial]
      <3>1. c.uid \in Uids /\ c.serial \in Uids \cup {None} /\ Fits(c.uid, c.serial, n)
        BY <2>1 DEF CarFits
      <3>2. placed = RecordDetection(Mirror, c.uid, c.serial)
        BY <2>1
      <3> HIDE DEF placed
      <3>3. MirrorFits(placed, n) /\ Follows(Mirror, placed, w)
        BY <3>1, <3>2, Reducing, Mirrored
      <3>4. w \in Writes /\ WriteFits(w, n)
        BY <3>1 DEF Writes, WriteFits
      <3>5. Plus(u, w) = one /\ Sped(u, f, w) = f /\ Raced(u, r, w) = r
        BY <2>1 DEF Plus, Counts, Sped, Raced
      <3> HIDE DEF w, one
      <3>6. Told(u, placed, a + Plus(u, w), Sped(u, f, w), Raced(u, r, w), m)
        BY <3>3, <3>4, ToldOn
      <3> QED
        BY <3>3, <3>5, <3>6
    <2>2. CASE c.uid # None /\ c.serial # None /\ c.serial # lastSerial /\ c.uid = lastUid
      <3> DEFINE w == [op |-> "serial", uid |-> c.uid, arg |-> c.serial]
      <3>1. c.uid \in Uids /\ c.serial \in Uids /\ Fits(c.uid, c.serial, n)
        BY <2>2 DEF CarFits
      <3>2. placed = RecordSerial(Mirror, c.uid, c.serial)
        BY <2>2
      <3> HIDE DEF placed
      <3>3. MirrorFits(placed, n) /\ Follows(Mirror, placed, w)
        BY <3>1, <3>2, Reducing, Mirrored
      <3>4. w \in Writes /\ WriteFits(w, n)
        BY <3>1 DEF Writes, WriteFits
      <3>5. Plus(u, w) = one /\ Sped(u, f, w) = f /\ Raced(u, r, w) = r
        BY <2>2 DEF Plus, Counts, Sped, Raced
      <3> HIDE DEF w, one
      <3>6. Told(u, placed, a + Plus(u, w), Sped(u, f, w), Raced(u, r, w), m)
        BY <3>3, <3>4, ToldOn
      <3> QED
        BY <3>3, <3>5, <3>6
    <2>3. CASE c.uid = None \/ (c.uid = lastUid /\ ~(c.serial # None /\ c.serial # lastSerial))
      <3>1. placed = Mirror
        BY <2>3
      <3>2. one = 0
        BY <2>3
      <3> HIDE DEF placed, one
      <3>3. a + one = a
        BY <3>2
      <3> QED
        BY <3>1, <3>3
    <2> QED
      BY <2>1, <2>2, <2>3
  <1>2. one \in Nat /\ a + one \in Nat
    OBVIOUS
  <1>3. MirrorBecomes(g)
    BY DEF Observe
  <1> HIDE DEF placed, one
  <1>4. Told(u, g, a + one, IF crosses /\ p.uid = u THEN Larger(f, p.mph) ELSE f, r, m)
    <2>1. CASE crosses /\ p.uid # None
      <3> DEFINE w == [op |-> "speed", uid |-> p.uid, arg |-> p.mph]
      <3>1. g = RecordSpeed(placed, p.uid, p.mph) /\ p.uid \in Uids
        BY <2>1
      <3> HIDE DEF g
      <3>3. Follows(placed, g, w)
        BY <1>1, <3>1, Mirrored
      <3>4. w \in Writes /\ WriteFits(w, n)
        BY <3>1 DEF Writes, WriteFits
      <3>5. Plus(u, w) = 0 /\ Sped(u, f, w) = (IF crosses /\ p.uid = u THEN Larger(f, p.mph) ELSE f) /\ Raced(u, r, w) = r
        BY <2>1 DEF Plus, Counts, Sped, Raced
      <3> HIDE DEF w
      <3>6. Told(u, g, (a + one) + Plus(u, w), Sped(u, f, w), Raced(u, r, w), m)
        BY <1>1, <1>2, <3>3, <3>4, ToldOn
      <3>7. (a + one) + Plus(u, w) = a + one
        BY <1>2, <3>5
      <3> QED
        BY <3>5, <3>6, <3>7
    <2>2. CASE ~(crosses /\ p.uid # None)
      <3>1. g = placed /\ ~(crosses /\ p.uid = u)
        BY <2>2
      <3> HIDE DEF g, crosses
      <3> QED
        BY <1>1, <3>1
    <2> QED
      BY <2>1, <2>2
  <1>5. g = [cars |-> garage', writes |-> writes']
    <2>1. g = [cars |-> g.cars, writes |-> g.writes]
      BY DEF placed, RecordDetection, RecordSerial, RecordSpeed, Issue, Mirror
    <2> HIDE DEF g
    <2> QED
      BY <1>3, <2>1 DEF MirrorBecomes
  <1> HIDE DEF g
  <1> QED
    BY <1>4, <1>5 DEF one

-----------------------------------------------------------------------------
(* The steps.                                                               *)

LEMMA InitTInv == Init => TInv
  <1> SUFFICES ASSUME Init PROVE TInv
    OBVIOUS
  <1> USE Values
  <1>1. IInv
    BY Initially
  <1>2. ActorsOK
    BY DEF Init, ActorsOK, NoCar, InTransaction
  <1>3. HistoryOK /\ BeforeOK
    BY DEF Init, HistoryOK, BeforeOK, InTransaction
  <1>4. ASSUME NEW u \in Uids PROVE CarOK(u)
    <2>1. ~wired /\ db.results[u] = banked[u] /\ db.cars[u] = Absent /\ arrivals[u] = 0 /\ fastest[u] = 0
      BY DEF Init, Empty
    <2>2. Tally(Absent) = 0 /\ Best(Absent) = 0
      BY DEF Tally, Best
    <2> QED
      BY <2>1, <2>2 DEF CarOK, Stored
  <1> QED
    BY <1>1, <1>2, <1>3, <1>4 DEF TInv

\* A step of the portal or the store, and what the bridge makes of it: the cars
\* that are not mixed up gain what the bridge counts, the others no less.
LEMMA EventKeeps ==
  ASSUME TInv, IInv', ActorsOK', NEW c, CarFits(c, mixed'), mixed \subseteq mixed',
         NEW p, p.uid \in Uids \cup {None}, p.mph \in Nat, Notify(c, p),
         UNCHANGED <<wired, db, before, lost, banked>>, InTransaction' => InTransaction,
         HistoryOK',
         ~wired => UNCHANGED <<arrivals, fastest>>,
         wired => \A u \in Uids :
           LET one  == IF c.uid = u /\ c.uid # car.uid THEN 1 ELSE 0
               best == IF p.id # 0 /\ p.id # lastPassId /\ p.uid = u THEN Larger(fastest[u], p.mph) ELSE fastest[u]
           IN  /\ arrivals[u] + one <= arrivals'[u]
               /\ u \notin mixed' => arrivals'[u] = arrivals[u] + one /\ fastest'[u] = best
  PROVE  TInv'
  <1>1. BeforeOK'
    BY DEF TInv, BeforeOK
  <1>2. ASSUME NEW u \in Uids PROVE CarOK(u)'
    <2>1. CASE ~wired
      <3>1. Stored(u)
        BY <2>1 DEF TInv, CarOK
      <3>2. Stored(u)'
        BY <2>1, <3>1 DEF Stored
      <3> QED
        BY <2>1, <3>2 DEF CarOK
    <2>2. CASE wired
      <3> DEFINE one  == IF c.uid = u /\ c.uid # car.uid THEN 1 ELSE 0
                 best == IF p.id # 0 /\ p.id # lastPassId /\ p.uid = u THEN Larger(fastest[u], p.mph) ELSE fastest[u]
                 new  == [cars |-> garage', writes |-> writes']
      <3>0. /\ arrivals[u] + one <= arrivals'[u]
            /\ u \notin mixed' => arrivals'[u] = arrivals[u] + one /\ fastest'[u] = best
            /\ arrivals[u] \in Nat /\ arrivals'[u] \in Nat
        BY <2>2 DEF TInv, HistoryOK
      <3>1. Observe(c, p) /\ lastUid = car.uid
        BY <2>2 DEF Notify, TInv, ActorsOK
      <3>2. Told(u, Mirror, arrivals[u], fastest[u], banked[u], mixed)
        BY <2>2 DEF TInv, CarOK
      <3>3. MirrorFits(Mirror, mixed')
        BY MoreMixed, MirrorIs DEF TInv, IInv, MirrorFits
      <3>4. Told(u, new, arrivals[u] + one, best, banked[u], mixed)
        BY <2>2, <3>0, <3>1, <3>2, <3>3, ToldObserved DEF TInv
      <3>5. CarsFit(new.cars, mixed') /\ WritesFit(new.writes, mixed')
        BY DEF IInv
      <3>6. Tally(RowIn(new, u)) \in Nat
        BY <3>5, RowedIn, RowsOf
      <3>7. arrivals[u] + one \in Nat
        BY <3>0
      <3> HIDE DEF one, best, new
      <3>8. Told(u, new, arrivals'[u], fastest'[u], banked[u], mixed')
        BY <3>0, <3>4, <3>5, <3>6, <3>7, ToldMore DEF TInv
      <3>9. Mirror' = new
        BY DEF Mirror, new
      <3>10. Held(u)' = Held(u)
        BY DEF Held
      <3>11. Told(u, Mirror, arrivals[u], fastest[u], banked[u], mixed)'
        BY <3>8, <3>9, <3>10 DEF Told, RowIn, Known
      <3> QED
        BY <2>2, <3>11 DEF CarOK
    <2> QED
      BY <2>1, <2>2
  <1> QED
    BY <1>1, <1>2 DEF TInv

\* A step that touches neither the mirror nor the table, nor what is true.
LEMMA QuietKeeps ==
  ASSUME TInv, IInv', ActorsOK',
         UNCHANGED <<wired, garage, writes, db, before, tx, arrivals, fastest, banked, lost, mixed>>
  PROVE  TInv'
  <1>1. HistoryOK' /\ BeforeOK'
    BY DEF TInv, HistoryOK, BeforeOK, InTransaction
  <1>2. ASSUME NEW u \in Uids PROVE CarOK(u)'
    <2>1. CarOK(u)
      BY DEF TInv
    <2> QED
      BY <2>1 DEF CarOK, Told, Stored, Held, Mirror, RowIn, Known
  <1> QED
    BY <1>1, <1>2 DEF TInv

\* What the bridge has seen afterwards.
LEMMA Notified ==
  ASSUME ActorsOK, NEW c, NEW p, Notify(c, p)
  PROVE  /\ wired => lastUid' = c.uid
         /\ lastPassId' = IF wired /\ p.id # 0 /\ p.id # lastPassId THEN p.id ELSE lastPassId
         /\ InTransaction' => InTransaction
         /\ ~wired => writes' = <<>> /\ tx' = "none"
  <1>1. CASE wired
    <2>1. /\ lastUid' = c.uid
          /\ lastPassId' = IF p.id # 0 /\ p.id # lastPassId THEN p.id ELSE lastPassId
          /\ tx' \in {tx} \cup (IF p.id # 0 /\ p.id # lastPassId THEN {"begin"} ELSE {})
      BY <1>1 DEF Notify, Observe
    <2> QED
      BY <1>1, <2>1 DEF InTransaction
  <1>2. CASE ~wired
    BY <1>2 DEF Notify, mirror, ActorsOK, InTransaction
  <1> QED
    BY <1>1, <1>2

LEMMA TellingTrue ==
  ASSUME TInv
  PROVE  /\ TellCar => TInv'
         /\ TellSerial => TInv'
         /\ TellRemoved => TInv'
         /\ RemoveUntold => TInv'
         /\ \A u \in Uids : Place(u) => TInv'
         /\ \A v \in Speeds : Cross(v) => TInv'
         /\ Connect => TInv'
         /\ Disconnect => TInv'
  <1> USE Values
  <1>0. IInv /\ ActorsOK /\ StoreOK /\ HistoryOK
    BY DEF TInv, IInv
  <1>s. /\ Seen.id = head /\ Seen.uid = None /\ Seen.mph = 0
        /\ [Seen EXCEPT !.id = 0].id = 0 /\ [Seen EXCEPT !.id = 0].uid = None /\ [Seen EXCEPT !.id = 0].mph = 0
    BY DEF Seen
  <1>h. wired => ~(head # 0 /\ head # lastPassId)
    BY <1>0 DEF ActorsOK
  <1>a. \A u \in Uids : arrivals[u] \in Nat /\ fastest[u] \in Nat
    BY <1>0 DEF HistoryOK
  <1>1. ASSUME TellCar PROVE TInv'
    <2> DEFINE c == [uid |-> on, serial |-> car.serial]
    <2>1. /\ connected /\ on # None /\ on \in Uids /\ Notify(c, Seen) /\ car' = c /\ announced' = TRUE /\ quiet' = FALSE
          /\ arrivals' = IF ~announced /\ wired THEN [arrivals EXCEPT ![on] = @ + 1] ELSE arrivals
          /\ mixed' = IF quiet THEN mixed \cup {on} ELSE mixed
          /\ UNCHANGED <<on, connected, head, passCounter, wired, db, before, fastest, banked, lost>>
      BY <1>0, <1>1 DEF TellCar, CarDetected, StoreOK
    <2>2. IInv'
      BY <1>0, <1>1, Telling
    <2>3. CarFits(c, mixed') /\ mixed \subseteq mixed'
      BY <2>1, <2>2 DEF IInv, StoreOK
    <2>4. c.uid = on
      OBVIOUS
    <2> HIDE DEF c
    <2>5. /\ wired => lastUid' = c.uid
          /\ lastPassId' = lastPassId
          /\ InTransaction' => InTransaction
          /\ ~wired => writes' = <<>> /\ tx' = "none"
      BY <1>0, <1>s, <1>h, <2>1, Notified
    <2>6. ActorsOK'
      BY <1>0, <2>1, <2>4, <2>5 DEF ActorsOK
    <2>7. HistoryOK'
      BY <1>0, <1>a, <2>1 DEF HistoryOK
    <2>8. ASSUME wired, NEW u \in Uids
          PROVE  LET one == IF c.uid = u /\ c.uid # car.uid THEN 1 ELSE 0
                     best == IF Seen.id # 0 /\ Seen.id # lastPassId /\ Seen.uid = u THEN Larger(fastest[u], Seen.mph) ELSE fastest[u]
                 IN  /\ arrivals[u] + one <= arrivals'[u]
                     /\ u \notin mixed' => arrivals'[u] = arrivals[u] + one /\ fastest'[u] = best
      <3> DEFINE one == IF c.uid = u /\ c.uid # car.uid THEN 1 ELSE 0
      <3>1. arrivals[u] + one <= arrivals'[u] /\ (u \notin mixed' => arrivals'[u] = arrivals[u] + one)
        <4>1. CASE announced
          <5>1. one = 0 /\ arrivals' = arrivals
            BY <1>0, <2>1, <2>4, <4>1 DEF ActorsOK
          <5> QED
            BY <1>a, <5>1
        <4>2. CASE ~announced /\ u # on
          <5>1. one = 0 /\ arrivals'[u] = arrivals[u]
            BY <1>0, <2>1, <2>4, <4>2 DEF HistoryOK
          <5> QED
            BY <1>a, <5>1
        <4>3. CASE ~announced /\ u = on
          <5>1. arrivals'[u] = arrivals[u] + 1
            BY <1>0, <2>1, <2>8, <4>3 DEF HistoryOK
          <5>2. one = 1 \/ (one = 0 /\ car.uid = on)
            BY <2>4, <4>3
          <5>3. one = 0 => u \in mixed'
            BY <1>0, <2>1, <4>3, <5>2 DEF ActorsOK
          <5> HIDE DEF one
          <5> QED
            BY <1>a, <5>1, <5>2, <5>3
        <4> QED
          BY <4>1, <4>2, <4>3
      <3>2. Seen.uid # u
        BY <1>s
      <3> QED
        BY <2>1, <3>1, <3>2
    <2>9. ~wired => UNCHANGED <<arrivals, fastest>>
      BY <2>1
    <2>10. TInv /\ Seen.uid \in Uids \cup {None} /\ Seen.mph \in Nat
      BY <1>s
    <2>11. Notify(c, Seen) /\ UNCHANGED <<wired, db, before, lost, banked>> /\ (InTransaction' => InTransaction)
      BY <2>1, <2>5
    <2> QED
      BY ONLY <2>2, <2>3, <2>6, <2>7, <2>8, <2>9, <2>10, <2>11, EventKeeps
  <1>2. ASSUME NEW c, Notify(c, Seen), CarFits(c, mixed'), mixed \subseteq mixed', IInv', ActorsOK',
               UNCHANGED <<wired, db, before, lost, banked, arrivals, fastest>>,
               c.uid = None \/ c.uid = car.uid
        PROVE  TInv'
    <2>1. InTransaction' => InTransaction
      BY <1>0, <1>2, Notified
    <2>2. HistoryOK'
      BY <1>0, <1>2 DEF HistoryOK
    <2>3. ASSUME NEW u \in Uids
          PROVE  LET one == IF c.uid = u /\ c.uid # car.uid THEN 1 ELSE 0
                     best == IF Seen.id # 0 /\ Seen.id # lastPassId /\ Seen.uid = u THEN Larger(fastest[u], Seen.mph) ELSE fastest[u]
                 IN  /\ arrivals[u] + one <= arrivals'[u]
                     /\ u \notin mixed' => arrivals'[u] = arrivals[u] + one /\ fastest'[u] = best
      <3>1. Seen.uid # u /\ ~(c.uid = u /\ c.uid # car.uid)
        BY <1>2, <1>s
      <3> QED
        BY <1>2, <1>a, <3>1
    <2> QED
      BY <1>2, <1>s, <2>1, <2>2, <2>3, EventKeeps
  <1>3. ASSUME TellSerial PROVE TInv'
    <2> DEFINE c == [uid |-> car.uid, serial |-> on]
    <2>1. /\ Notify(c, Seen) /\ car' = c
          /\ mixed' = IF quiet /\ car.uid # None THEN mixed \cup {car.uid} ELSE mixed
          /\ UNCHANGED <<on, announced, quiet, head, passCounter, wired, db, before, arrivals, fastest, banked, lost>>
      BY <1>3 DEF TellSerial, portal
    <2>2. IInv'
      BY <1>0, <1>3, Telling
    <2>3. CarFits(c, mixed') /\ mixed \subseteq mixed'
      BY <2>1, <2>2 DEF IInv, StoreOK
    <2>4. c.uid = car.uid
      OBVIOUS
    <2> HIDE DEF c
    <2>5. /\ wired => lastUid' = c.uid
          /\ lastPassId' = lastPassId
          /\ ~wired => writes' = <<>> /\ tx' = "none"
      BY <1>0, <1>s, <1>h, <2>1, Notified
    <2>6. ActorsOK'
      BY <1>0, <2>1, <2>4, <2>5 DEF ActorsOK
    <2> QED
      BY <1>2, <2>1, <2>2, <2>3, <2>4, <2>6
  <1>n. NoCar.uid = None
    BY DEF NoCar
  <1>4. ASSUME TellRemoved PROVE TInv'
    <2>1. /\ Notify(NoCar, Seen) /\ car' = NoCar /\ announced' = FALSE /\ quiet' = FALSE /\ on' = None
          /\ UNCHANGED <<mixed, head, passCounter, wired, db, before, arrivals, fastest, banked, lost>>
      BY <1>4 DEF TellRemoved, CarRemoved, truth
    <2>2. IInv'
      BY <1>0, <1>4, Telling
    <2>3. CarFits(NoCar, mixed')
      BY <2>1, <2>2 DEF IInv, StoreOK
    <2>5. /\ wired => lastUid' = None
          /\ lastPassId' = lastPassId
          /\ ~wired => writes' = <<>> /\ tx' = "none"
      BY <1>0, <1>s, <1>h, <1>n, <2>1, Notified
    <2>6. ActorsOK'
      BY <1>0, <1>n, <2>1, <2>5 DEF ActorsOK
    <2> QED
      BY <1>2, <1>n, <2>1, <2>2, <2>3, <2>6
  <1>5. ASSUME RemoveUntold PROVE TInv'
    <2>1. /\ on' = None /\ announced' = FALSE /\ quiet' = (quiet \/ car # NoCar)
          /\ UNCHANGED <<car, head, passCounter, wired, lastUid, lastPassId, garage, writes, db, before, tx,
                         arrivals, fastest, banked, lost, mixed>>
      BY <1>5 DEF RemoveUntold, store, bridge, mirror, disk, truth
    <2>2. IInv'
      BY <1>0, <1>5, Telling
    <2>3. ActorsOK'
      BY <1>0, <1>n, <2>1 DEF ActorsOK, InTransaction
    <2> QED
      BY <2>1, <2>2, <2>3, QuietKeeps
  <1>6. ASSUME NEW u \in Uids, Place(u) PROVE TInv'
    <2>1. /\ on = None /\ announced' = FALSE
          /\ UNCHANGED <<quiet, car, head, passCounter, wired, lastUid, lastPassId, garage, writes, db, before, tx,
                         arrivals, fastest, banked, lost, mixed>>
      BY <1>6 DEF Place, store, bridge, mirror, disk, truth
    <2>2. IInv'
      BY <1>0, <1>6, Telling
    <2>3. ActorsOK'
      BY <1>0, <2>1 DEF ActorsOK, InTransaction
    <2> QED
      BY <2>1, <2>2, <2>3, QuietKeeps
  <1>7. ASSUME NEW v \in Speeds, Cross(v) PROVE TInv'
    <2> DEFINE p == [id |-> head', uid |-> car.uid, mph |-> v]
    <2>1. /\ passCounter' = passCounter + 1 /\ head' = passCounter + 1 /\ on # None
          /\ Notify(car, p)
          /\ fastest' = IF wired /\ car.uid = on THEN [fastest EXCEPT ![on] = Larger(@, v)] ELSE fastest
          /\ mixed' = IF quiet /\ car.uid # None THEN mixed \cup {car.uid} ELSE mixed
          /\ UNCHANGED <<on, announced, quiet, car, wired, db, before, arrivals, banked, lost>>
      BY <1>7 DEF Cross, portal
    <2>2. IInv'
      BY <1>0, <1>7, Telling
    <2>3. CarFits(car, mixed') /\ mixed \subseteq mixed' /\ p.uid \in Uids \cup {None} /\ p.mph \in Nat
      BY <1>0, <2>1, <2>2 DEF IInv, StoreOK, CarFits
    <2>4. p.uid = car.uid /\ p.id = passCounter + 1 /\ p.mph = v
      BY <2>1
    <2>5. passCounter \in Nat /\ lastPassId \in 0 .. passCounter /\ p.id # 0 /\ p.id # lastPassId /\ v \in Nat
      BY <1>0, <2>3, <2>4 DEF ActorsOK
    <2> HIDE DEF p
    <2>6. /\ wired => lastUid' = car.uid /\ lastPassId' = passCounter + 1
          /\ ~wired => lastPassId' = lastPassId
          /\ InTransaction' => InTransaction
          /\ ~wired => writes' = <<>> /\ tx' = "none"
      BY <1>0, <2>1, <2>4, <2>5, Notified
    <2>7. ActorsOK'
      <3>1. passCounter' \in Nat /\ lastPassId' \in 0 .. passCounter' /\ head' \in 0 .. passCounter'
        BY <2>1, <2>5, <2>6
      <3>2. wired' => head' \in {0, lastPassId'}
        BY <2>1, <2>6
      <3> QED
        BY <1>0, <2>1, <2>6, <3>1, <3>2 DEF ActorsOK
    <2>8. HistoryOK'
      BY <1>0, <1>a, <2>1, <2>5 DEF HistoryOK, Larger
    <2>9. ASSUME wired, NEW u \in Uids
          PROVE  LET one == IF car.uid = u /\ car.uid # car.uid THEN 1 ELSE 0
                     best == IF p.id # 0 /\ p.id # lastPassId /\ p.uid = u THEN Larger(fastest[u], p.mph) ELSE fastest[u]
                 IN  /\ arrivals[u] + one <= arrivals'[u]
                     /\ u \notin mixed' => arrivals'[u] = arrivals[u] + one /\ fastest'[u] = best
      <3>1. CASE car.uid = u /\ u \notin mixed'
        <4>1. ~quiet /\ car.uid = on
          BY <1>0, <2>1, <3>1 DEF StoreOK
        <4>2. fastest'[u] = Larger(fastest[u], v)
          BY <1>0, <2>1, <2>9, <3>1, <4>1 DEF HistoryOK
        <4> QED
          BY <1>a, <2>1, <2>4, <2>5, <3>1, <4>2
      <3>2. CASE car.uid # u
        <4>1. fastest'[u] = fastest[u]
          BY <1>0, <2>1, <3>2 DEF HistoryOK
        <4> QED
          BY <1>a, <2>1, <2>4, <3>2, <4>1
      <3>3. CASE u \in mixed'
        BY <1>a, <2>1, <3>3
      <3> QED
        BY <3>1, <3>2, <3>3
    <2>10. ~wired => UNCHANGED <<arrivals, fastest>>
      BY <2>1
    <2> QED
      BY <2>1, <2>2, <2>3, <2>6, <2>7, <2>8, <2>9, <2>10, EventKeeps
  <1>8. ASSUME Connect PROVE TInv'
    <2>1. /\ ~connected
          /\ UNCHANGED <<announced, quiet, car, head, passCounter, wired, lastUid, lastPassId, garage, writes, db, before, tx,
                         arrivals, fastest, banked, lost, mixed>>
      BY <1>8 DEF Connect, store, bridge, mirror, disk, truth
    <2>2. IInv'
      BY <1>0, <1>8, Telling
    <2>3. ~announced
      BY <1>0, <2>1 DEF ActorsOK, StoreOK
    <2>4. ActorsOK'
      BY <1>0, <2>1, <2>3 DEF ActorsOK, InTransaction
    <2> QED
      BY <2>1, <2>2, <2>4, QuietKeeps
  <1>9. ASSUME Disconnect PROVE TInv'
    <2> DEFINE p == [Seen EXCEPT !.id = 0]
    <2>1. /\ Notify(NoCar, p) /\ car' = NoCar /\ announced' = FALSE /\ quiet' = FALSE /\ on' = None /\ head' = 0
          /\ UNCHANGED <<mixed, passCounter, wired, db, before, arrivals, fastest, banked, lost>>
      BY <1>9 DEF Disconnect, truth
    <2>2. IInv'
      BY <1>0, <1>9, Telling
    <2>3. CarFits(NoCar, mixed')
      BY <2>1, <2>2 DEF IInv, StoreOK
    <2>4. p.id = 0 /\ p.uid = None /\ p.mph = 0
      BY <1>s
    <2> HIDE DEF p
    <2>5. /\ wired => lastUid' = None
          /\ lastPassId' = lastPassId
          /\ InTransaction' => InTransaction
          /\ ~wired => writes' = <<>> /\ tx' = "none"
      BY <1>0, <1>n, <2>1, <2>4, Notified
    <2>6. ActorsOK'
      BY <1>0, <1>n, <2>1, <2>5 DEF ActorsOK
    <2>7. HistoryOK'
      BY <1>0, <2>1 DEF HistoryOK
    <2>8. ASSUME NEW u \in Uids
          PROVE  LET one == IF NoCar.uid = u /\ NoCar.uid # car.uid THEN 1 ELSE 0
                     best == IF p.id # 0 /\ p.id # lastPassId /\ p.uid = u THEN Larger(fastest[u], p.mph) ELSE fastest[u]
                 IN  /\ arrivals[u] + one <= arrivals'[u]
                     /\ u \notin mixed' => arrivals'[u] = arrivals[u] + one /\ fastest'[u] = best
      <3>1. NoCar.uid # u /\ p.uid # u
        BY <1>n, <2>4
      <3> QED
        BY <1>a, <2>1, <3>1
    <2> QED
      BY <2>1, <2>2, <2>3, <2>4, <2>5, <2>6, <2>7, <2>8, EventKeeps
  <1> QED
    BY <1>1, <1>3, <1>4, <1>5, <1>6, <1>7, <1>8, <1>9

\* The user: one more write, and no arrival.
LEMMA UserTrue ==
  ASSUME TInv
  PROVE  /\ \A u \in Uids, n \in Names \cup {None} : Rename(u, n) => TInv'
         /\ \A u \in Uids, lap \in Laps : Race(u, lap) => TInv'
  <1> USE Values, MirrorIs
  <1>0. IInv /\ ActorsOK /\ HistoryOK /\ MirrorFits(Mirror, mixed)
    BY DEF TInv, IInv, MirrorFits
  <1>1. ASSUME NEW g, NEW w \in Writes, WriteFits(w, mixed), w.op \in {"name", "result"},
               Follows(Mirror, g, w), MirrorBecomes(g), wired, IInv',
               \A u \in Uids : banked'[u] = Raced(u, banked[u], w), banked' \in [Uids -> Results],
               UNCHANGED <<announced, quiet, on, car, head, passCounter, wired, lastUid, lastPassId,
                           db, before, tx, arrivals, fastest, lost, mixed>>
        PROVE  TInv'
    <2>1. ActorsOK' /\ HistoryOK' /\ BeforeOK'
      BY <1>0, <1>1 DEF ActorsOK, HistoryOK, TInv, BeforeOK, InTransaction
    <2>2. ASSUME NEW u \in Uids PROVE CarOK(u)'
      <3>1. Told(u, Mirror, arrivals[u], fastest[u], banked[u], mixed) /\ arrivals[u] \in Nat
        BY <1>0, <1>1 DEF TInv, CarOK, HistoryOK
      <3>2. Told(u, g, arrivals[u] + Plus(u, w), Sped(u, fastest[u], w), Raced(u, banked[u], w), mixed)
        BY <1>0, <1>1, <3>1, ToldOn
      <3>3. arrivals[u] + Plus(u, w) = arrivals[u] /\ Sped(u, fastest[u], w) = fastest[u]
        BY <1>1, <3>1 DEF Plus, Counts, Sped
      <3>4. Told(u, g, arrivals[u], fastest[u], banked'[u], mixed)
        BY <1>1, <3>2, <3>3
      <3>5. g.writes = writes' /\ \A v \in Uids : RowIn(Mirror', v) = RowIn(g, v)
        BY <1>1 DEF MirrorBecomes, Mirror, RowIn, Known
      <3>6. Mirror'.writes = writes' /\ Held(u)' = Held(u)
        BY <1>1 DEF Held, Mirror
      <3>7. Told(u, Mirror, arrivals[u], fastest[u], banked[u], mixed)'
        BY <1>1, <3>4, <3>5, <3>6 DEF Told, RowIn, Known
      <3> QED
        BY <1>1, <3>7 DEF CarOK
    <2> QED
      BY <1>1, <2>1, <2>2 DEF TInv
  <1>2. ASSUME NEW u \in Uids, NEW n \in Names \cup {None}, Rename(u, n) PROVE TInv'
    <2> DEFINE g == Issue(Mirror, Put(Mirror, u, [RowOf(Mirror, u) EXCEPT !.name = n]), "name", u, n)
               w == [op |-> "name", uid |-> u, arg |-> n]
    <2>1. /\ MirrorBecomes(g) /\ wired /\ Known(Mirror, u)
          /\ UNCHANGED <<announced, quiet, on, car, head, passCounter, wired, lastUid, lastPassId,
                         db, before, tx, arrivals, fastest, banked, lost, mixed>>
      BY <1>2 DEF Rename, portal, store, bridge, disk, truth, Known
    <2>2. Follows(Mirror, g, w)
      BY <1>0, <2>1, Mirrored
    <2>3. w \in Writes /\ WriteFits(w, mixed) /\ w.op = "name"
      BY DEF Writes, WriteFits
    <2>4. \A v \in Uids : banked'[v] = Raced(v, banked[v], w)
      BY <2>1 DEF Raced
    <2>5. IInv'
      BY <1>0, <1>2, Elsewhere
    <2>6. banked' \in [Uids -> Results]
      BY <1>0, <2>1 DEF HistoryOK
    <2> HIDE DEF g, w
    <2> QED
      BY <1>1, <2>1, <2>2, <2>3, <2>4, <2>5, <2>6
  <1>3. ASSUME NEW u \in Uids, NEW lap \in Laps, Race(u, lap) PROVE TInv'
    <2> DEFINE g == Issue(Mirror, Mirror.cars, "result", u, lap)
               w == [op |-> "result", uid |-> u, arg |-> lap]
    <2>1. /\ MirrorBecomes(g) /\ wired
          /\ banked' = [banked EXCEPT ![u] = SaveResult(@, lap)]
          /\ UNCHANGED <<announced, quiet, on, car, head, passCounter, wired, lastUid, lastPassId,
                         db, before, tx, arrivals, fastest, lost, mixed>>
      BY <1>3 DEF Race, portal, store, bridge, disk
    <2>2. Follows(Mirror, g, w)
      BY <1>0, Mirrored
    <2>3. w \in Writes /\ WriteFits(w, mixed) /\ w.op = "result"
      BY DEF Writes, WriteFits
    <2>4. \A v \in Uids : banked'[v] = Raced(v, banked[v], w)
      BY <1>0, <2>1 DEF Raced, HistoryOK
    <2>5. IInv'
      BY <1>0, <1>3, Elsewhere
    <2>6. banked' \in [Uids -> Results]
      <3>1. banked[u] \in Results /\ SaveResult(banked[u], lap) \in Results
        BY <1>0 DEF HistoryOK, SaveResult, Results, Faster
      <3> QED
        BY <1>0, <2>1, <3>1 DEF HistoryOK
    <2> HIDE DEF g, w
    <2> QED
      BY <1>1, <2>1, <2>2, <2>3, <2>4, <2>5, <2>6
  <1> QED
    BY <1>2, <1>3

\* The oldest write is done, or rejected.
LEMMA SettleTrue ==
  ASSUME TInv, Settle
  PROVE  TInv'
  <1> DEFINE w == Head(writes)
  <1>0. IInv /\ ActorsOK /\ HistoryOK /\ BeforeOK /\ TableFits(db, mixed) /\ WritesFit(writes, mixed)
        /\ TableFits(before, mixed)
    BY DEF TInv, IInv
  <1>1. /\ writes # <<>> /\ writes' = Tail(writes)
        /\ UNCHANGED <<on, announced, quiet, car, head, passCounter, wired, lastUid, lastPassId, garage, before, tx,
                       arrivals, fastest, banked, mixed>>
        /\ \/ db' = Perform(db, w) /\ lost' = lost
           \/ lost' = lost \cup {w.uid} /\ db' = db
    BY DEF Settle, portal, store, bridge
  <1>2. writes \in Seq(Writes) /\ w \in Writes /\ WriteFits(w, mixed)
    BY <1>0, <1>1, SomeWrites
  <1> HIDE DEF w
  <1>w. wired
    BY <1>0, <1>1 DEF ActorsOK
  <1>3. IInv' /\ ActorsOK' /\ HistoryOK'
    <2>1. IInv'
      BY <1>0, Elsewhere
    <2> QED
      BY <1>0, <1>1, <1>w, <2>1 DEF ActorsOK, HistoryOK
  <1>4. ASSUME NEW u \in Uids, db' = Perform(db, w)
        PROVE  /\ Held(u)' = Does(u, Held(u), w)
               /\ Tally(db'.cars[u]) = Tally(db.cars[u]) + Plus(u, w)
               /\ Tally(db.cars[u]) \in Nat /\ Tally(db.cars[u]) <= Tally(db'.cars[u])
    <2>1. /\ db \in Tables /\ w.uid \in Uids
          /\ db.cars[u] \in Rows \cup {Absent} /\ Tally(db.cars[u]) \in Nat
      BY <1>0, <1>2, TableRows DEF TableFits, Writes
    <2>2. CASE w.op = "result"
      <3>1. /\ db'.cars = db.cars
            /\ db'.results = [db.results EXCEPT ![w.uid] = SaveResult(db.results[w.uid], w.arg)]
        BY <1>4, <2>1, <2>2 DEF Perform, Tables
      <3>2. db'.results[u] = IF w.uid = u THEN SaveResult(db.results[u], w.arg) ELSE db.results[u]
        BY <2>1, <3>1 DEF Tables
      <3>3. Plus(u, w) = 0
        BY <2>2 DEF Plus, Counts
      <3>4. Held(u)' = Does(u, Held(u), w)
        BY <2>2, <3>1, <3>2 DEF Held, Does
      <3> QED
        BY <2>1, <3>1, <3>3, <3>4
    <2>3. CASE w.op # "result"
      <3>1. /\ db'.results = db.results
            /\ db'.cars = [db.cars EXCEPT ![w.uid] = Upsert(db.cars[w.uid], w)]
        BY <1>4, <2>1, <2>3 DEF Perform, Tables
      <3>2. db'.cars[u] = IF w.uid = u THEN Upsert(db.cars[u], w) ELSE db.cars[u]
        BY <2>1, <3>1 DEF Tables
      <3>3. Held(u)' = Does(u, Held(u), w)
        BY <2>3, <3>1, <3>2 DEF Held, Does
      <3>4. Tally(db'.cars[u]) = Tally(db.cars[u]) + Plus(u, w)
        <4>1. w.uid = u => Tally(Upsert(db.cars[u], w)) = Tally(db.cars[u]) + (IF w.op = "detection" THEN 1 ELSE 0)
          BY <1>2, <2>1, <2>3, Upserted
        <4>2. w.uid = u => Plus(u, w) = IF w.op = "detection" THEN 1 ELSE 0
          BY DEF Plus, Counts
        <4>3. w.uid # u => Plus(u, w) = 0
          BY DEF Plus, Counts
        <4> QED
          BY <2>1, <3>2, <4>1, <4>2, <4>3
      <3>5. Plus(u, w) \in Nat
        BY DEF Plus
      <3> QED
        BY <2>1, <3>3, <3>4, <3>5
    <2> QED
      BY <2>2, <2>3
  <1>5. BeforeOK'
    <2> SUFFICES ASSUME InTransaction, NEW u \in Uids PROVE Tally(before.cars[u]) <= Tally(db'.cars[u])
      BY <1>1 DEF BeforeOK, InTransaction
    <2>1. Tally(before.cars[u]) <= Tally(db.cars[u]) /\ Tally(before.cars[u]) \in Nat
      BY <1>0, TableRows DEF BeforeOK
    <2>2. CASE db' = db
      BY <2>1, <2>2
    <2>3. CASE db' = Perform(db, w)
      <3>1. Tally(db'.cars[u]) \in Nat
        BY <1>3, TableRows DEF IInv
      <3> QED
        BY <1>4, <2>1, <2>3, <3>1
    <2> QED
      BY <1>1, <2>2, <2>3
  <1>6. ASSUME NEW u \in Uids PROVE CarOK(u)'
    <2>1. Told(u, Mirror, arrivals[u], fastest[u], banked[u], mixed) /\ arrivals[u] \in Nat
          /\ Tally(db.cars[u]) \in Nat /\ Mirror.writes = writes
      BY <1>0, <1>w, TableRows, MirrorIs DEF TInv, CarOK, HistoryOK
    <2>2. /\ Room(u, Tally(db.cars[u]), Tail(writes), arrivals[u])
          /\ Counts(u, w) => Room(u, Tally(db.cars[u]) + 1, Tail(writes), arrivals[u])
      BY <1>1, <1>2, <2>1, RoomFrom DEF Told, w
    <2>3. Room(u, Tally(db'.cars[u]), Tail(writes), arrivals[u])
      <3>1. CASE db' = db
        BY <2>2, <3>1
      <3>2. CASE db' = Perform(db, w)
        <4>1. Tally(db'.cars[u]) = Tally(db.cars[u]) + Plus(u, w)
          BY <1>4, <3>2
        <4>2. CASE Counts(u, w)
          BY <2>2, <4>1, <4>2 DEF Plus
        <4>3. CASE ~Counts(u, w)
          <5>1. Tally(db'.cars[u]) = Tally(db.cars[u])
            BY <2>1, <4>1, <4>3 DEF Plus
          <5> QED
            BY <2>2, <5>1
        <4> QED
          BY <4>2, <4>3
      <3> QED
        BY <1>1, <3>1, <3>2
    <2>4. ASSUME u \notin lost'
          PROVE  Leads(u, Held(u)', Tail(writes), [row |-> RowIn(Mirror, u), races |-> banked[u]])
      <3>1. Leads(u, Held(u), writes, [row |-> RowIn(Mirror, u), races |-> banked[u]])
        BY <1>1, <2>1, <2>4 DEF Told
      <3>2. Leads(u, Does(u, Held(u), w), Tail(writes), [row |-> RowIn(Mirror, u), races |-> banked[u]])
        BY <1>1, <1>2, <3>1, LeadsFrom DEF w
      <3>3. Held(u)' = Does(u, Held(u), w)
        <4>1. CASE db' = Perform(db, w)
          BY <1>4, <4>1
        <4>2. CASE lost' = lost \cup {w.uid} /\ db' = db
          <5>1. w.uid # u
            BY <2>4, <4>2
          <5> QED
            BY <4>2, <5>1 DEF Held, Does
        <4> QED
          BY <1>1, <4>1, <4>2
      <3> QED
        BY <3>2, <3>3
    <2>5. RowIn(Mirror, u)' = RowIn(Mirror, u) /\ Mirror'.writes = Tail(writes) /\ lost \subseteq lost'
      BY <1>1 DEF Mirror, RowIn, Known
    <2>6. Told(u, Mirror, arrivals[u], fastest[u], banked[u], mixed)'
      BY <1>1, <2>1, <2>3, <2>4, <2>5 DEF Told
    <2> QED
      BY <1>1, <1>w, <2>6 DEF CarOK
  <1> QED
    BY <1>3, <1>5, <1>6 DEF TInv

\* BEGIN, COMMIT, and ROLLBACK, which takes with it what it does.
LEMMA TransactionTrue ==
  ASSUME TInv, Begin \/ Commit \/ Rollback
  PROVE  TInv'
  <1>0. IInv /\ ActorsOK /\ HistoryOK /\ BeforeOK /\ WritesFit(writes, mixed)
        /\ TableFits(db, mixed) /\ TableFits(before, mixed)
    BY DEF TInv, IInv
  <1>1. UNCHANGED <<on, announced, quiet, car, head, passCounter, wired, lastUid, lastPassId, garage, writes,
                    arrivals, fastest, banked, mixed>>
    BY DEF Begin, Commit, Rollback, portal, store, bridge, mirror, truth
  <1>2. IInv'
    BY <1>0, Elsewhere
  <1>w. wired
    BY <1>0 DEF Begin, Commit, Rollback, ActorsOK, InTransaction
  <1>3. CASE Begin \/ Commit
    <2>1. UNCHANGED <<db, lost>> /\ (InTransaction' => before' = db)
      BY <1>3 DEF Begin, Commit, truth, InTransaction
    <2>2. ActorsOK' /\ HistoryOK'
      BY <1>0, <1>1, <1>w DEF ActorsOK, HistoryOK
    <2>3. BeforeOK'
      <3> SUFFICES ASSUME InTransaction', NEW u \in Uids PROVE Tally(before'.cars[u]) <= Tally(db'.cars[u])
        BY DEF BeforeOK
      <3>1. Tally(db.cars[u]) \in Nat
        BY <1>0, TableRows
      <3> QED
        BY <2>1, <3>1
    <2>4. ASSUME NEW u \in Uids PROVE CarOK(u)'
      <3>1. CarOK(u)
        BY DEF TInv
      <3> QED
        BY <1>1, <2>1, <3>1 DEF CarOK, Told, Stored, Held, Mirror, RowIn, Known
    <2> QED
      BY <1>2, <2>2, <2>3, <2>4 DEF TInv
  <1>4. CASE Rollback
    <2>1. /\ InTransaction /\ tx' = "none" /\ db' = before
          /\ lost' = lost \cup Undone(db, before)
      BY <1>4 DEF Rollback, InTransaction
    <2>2. ActorsOK' /\ HistoryOK' /\ BeforeOK'
      BY <1>0, <1>1, <1>w, <2>1 DEF ActorsOK, HistoryOK, BeforeOK, InTransaction
    <2>3. ASSUME NEW u \in Uids PROVE CarOK(u)'
      <3>1. Told(u, Mirror, arrivals[u], fastest[u], banked[u], mixed) /\ Mirror.writes = writes
        BY <1>0, <1>w, MirrorIs DEF TInv, CarOK
      <3>2. /\ Tally(before.cars[u]) \in Nat /\ Tally(db.cars[u]) \in Nat /\ arrivals[u] \in Nat
            /\ Tally(before.cars[u]) <= Tally(db.cars[u]) /\ writes \in Seq(Writes)
        BY <1>0, <2>1, TableRows, SomeWrites DEF BeforeOK, HistoryOK
      <3>3. Room(u, Tally(before.cars[u]), writes, arrivals[u])
        BY <3>1, <3>2, RoomIs DEF Told
      <3>4. u \notin lost' => Held(u)' = Held(u) /\ u \notin lost
        BY <2>1 DEF Undone, Held
      <3>5. RowIn(Mirror, u)' = RowIn(Mirror, u) /\ Mirror'.writes = writes
        BY <1>1 DEF Mirror, RowIn, Known
      <3>6. Told(u, Mirror, arrivals[u], fastest[u], banked[u], mixed)'
        BY <1>1, <2>1, <3>1, <3>3, <3>4, <3>5 DEF Told
      <3> QED
        BY <1>1, <1>w, <3>6 DEF CarOK
    <2> QED
      BY <1>2, <2>2, <2>3 DEF TInv
  <1> QED
    BY <1>3, <1>4

\* A start: the mirror shows what the table holds, and the car that is there.
LEMMA WireTrue ==
  ASSUME TInv, Wire
  PROVE  TInv'
  <1> DEFINE g == [cars |-> GetCars(db), writes |-> <<>>]
             h == IF car.uid = None THEN g ELSE RecordDetection(g, car.uid, car.serial)
             new == [cars |-> garage', writes |-> writes']
  <1> USE Values
  <1>0. IInv /\ StoreOK /\ ActorsOK /\ HistoryOK /\ BeforeOK /\ TableFits(db, mixed) /\ CarFits(car, mixed)
    BY DEF TInv, IInv, StoreOK
  <1>1. /\ ~wired /\ wired' /\ MirrorBecomes(h)
        /\ arrivals' = IF car.uid = None THEN arrivals ELSE [arrivals EXCEPT ![car.uid] = @ + 1]
        /\ lastUid' = car.uid /\ lastPassId' = head
        /\ UNCHANGED <<on, announced, quiet, car, head, passCounter, db, before, tx, fastest, banked, lost, mixed>>
    BY DEF Wire, portal, store, disk
  <1>2. IInv'
    BY <1>0, Elsewhere
  <1>3. ActorsOK' /\ BeforeOK'
    <2>1. ActorsOK'
      BY <1>0, <1>1 DEF ActorsOK
    <2> QED
      BY <1>0, <1>1, <2>1 DEF BeforeOK, InTransaction
  <1>4. HistoryOK'
    <2>1. car.uid # None => car.uid \in Uids /\ arrivals[car.uid] + 1 \in Nat
      BY <1>0 DEF CarFits, HistoryOK
    <2> QED
      BY <1>0, <1>1, <2>1 DEF HistoryOK
  <1>5. MirrorFits(g, mixed)
    BY <1>0, Hydrating, EmptyFits DEF MirrorFits
  <1>6. ASSUME NEW u \in Uids PROVE Told(u, g, arrivals[u], fastest[u], banked[u], mixed)
    <2>1. Stored(u) /\ arrivals[u] \in Nat /\ Tally(db.cars[u]) \in Nat
      BY <1>0, <1>1, TableRows DEF TInv, CarOK, HistoryOK
    <2>2. RowIn(g, u) = db.cars[u]
      <3>1. [row |-> db.cars[u], races |-> db.results[u]] # Absent
        BY DEF Absent
      <3> QED
        BY <3>1 DEF RowIn, Known, GetCars
    <2>3. g.writes = <<>>
      OBVIOUS
    <2> HIDE DEF g
    <2>4. u \notin lost => Leads(u, Held(u), g.writes, [row |-> RowIn(g, u), races |-> banked[u]])
      BY <2>1, <2>2, <2>3, LeadsNowhere DEF Stored, Held
    <2>5. Room(u, Tally(db.cars[u]), g.writes, arrivals[u])
      BY <2>1, <2>3, RoomNone DEF Stored
    <2> QED
      BY <2>1, <2>2, <2>4, <2>5 DEF Told, Stored
  <1>7. h = new
    <2>1. h = [cars |-> h.cars, writes |-> h.writes]
      BY DEF RecordDetection, Issue
    <2> HIDE DEF h
    <2> QED
      BY <1>1, <2>1 DEF MirrorBecomes
  <1>8. ASSUME NEW u \in Uids PROVE Told(u, h, arrivals'[u], fastest[u], banked[u], mixed)
    <2>1. CASE car.uid = None
      <3>1. h = g /\ arrivals' = arrivals
        BY <1>1, <2>1
      <3> HIDE DEF g, h
      <3> QED
        BY <1>6, <3>1
    <2>2. CASE car.uid # None
      <3> DEFINE w == [op |-> "detection", uid |-> car.uid, arg |-> car.serial]
      <3>1. car.uid \in Uids /\ car.serial \in Uids \cup {None} /\ Fits(car.uid, car.serial, mixed)
        BY <1>0, <2>2 DEF CarFits
      <3>2. h = RecordDetection(g, car.uid, car.serial)
        BY <2>2
      <3> HIDE DEF g, h
      <3>3. Follows(g, h, w)
        BY <1>5, <3>1, <3>2, Mirrored
      <3>4. w \in Writes /\ WriteFits(w, mixed)
        BY <3>1 DEF Writes, WriteFits
      <3>5. Sped(u, fastest[u], w) = fastest[u] /\ Raced(u, banked[u], w) = banked[u]
            /\ Plus(u, w) = IF car.uid = u THEN 1 ELSE 0
        BY DEF Plus, Counts, Sped, Raced
      <3> HIDE DEF w
      <3>6. arrivals[u] \in Nat /\ arrivals'[u] = arrivals[u] + Plus(u, w)
        BY <1>0, <1>1, <2>2, <3>1, <3>5 DEF HistoryOK
      <3>7. Told(u, h, arrivals[u] + Plus(u, w), Sped(u, fastest[u], w), Raced(u, banked[u], w), mixed)
        BY <1>0, <1>5, <1>6, <3>3, <3>4, <3>6, ToldOn
      <3> QED
        BY <3>5, <3>6, <3>7
    <2> QED
      BY <2>1, <2>2
  <1> HIDE DEF g, h
  <1>9. ASSUME NEW u \in Uids PROVE CarOK(u)'
    <2>1. Told(u, new, arrivals'[u], fastest[u], banked[u], mixed)
      BY <1>7, <1>8
    <2>2. Mirror' = new /\ Held(u)' = Held(u)
      BY <1>1 DEF Mirror, Held
    <2> HIDE DEF new
    <2>3. Told(u, Mirror, arrivals[u], fastest[u], banked[u], mixed)'
      BY <1>1, <2>1, <2>2 DEF Told, RowIn, Known
    <2> QED
      BY <1>1, <2>3 DEF CarOK
  <1> QED
    BY <1>2, <1>3, <1>4, <1>9 DEF TInv

\* The end of the process: what waits is lost, and what a transaction did.
LEMMA CrashTrue ==
  ASSUME TInv, Crash
  PROVE  TInv'
  <1> USE Values
  <1>0. IInv /\ ActorsOK /\ HistoryOK /\ BeforeOK /\ WritesFit(writes, mixed)
        /\ TableFits(db, mixed) /\ TableFits(before, mixed)
    BY DEF TInv, IInv
  <1>1. /\ wired /\ ~wired' /\ lastPassId' = 0 /\ announced' = FALSE /\ quiet' = FALSE /\ on' = None
        /\ car' = NoCar /\ head' = 0 /\ writes' = <<>> /\ tx' = "none"
        /\ db' = IF InTransaction THEN before ELSE db
        /\ lost' = lost \cup {writes[i].uid : i \in DOMAIN writes} \cup Undone(db, db')
        /\ UNCHANGED <<passCounter, arrivals, fastest, banked, mixed>>
    BY DEF Crash, InTransaction
  <1>2. IInv'
    BY <1>0, Elsewhere
  <1>3. ActorsOK' /\ HistoryOK' /\ BeforeOK'
    <2>1. NoCar.uid = None
      BY DEF NoCar
    <2> QED
      BY <1>0, <1>1, <2>1 DEF ActorsOK, HistoryOK, BeforeOK, InTransaction
  <1>4. ASSUME NEW u \in Uids PROVE CarOK(u)'
    <2>1. /\ Told(u, Mirror, arrivals[u], fastest[u], banked[u], mixed) /\ Mirror.writes = writes
          /\ writes \in Seq(Writes) /\ arrivals[u] \in Nat
          /\ Tally(db.cars[u]) \in Nat /\ Tally(before.cars[u]) \in Nat
      BY <1>0, <1>1, TableRows, SomeWrites, MirrorIs DEF TInv, CarOK, HistoryOK
    <2>2. Tally(db.cars[u]) <= arrivals[u]
      BY <2>1, RoomIs DEF Told
    <2>3. Tally(db'.cars[u]) <= arrivals[u]
      <3>1. InTransaction => Tally(before.cars[u]) <= Tally(db.cars[u])
        BY <1>0 DEF BeforeOK
      <3> QED
        BY <1>1, <2>1, <2>2, <3>1
    <2>4. ASSUME u \notin lost'
          PROVE  /\ u \notin lost /\ db'.results[u] = banked[u]
                 /\ db'.cars[u] = RowIn(Mirror, u)
      <3>1. u \notin lost /\ (\A i \in 1 .. Len(writes) : writes[i].uid # u)
            /\ db'.cars[u] = db.cars[u] /\ db'.results[u] = db.results[u]
        BY <1>1, <2>1, <2>4 DEF Undone
      <3>2. Held(u) = [row |-> RowIn(Mirror, u), races |-> banked[u]]
        BY <2>1, <3>1, LeadsStill DEF Told
      <3>3. db.cars[u] = RowIn(Mirror, u) /\ db.results[u] = banked[u]
        BY <3>2 DEF Held
      <3> QED
        BY <3>1, <3>3
    <2>5. Stored(u)'
      BY <1>1, <2>1, <2>3, <2>4 DEF Stored, Told
    <2> QED
      BY <1>1, <2>5 DEF CarOK
  <1> QED
    BY <1>2, <1>3, <1>4 DEF TInv

LEMMA NextTInv == TInv /\ [Next]_vars => TInv'
  <1> SUFFICES ASSUME TInv, [Next]_vars PROVE TInv'
    OBVIOUS
  <1>1. CASE UNCHANGED vars
    <2>1. IInv'
      BY <1>1, Elsewhere DEF TInv
    <2>2. UNCHANGED <<on, announced, quiet, car, head, passCounter, wired, lastUid, lastPassId, garage, writes,
                      db, before, tx, arrivals, fastest, banked, lost, mixed>>
      BY <1>1 DEF vars, portal, store, bridge, mirror, disk, truth
    <2>3. ActorsOK'
      BY <2>2 DEF TInv, ActorsOK, InTransaction
    <2> QED
      BY <2>1, <2>2, <2>3, QuietKeeps
  <1>2. CASE TellCar \/ TellSerial \/ TellRemoved \/ RemoveUntold \/ Connect \/ Disconnect
    BY <1>2, TellingTrue
  <1>3. CASE \E u \in Uids : Place(u) \/ \E n \in Names \cup {None} : Rename(u, n)
    BY <1>3, TellingTrue, UserTrue
  <1>4. CASE \E v \in Speeds : Cross(v)
    BY <1>4, TellingTrue
  <1>5. CASE \E u \in Uids, lap \in Laps : Race(u, lap)
    BY <1>5, UserTrue
  <1>6. CASE Settle
    BY <1>6, SettleTrue
  <1>7. CASE Begin \/ Commit \/ Rollback
    BY <1>7, TransactionTrue
  <1>8. CASE Wire
    BY <1>8, WireTrue
  <1>9. CASE Crash
    BY <1>9, CrashTrue
  <1> QED
    BY <1>1, <1>2, <1>3, <1>4, <1>5, <1>6, <1>7, <1>8, <1>9 DEF Next

LEMMA TruthInvariant == Spec => []TInv
  BY InitTInv, NextTInv, PTL DEF Spec

(***************************************************************************)
(* When no write waits and no transaction of History's is open, the table   *)
(* holds what the garage shows and every race that was banked, but for the  *)
(* cars whose write was rejected, rolled back or died with the process      *)
(* (garageStore.ts, sqliteCarRepository.ts, sqliteRaceRepository.ts).       *)
(***************************************************************************)
THEOREM OnDisk == Spec => []MirrorOnDisk
  <1>1. TInv => MirrorOnDisk
    <2> SUFFICES ASSUME TInv, wired, writes = <<>>, NEW u \in Uids \ lost
                 PROVE  /\ IF garage[u] = Absent THEN db.cars[u] = Absent ELSE db.cars[u] = garage[u].row
                        /\ db.results[u] = banked[u]
      BY DEF MirrorOnDisk
    <2>1. Leads(u, Held(u), <<>>, [row |-> RowIn(Mirror, u), races |-> banked[u]])
      BY MirrorIs DEF TInv, CarOK, Told
    <2>2. Held(u) = [row |-> RowIn(Mirror, u), races |-> banked[u]]
      BY <2>1, LeadsNowhere
    <2>3. db.cars[u] = RowIn(Mirror, u) /\ db.results[u] = banked[u]
      BY <2>2 DEF Held
    <2> QED
      BY <2>3, MirrorIs DEF RowIn, Known
  <1> QED
    BY <1>1, TruthInvariant, PTL

(***************************************************************************)
(* A car has one detection for every time it was put on the portal or found *)
(* there by a start, and the speed of its fastest pass, across restarts,    *)
(* drops and repeated or reordered events; a removal that was not told or a *)
(* lost write is all that can upset it, and never adds a detection          *)
(* (initPersistence.ts: the garage half of wirePortalBridges).              *)
(***************************************************************************)
THEOREM TrueGarage == Spec => []GarageIsTrue
  <1>1. TInv => GarageIsTrue
    <2> SUFFICES ASSUME TInv, wired, NEW u \in Uids
                 PROVE  /\ RowOf(Mirror, u).detections <= arrivals[u]
                        /\ u \notin lost \cup mixed => /\ RowOf(Mirror, u).detections = arrivals[u]
                                                       /\ RowOf(Mirror, u).bestMph = fastest[u]
      BY DEF GarageIsTrue
    <2>1. Told(u, Mirror, arrivals[u], fastest[u], banked[u], mixed)
      BY DEF TInv, CarOK
    <2>2. RowOf(Mirror, u).detections = Tally(RowIn(Mirror, u)) /\ RowOf(Mirror, u).bestMph = Best(RowIn(Mirror, u))
      <3>1. /\ RowIn(Mirror, u) \in Rows \cup {Absent}
            /\ RowOf(Mirror, u) = IF RowIn(Mirror, u) = Absent THEN Blank ELSE RowIn(Mirror, u)
        BY RowedIn, MirrorIs DEF TInv, IInv
      <3> QED
        BY <3>1 DEF Tally, Best, Blank
    <2> QED
      BY <2>1, <2>2 DEF Told
  <1> QED
    BY <1>1, TruthInvariant, PTL
=============================================================================
