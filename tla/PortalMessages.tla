--------------------------- MODULE PortalMessages ---------------------------
(***************************************************************************)
(* What the portal's bytes mean: decode.ts for the older firmware, and      *)
(* mpid/protobuf.ts and mpid/mattelId.ts for the newer (packages/protocol). *)
(* Text is a sequence of character codes; a float is its four bytes, of     *)
(* which only being zero matters.                                           *)
(***************************************************************************)
EXTENDS Wire

None == -1

-----------------------------------------------------------------------------
(* decode.ts: one characteristic, one event.                                *)

ParseNfcUid(bytes) == Slice(bytes, 1, 7)

ParseControlStatus(bytes) ==
  CASE bytes = <<0, 254, 0, 254, 0>> -> "idle"
    [] bytes = <<0, 254, 0, 254, 2>> -> "carPresent"
    [] OTHER -> "transitional"

\* A float, or the time between the gates that stands for it; 0 for neither.
Raw(bytes) == [f32 |-> bytes, gap |-> 0]

Removed == [kind |-> "carRemoved"]

ParseCharacteristicValue(char, bytes) ==
  CASE char \in {"EVENT_1", "EVENT_2", "SERIAL_NUMBER"} /\ bytes = <<>> -> Removed
    [] char = "EVENT_2" /\ bytes # <<>> -> [kind |-> "carDetected", uid |-> ParseNfcUid(bytes)]
    [] char = "EVENT_3" /\ Len(bytes) >= 4 -> [kind |-> "speed", raw |-> Raw(Slice(bytes, 0, 4))]
    [] char = "EVENT_3" /\ Len(bytes) < 4 -> [kind |-> "throws"]
    [] char = "SERIAL_NUMBER" /\ bytes # <<>> -> [kind |-> "serial", serial |-> bytes]
    [] char = "CONTROL" -> [kind |-> "control", status |-> ParseControlStatus(bytes)]
    [] OTHER -> [kind |-> "unknown"]

-----------------------------------------------------------------------------
(* protobuf.ts, reading.  A varint is its groups of seven bits, lowest      *)
(* first, as numbers above 2^31 are beyond TLC's.                           *)

\* The groups from i on, and where they end: at a byte below 128, at the end of
\* the data (a missing byte reads as zero), or after eleven.
ReadVarint(bytes, i) ==
  LET Ends(j) == j > Len(bytes) \/ bytes[j] < 128 \/ j = i + 10
      last    == CHOOSE j \in i .. i + 10 : Ends(j) /\ \A k \in i .. j - 1 : ~Ends(k)
  IN  [groups |-> [k \in 1 .. last - i + 1 |->
                     IF i + k - 1 > Len(bytes) THEN 0 ELSE bytes[i + k - 1] % 128],
       next |-> last + 1]

Group(groups, k) == IF k <= Len(groups) THEN groups[k] ELSE 0

\* Number(v), of varints below 2^28.
AsInt(v) ==
  IF v.wire # 0 THEN 0
  ELSE Group(v.data, 1) + 128 * Group(v.data, 2) + 16384 * Group(v.data, 3) + 2097152 * Group(v.data, 4)

\* Mutant: the sign is lost.
AsS32Unsigned(v) == AsInt(v)

\* The lowest 32 bits, as a signed number.
AsS32(v) ==
  LET low31 == AsInt(v) + (Group(v.data, 5) % 8) * 268435456
  IN  IF v.wire = 0 /\ (Group(v.data, 5) \div 8) % 2 = 1 THEN (low31 - 2147483647) - 1
      ELSE IF v.wire = 0 THEN low31 ELSE 0

Missing == [wire |-> None, data |-> <<>>]

\* One field from i on: its number, its value, and where it ends; no wire type
\* but these four is known.
ReadField(bytes, i) ==
  LET tag  == ReadVarint(bytes, i)
      n    == AsInt([wire |-> 0, data |-> tag.groups])
      wire == n % 8
      v    == ReadVarint(bytes, tag.next)
      size == IF wire = 5 THEN 4 ELSE IF wire = 1 THEN 8 ELSE AsInt([wire |-> 0, data |-> v.groups])
      from == IF wire = 2 THEN v.next ELSE tag.next
  IN  IF wire = 0 THEN [field |-> n \div 8, value |-> [wire |-> 0, data |-> v.groups], next |-> v.next]
      ELSE IF wire \in {1, 2, 5}
      THEN [field |-> n \div 8, value |-> [wire |-> 2, data |-> Slice(bytes, from - 1, from - 1 + size)],
            next |-> from + size]
      ELSE [field |-> None, value |-> Missing, next |-> Len(bytes) + 1]

\* One field more, if there is one: a field takes at least one byte.
Advanced(bytes, acc) ==
  IF acc.next > Len(bytes) THEN acc
  ELSE LET f == ReadField(bytes, acc.next)
       IN  [fields |-> IF f.field = None THEN acc.fields ELSE Append(acc.fields, f), next |-> f.next]

\* Every field there is, in order.
ParseFields(bytes) ==
  LET read[k \in Nat] == IF k = 0 THEN [fields |-> <<>>, next |-> 1] ELSE Advanced(bytes, read[k - 1])
  IN  read[Len(bytes)].fields

First(fields, num) ==
  LET i == SelectInSeq(fields, LAMBDA f : f.field = num) IN IF i = 0 THEN Missing ELSE fields[i].value

IsBytes(v) == v.wire = 2
AsBytes(v) == IF IsBytes(v) THEN v.data ELSE <<>>
AsF32(v)   == IF IsBytes(v) /\ Len(v.data) = 4 THEN v.data ELSE Zeros(4)

-----------------------------------------------------------------------------
(* protobuf.ts, the messages: those of their fields that the app uses.      *)
(* What may be absent is a sequence of at most one.                         *)

CAR_ON_PORTAL  == 2
CAR_OFF_PORTAL == 3
CAR_DRIVE_BY   == 4

ParseCarInfo(bytes) ==
  LET f == ParseFields(bytes) IN [tagUid |-> AsBytes(First(f, 1)), carNdefData |-> AsBytes(First(f, 3))]

ParseSpeedMeasurement(bytes) ==
  LET f == ParseFields(bytes)
  IN  [speed |-> AsF32(First(f, 2)), tIr1In |-> AsS32(First(f, 3)), tIr2In |-> AsS32(First(f, 5))]

ParseEvent(bytes) ==
  LET f == ParseFields(bytes)
      car == First(f, 2)
      speed == First(f, 3)
  IN  [type |-> AsInt(First(f, 1)),
       carInfo |-> IF IsBytes(car) THEN <<ParseCarInfo(car.data)>> ELSE <<>>,
       speedMeasurement |-> IF IsBytes(speed) THEN <<ParseSpeedMeasurement(speed.data)>> ELSE <<>>]

\* The event of a message, if it has one: heartbeats and responses are logged.
ParseMessage(payload) ==
  LET event == First(ParseFields(payload), 2)
  IN  IF IsBytes(event) THEN <<ParseEvent(event.data)>> ELSE <<>>

\* decodeNdefRecord(): the id behind "pid.mattel/", if the record is a URI.
MARKER == <<112, 105, 100, 46, 109, 97, 116, 116, 101, 108, 47>>

DecodeNdefRecord(data) ==
  LET uri == Slice(data, 5, 4 + data[3])
      at  == {i \in 1 .. Len(uri) - Len(MARKER) + 1 : SubSeq(uri, i, i + Len(MARKER) - 1) = MARKER}
  IN  IF Len(data) < 10 \/ Slice(data, 3, 3 + data[2]) # <<85>> \/ at = {} THEN <<>>
      ELSE Slice(uri, (CHOOSE i \in at : \A j \in at : i <= j) - 1 + Len(MARKER), Len(uri))

\* The portal's own speed, or one from the time between its two gates.
SpeedOf(sm) ==
  LET gap == IF sm.tIr1In < sm.tIr2In THEN sm.tIr2In - sm.tIr1In ELSE sm.tIr1In - sm.tIr2In
  IN  IF sm.speed \notin {Zeros(4), <<0, 0, 0, 128>>} THEN Raw(sm.speed)
      ELSE [f32 |-> Zeros(4), gap |-> gap]

Detected(carInfo) ==
  [kind |-> "carDetected", uid |-> ParseNfcUid(carInfo.tagUid),
   mattelId |-> IF carInfo.carNdefData = <<>> THEN <<>> ELSE DecodeNdefRecord(carInfo.carNdefData)]

MpidToPortalEvents(ev) ==
  LET cars == {i \in DOMAIN ev.carInfo : Len(ev.carInfo[i].tagUid) >= 7}
      Speed(sm) == [kind |-> "speed", raw |-> SpeedOf(sm)]
  IN  (IF ev.type = CAR_OFF_PORTAL THEN <<Removed>> ELSE [i \in cars |-> Detected(ev.carInfo[i])])
        \o [i \in DOMAIN ev.speedMeasurement |-> Speed(ev.speedMeasurement[i])]

-----------------------------------------------------------------------------
(* protobuf.ts, writing.                                                    *)

\* Groups of seven bits; n is below 2^14.
EncodeUvarint(n) == IF n < 128 THEN <<n>> ELSE <<128 + (n % 128), n \div 128>>
EncodeVarintField(field, n) == EncodeUvarint(8 * field) \o EncodeUvarint(n)
EncodeBytesField(field, value) == EncodeUvarint(8 * field + 2) \o EncodeUvarint(Len(value)) \o value

BuildCommand(cmdType, rgbColor) ==
  EncodeBytesField(2, EncodeVarintField(1, cmdType) \o
                        (IF rgbColor = <<>> THEN <<>> ELSE EncodeBytesField(4, rgbColor)))

-----------------------------------------------------------------------------
(* mattelId.ts, on the decoded bytes of the id.                             *)

NoId == [productId |-> <<>>, tagUid |-> <<>>]

DecodeMattelId(chars) ==
  LET bytes == BytesFromBase64(chars)
  IN  IF Len(bytes) < 6 THEN NoId
      ELSE [productId |-> Slice(bytes, 2, 6),
            tagUid |-> IF Len(bytes) >= 21 THEN Slice(bytes, 15, 21) ELSE <<>>]

MattelIdMatchesUid(chars, uid) ==
  LET embedded == DecodeMattelId(chars).tagUid
  IN  IF embedded = <<>> \/ uid = <<>> THEN "indeterminate"
      ELSE IF embedded = uid THEN "same" ELSE "different"

CastingKey(chars) ==
  IF chars = <<>> THEN <<>>
  ELSE IF DecodeMattelId(chars) = NoId THEN chars ELSE DecodeMattelId(chars).productId
=============================================================================
