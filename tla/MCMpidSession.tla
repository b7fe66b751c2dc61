---------------------------- MODULE MCMpidSession ----------------------------
(* MpidSession for TLC, and the codecs on inputs of their own: each is checked *)
(* against what it should give back, at the boundaries of its encoding.        *)
EXTENDS MpidSession

\* Keystreams that depend on the key, on every byte of the IV and on the place.
Mixed(seed, key, iv, i) ==
  LET mix[j \in 0 .. Len(iv)] == IF j = 0 THEN 131 * key + seed ELSE (mix[j - 1] * 31 + iv[j]) % 65521
  IN  ((mix[Len(iv)] * (2 * i + 5)) \div 16) % 256
AKeystream(key, iv, i)   == Mixed(0, key, iv, i)
ItsKeystream(key, iv, i) == Mixed(1, key, iv, i)

\* Base64 gives back what it was given, for any length modulo three, with or
\* without padding and white space.
ASSUME Base64RoundTrip ==
  \A bytes \in SeqOf({0, 1, 127, 254, 255}, 4) :
    LET chars == Base64FromBytes(bytes) IN
    /\ Len(chars) % 4 = 0
    /\ BytesFromBase64(chars) = bytes
    /\ BytesFromBase64(SelectSeq(chars, LAMBDA c : c # Pad)) = bytes
    /\ chars # <<>> => BytesFromBase64(<<Head(chars), Blank>> \o Tail(chars)) = bytes

\* A varint is read back, and the next one after it; data that ends early ends
\* the reading and not the app.
ASSUME VarintRoundTrip ==
  \A n, m \in {0, 1, 127, 128, 300, 16383} :
    LET bytes == EncodeUvarint(n) \o EncodeUvarint(m)
        r == ReadVarint(bytes, 1)
    IN  /\ AsInt([wire |-> 0, data |-> r.groups]) = n
        /\ AsInt([wire |-> 0, data |-> ReadVarint(bytes, r.next).groups]) = m
ASSUME MalformedIsPartial ==
  \A bytes \in SeqOf({2, 8, 18, 127, 128, 255}, 4) : Len(ParseFields(bytes)) <= Len(bytes)

\* mpid.test.ts: gate times are signed, sent with 64 bits.
ASSUME SignedGateTimes ==
  LET Time(groups) == AsS32([wire |-> 0, data |-> groups]) IN
  /\ Time(<<0, 51, 126, 127, 127, 127, 127, 127, 127, 1>>) = -26240
  /\ Time(<<127, 127, 127, 127, 127, 127, 127, 127, 127, 1>>) = -1
  /\ Time(<<127, 127, 127, 127, 7>>) = 2147483647
  /\ Time(<<0, 0, 0, 0, 8>>) = -2147483647 - 1

\* A command is read back by the reader, with its colour.
ASSUME CommandRoundTrip ==
  \A cmd \in {3, 7, 8, 9}, rgb \in {<<>>, <<255, 0, 128>>} :
    LET inner == ParseFields(First(ParseFields(BuildCommand(cmd, rgb)), 2).data)
    IN  AsInt(First(inner, 1)) = cmd /\ AsBytes(First(inner, 4)) = rgb

\* A car put down, taken off and passing, by either firmware, says the same.
Ndef(id) == <<209, 1, Len(MARKER) + Len(id) + 1, 85, 2>> \o MARKER \o id
ASSUME FirmwaresAgree ==
  LET tag == <<4>> \o Uid(1)
      Mpid(event) == DecodeAndDispatch(EncodeBytesField(2, event))
      On(car) == Mpid(EncodeVarintField(1, CAR_ON_PORTAL) \o EncodeBytesField(2, car))
  IN  /\ On(EncodeBytesField(1, tag))[1].uid = ParseCharacteristicValue("EVENT_2", tag).uid
      /\ On(EncodeBytesField(1, tag) \o EncodeBytesField(3, Ndef(<<65, 81>>)))[1].mattelId = <<65, 81>>
      /\ On(EncodeBytesField(1, Front(tag))) = <<>>
      /\ Mpid(EncodeVarintField(1, CAR_OFF_PORTAL) \o EncodeBytesField(2, EncodeBytesField(1, tag)))
           = <<ParseCharacteristicValue("EVENT_2", <<>>)>>
      /\ Mpid(Says("driveBy", 5).event) = <<ParseCharacteristicValue("EVENT_3", <<5, 0, 0, 63>>)>>
      /\ Mpid(<<>>) = <<>>
      /\ ParseCharacteristicValue("CONTROL", <<0, 254, 0, 254, 2>>).status = "carPresent"

\* A Mattel id's tail is its tag's uid, if it is long enough; copies of a casting
\* share their key.
ASSUME MattelIdLayout ==
  LET Id(uid) == Base64FromBytes(<<1, 0, 65, 174, 94, 91, 0, 0, 6, 0, 93, 19, 41, 151, 4>> \o uid)
  IN  /\ MattelIdMatchesUid(Id(Uid(1)), Uid(1)) = "same"
      /\ MattelIdMatchesUid(Id(Uid(1)), Uid(2)) = "different"
      /\ MattelIdMatchesUid(Id(<<>>), Uid(1)) = "indeterminate"
      /\ CastingKey(Id(Uid(1))) = CastingKey(Id(Uid(2)))
      /\ CastingKey(<<1, 2>>) = <<1, 2>> /\ CastingKey(<<>>) = <<>>
=============================================================================
