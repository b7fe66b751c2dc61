----------------------------- MODULE MpidSession -----------------------------
(***************************************************************************)
(* Telemetry of the newer firmware, from the portal's bytes to the app's    *)
(* events: the handshake of ble/mpidBle.ts, the packets and the receiver of *)
(* packages/protocol/src/mpid/session.ts.  Indications are cut anywhere;    *)
(* one can be lost, and the portal goes on sending for the session it was   *)
(* last given.                                                              *)
(*                                                                          *)
(* A session of the app is a number, which stands for its private key; the  *)
(* curve, the KDF and the cipher's keystream are external.  A CRC on the    *)
(* wire is what it was computed of, under the keystreams it was enciphered  *)
(* with: corruption is always detected and no CRC is taken for a preamble,  *)
(* where of the code's eight bits one value in 256 would do either.         *)
(***************************************************************************)
EXTENDS PortalMessages, FiniteSetsExt

CONSTANTS
  MaxSessions, MaxFrames,  \* bounds: handshakes, and frames
  Kinds,                   \* what the portal has to say
  Cuts,                    \* lengths of indications
  Keystream(_, _, _)       \* of a key and an IV, its i-th byte

ASSUME BoundsAssumption == {MaxSessions, MaxFrames} \subseteq 1 .. 255
ASSUME KindsAssumption == Kinds # {} /\ Kinds \subseteq {"carOn", "driveBy", "gates", "empty"}
ASSUME CutsAssumption == Cuts \subseteq Nat \ {0}

VARIABLES
  active,        \* blePortal's started, what isActive() says
  app,           \* app[s]: how far runMpidSession() is; "over" without its monitors
  rx,            \* rx[s]: buf, state and plen of its MpidSession
  keyed, count, \* the portal: the session it was given last, and its packets
  wire, sent,    \* bytes under way, and history: the frames of this connection
  total, clean,  \* history: bytes sent, and from which of them on none may be missed
  got            \* the events dispatched on this connection

portal == <<keyed, count, wire, sent, total>>
vars   == <<active, app, rx, portal, clean, got>>

Sessions == 1 .. MaxSessions
Monitored(s) == app[s] \in {"reading", "writing", "up"}

-----------------------------------------------------------------------------
(* session.ts, out: a packet.  The portal builds its own the same way.      *)

PREAMBLE == 126
MAX_PAYLOAD == 511
Salt(s) == Bytes(7 * s, 4)
PeerSalt == Bytes(1, 4)

\* What is on the wire: bytes, and CRCs.
Plain(b) == [byte |-> b, of |-> <<>>, veil |-> {}]
OnWire(bytes) == [i \in DOMAIN bytes |-> Plain(bytes[i])]
BytesOf(elements) == [i \in DOMAIN elements |-> elements[i].byte]

Crc8(elements) == [byte |-> None, of |-> elements, veil |-> {}]

\* AES-128-CTR: a byte, or a CRC's veil, with that of the keystream at its
\* place; its own inverse.
Aes128Ctr(key, iv, elements) ==
  [i \in DOMAIN elements |->
     IF elements[i].byte = None
     THEN [elements[i] EXCEPT !.veil = SymDiff(@, {<<key, iv, i>>})]
     ELSE [elements[i] EXCEPT !.byte = (Keystream(key, iv, i) - @) % 256]]

MakeIv(counter, saltA, saltB) == counter \o saltA \o saltB

ASSUME KeystreamAssumption ==
  \A s \in Sessions, k \in 1 .. MaxFrames, i \in 1 .. MAX_PAYLOAD + 1 :
    Keystream(s, MakeIv(Bytes(k, 4), PeerSalt, Salt(s)), i) \in Byte

\* payload.length <= MAX_PAYLOAD
EncryptPacket(key, counter, saltA, saltB, payload) ==
  LET plen   == IF payload = <<>> THEN 0 ELSE Len(payload) + 1
      header == OnWire(<<PREAMBLE>> \o Bytes(counter, 4) \o Bytes(plen, 2))
      body   == OnWire(payload)
      iv     == MakeIv(Bytes(counter, 4), saltA, saltB)
  IN  Append(header, Crc8(header)) \o
        (IF plen = 0 THEN <<>> ELSE Aes128Ctr(key, iv, Append(body, Crc8(body))))

-----------------------------------------------------------------------------
(* session.ts, in: the receiver.                                            *)

Ready == [state |-> "READY", buf |-> <<>>, plen |-> 0]
Nothing == [payload |-> FALSE]
Received(payload) == [payload |-> TRUE, bytes |-> payload]

\* Mutant: a body is believed whatever its CRC.
BodyUnchecked(plain) == Received(BytesOf(Front(plain)))

\* A body whose CRC is wrong is dropped.
Body(plain) == IF Crc8(Front(plain)) = Last(plain) THEN Received(BytesOf(Front(plain))) ELSE Nothing

\* Mutant: the salts in the order of what is sent.
DecryptedAsSent(s, buf) ==
  LET body == SubSeq(buf, 9, Len(buf))
  IN  IF app[s] = "reading" THEN body
      ELSE Aes128Ctr(s, MakeIv(BytesOf(SubSeq(buf, 2, 5)), Salt(s), PeerSalt), body)

Decrypted(s, buf) ==
  LET body == SubSeq(buf, 9, Len(buf))
  IN  IF app[s] = "reading" THEN body   \* no key yet
      ELSE Aes128Ctr(s, MakeIv(BytesOf(SubSeq(buf, 2, 5)), PeerSalt, Salt(s)), body)

\* The length a header states.
Plen(buf) == buf[6].byte * 256 + buf[7].byte

\* Mutant: a bad header is kept, and the receiver goes on filling it.
HeaderKept(buf) ==
  LET plen == Plen(buf)
  IN  IF Crc8(SubSeq(buf, 1, 7)) # buf[8]
      THEN [rx |-> [state |-> "GOT_HEADER", buf |-> buf, plen |-> plen], out |-> Nothing]
      ELSE IF plen = 0 THEN [rx |-> Ready, out |-> Received(<<>>)]
      ELSE [rx |-> [state |-> "GOT_HEADER", buf |-> buf, plen |-> plen], out |-> Nothing]

\* The eighth byte: a header whose CRC is wrong is dropped, with all its bytes.
Header(buf) ==
  LET plen == Plen(buf)
  IN  IF Crc8(SubSeq(buf, 1, 7)) # buf[8] THEN [rx |-> Ready, out |-> Nothing]
      ELSE IF plen = 0 THEN [rx |-> Ready, out |-> Received(<<>>)]
      ELSE [rx |-> [state |-> "GOT_HEADER", buf |-> buf, plen |-> plen], out |-> Nothing]

FeedByte(s, r, b) ==
  LET buf == Append(r.buf, b)
  IN  CASE r.state = "READY" ->
             [rx |-> IF b = Plain(PREAMBLE) THEN [state |-> "GOT_PREAMBLE", buf |-> <<b>>, plen |-> 0] ELSE Ready,
              out |-> Nothing]
        [] r.state = "GOT_PREAMBLE" /\ Len(buf) >= 8 -> Header(buf)
        [] r.state = "GOT_HEADER" /\ Len(buf) >= r.plen + 8 ->
             [rx |-> Ready, out |-> Body(Decrypted(s, buf))]
        [] OTHER -> [rx |-> [r EXCEPT !.buf = buf], out |-> Nothing]

\* The receiver after the bytes, and the payloads that came out.
Feed(s, bytes) ==
  LET fed[i \in 0 .. Len(bytes)] ==
        IF i = 0 THEN [rx |-> rx[s], out |-> <<>>]
        ELSE LET acc == fed[i - 1]
                 f   == FeedByte(s, acc.rx, bytes[i])
             IN  [rx |-> f.rx, out |-> IF f.out.payload THEN Append(acc.out, f.out.bytes) ELSE acc.out]
  IN  fed[Len(bytes)]

DecodeAndDispatch(payload) ==
  LET event == ParseMessage(payload)
  IN  FlattenSeq([i \in DOMAIN event |-> MpidToPortalEvents(event[i])])

-----------------------------------------------------------------------------
(* What the portal has to say, the k-th time; its data tells one time from  *)
(* another.                                                                 *)

Uid(k) == <<42, 126, 162, 241, 98, k>>

Says(kind, k) ==
  CASE kind = "carOn" ->
         [event |-> EncodeVarintField(1, CAR_ON_PORTAL) \o EncodeBytesField(2, EncodeBytesField(1, <<4>> \o Uid(k))),
          means |-> <<[kind |-> "carDetected", uid |-> Uid(k), mattelId |-> <<>>]>>]
    [] kind = "driveBy" ->
         [event |-> EncodeVarintField(1, CAR_DRIVE_BY) \o EncodeBytesField(3, <<21, k, 0, 0, 63>>),
          means |-> <<[kind |-> "speed", raw |-> Raw(<<k, 0, 0, 63>>)]>>]
    [] kind = "gates" ->
         [event |-> EncodeVarintField(1, CAR_DRIVE_BY) \o
                      EncodeBytesField(3, EncodeVarintField(3, 300) \o EncodeVarintField(5, 300 + k)),
          means |-> <<[kind |-> "speed", raw |-> [f32 |-> Zeros(4), gap |-> k]]>>]
    [] kind = "empty" -> [event |-> <<>>, means |-> <<>>]

Payload(kind, k) == IF kind = "empty" THEN <<>> ELSE EncodeBytesField(2, Says(kind, k).event)
Frame == [f \in Sessions \X Kinds \X (1 .. MaxFrames) |->
            EncryptPacket(f[1], f[3], PeerSalt, Salt(f[1]), Payload(f[2], f[3]))]
Packet(p) == Frame[<<p.session, p.kind, p.count>>]   \* of a packet that was sent
MaxFrame == Max({Len(Frame[f]) : f \in DOMAIN Frame})

-----------------------------------------------------------------------------
Init ==
  /\ active = FALSE
  /\ app = [s \in Sessions |-> "none"] /\ rx = [s \in Sessions |-> Ready]
  /\ keyed = 0 /\ count = 0 /\ wire = <<>> /\ sent = <<>> /\ total = 0 /\ clean = 0
  /\ got = <<>>

\* The connection is gone: only what monitorSubs holds is removed with it.
Stopped ==
  /\ active' = FALSE
  /\ wire' = <<>> /\ sent' = <<>> /\ total' = 0 /\ clean' = 0 /\ got' = <<>>

\* These sessions' monitors are removed.
Over(sessions) ==
  /\ app' = [s \in Sessions |-> IF s \in sessions THEN "over" ELSE app[s]]
  /\ rx' = [s \in Sessions |-> IF s \in sessions THEN Ready ELSE rx[s]]

Stop ==
  /\ active
  /\ Stopped
  /\ Over({s \in Sessions : app[s] = "up"})
  /\ UNCHANGED <<keyed, count>>

\* Connected again: runMpidSession() with a new MpidSession, monitors first.
RunMpidSession(s) ==
  /\ ~active /\ app[s] = "none" /\ \A t \in 1 .. s - 1 : app[t] # "none"
  /\ active' = TRUE
  /\ app' = [app EXCEPT ![s] = "reading"]
  /\ UNCHANGED <<rx, portal, clean, got>>

Latest(s) == \A t \in s + 1 .. MaxSessions : app[t] = "none"

\* The FACTORY token is there, and startSession() takes it.
StartSession(s) ==
  /\ active /\ Latest(s) /\ app[s] = "reading"
  /\ app' = [app EXCEPT ![s] = "writing"]
  /\ UNCHANGED <<active, rx, portal, clean, got>>

\* The portal takes the SESSION payload.
PortalAccepts(s) ==
  /\ active /\ Latest(s) /\ app[s] = "writing" /\ keyed # s
  /\ keyed' = s
  /\ clean' = IF wire = <<>> /\ rx[s] = Ready THEN total ELSE total + MaxFrame
  /\ UNCHANGED <<active, app, rx, count, wire, sent, total, got>>

\* writeWithResponse() resolves; after a stop the caller removes the monitors.
Established(s) ==
  /\ app[s] = "writing" /\ keyed >= s
  /\ IF active THEN app' = [app EXCEPT ![s] = "up"] /\ UNCHANGED rx ELSE Over({s})
  /\ UNCHANGED <<active, portal, clean, got>>

\* The token is bad, or the read or the write is rejected: the monitors are
\* removed, and an active transport stops ("locked").
HandshakeFails(s) ==
  /\ app[s] \in {"reading", "writing"}
  /\ Over({s} \cup {t \in Sessions : active /\ app[t] = "up"})
  /\ IF active THEN Stopped ELSE UNCHANGED <<active, wire, sent, total, clean, got>>
  /\ UNCHANGED <<keyed, count>>

PortalSends(kind) ==
  LET k == count + 1
      frame == Frame[<<keyed, kind, k>>]
  IN  /\ active /\ keyed > 0 /\ k <= MaxFrames
      /\ count' = k /\ wire' = wire \o frame
      /\ sent' = Append(sent, [session |-> keyed, kind |-> kind, count |-> k, from |-> total])
      /\ total' = total + Len(frame)
      /\ UNCHANGED <<active, app, rx, keyed, clean, got>>

\* onTxRx() of every session that still has its monitor.
OnTxRx(n) ==
  LET fed == [s \in Sessions |-> IF Monitored(s) THEN Feed(s, Slice(wire, 0, n)) ELSE [rx |-> rx[s], out |-> <<>>]]
      Events(s) == FlattenSeq([i \in DOMAIN fed[s].out |-> DecodeAndDispatch(fed[s].out[i])])
  IN  /\ active /\ wire # <<>>
      /\ wire' = Slice(wire, n, Len(wire))
      /\ rx' = [s \in Sessions |-> fed[s].rx]
      /\ got' = got \o FlattenSeq([s \in Sessions |-> Events(s)])
      /\ UNCHANGED <<active, app, keyed, count, sent, total, clean>>

\* An indication without its value.
Lost(n) ==
  /\ active /\ wire # <<>>
  /\ wire' = Slice(wire, n, Len(wire))
  /\ clean' = Max({clean, total - Len(wire') + MaxFrame})
  /\ UNCHANGED <<active, app, rx, keyed, count, sent, total, got>>

Next ==
  \/ Stop
  \/ \E s \in Sessions :
       RunMpidSession(s) \/ StartSession(s) \/ PortalAccepts(s) \/ Established(s) \/ HandshakeFails(s)
  \/ \E kind \in Kinds : PortalSends(kind)
  \/ \E n \in Cuts : OnTxRx(n) \/ Lost(n)

Spec == Init /\ [][Next]_vars

-----------------------------------------------------------------------------
(* Properties.                                                              *)

Means(p) == Says(p.kind, p.count).means
To(p) == p.from + Len(Packet(p))
Quiet(p) == Plain(PREAMBLE) \notin ToSet(Tail(Packet(p)))
Meant == FlattenSeq([k \in DOMAIN sent |-> Means(sent[k])])
Arrived == total - Len(wire)

\* The receiver never waits for more than the portal's largest packet, whatever
\* is lost: a length is taken from a header only with its CRC.
ReceiverIsBounded ==
  \A s \in Sessions :
    /\ rx[s].state = "READY" => rx[s] = Ready
    /\ rx[s].state = "GOT_PREAMBLE" => Len(rx[s].buf) < 8 /\ rx[s].buf[1].byte = PREAMBLE
    /\ rx[s].state = "GOT_HEADER" => Len(rx[s].buf) < rx[s].plen + 8 /\ rx[s].plen + 8 <= MaxFrame

\* Every event dispatched is one the portal meant, in its order and once, also
\* when bytes are missing, belong to an earlier session's key, or are heard by
\* the monitor of a handshake that is still to fail.
EventsAreTrue ==
  /\ ToSet(got) \subseteq ToSet(Meant)
  /\ \A i, j \in DOMAIN got : i < j =>
       SelectInSeq(Meant, LAMBDA e : e = got[i]) < SelectInSeq(Meant, LAMBDA e : e = got[j])

\* A packet that arrived whole, with the keys agreed, and began more than one
\* packet's length after bytes that were lost or were another session's.
Due(k) ==
  /\ active /\ sent[k].session = keyed /\ Latest(keyed) /\ Monitored(keyed)
  /\ sent[k].from >= clean /\ To(sent[k]) <= Arrived

\* Such packets give their events, if none before has a preamble's value in its
\* body: the receiver is never stuck in what it missed.
Resynchronises ==
  \A k \in DOMAIN sent :
    Due(k) /\ (\A j \in 1 .. k - 1 : Quiet(sent[j])) => ToSet(Means(sent[k])) \subseteq ToSet(got)

\* mpid/session.ts:2 promises "a resync-safe RX reassembler": with any bodies.
ResyncSafe == \A k \in DOMAIN sent : Due(k) => ToSet(Means(sent[k])) \subseteq ToSet(got)
=============================================================================
