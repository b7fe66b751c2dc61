----------------------------- MODULE PortalProofs -----------------------------
(***************************************************************************)
(* Proofs about the portal store's connection, on both of its sides.        *)
(*                                                                         *)
(* PortalHistory, which listens to it, implements SessionLog, for every     *)
(* number of connections and passes.  The heart of the argument is EpochOK: *)
(* among the openSession calls still under way, the one whose epoch is      *)
(* current is exactly the one that the live connection made.                *)
(*                                                                         *)
(* PortalController, which makes it, owns one transport, for any number of  *)
(* transports and queued requests.  SlotOK and WantedOK say who may hold    *)
(* the slot; HeardOK is why a transport that was replaced cannot be heard:  *)
(* from the moment replaceTransport counts the generation up no transport   *)
(* has the current one, and from createTransport on only the new one does.  *)
(***************************************************************************)
EXTENDS PortalHistory, PortalController, TLAPS

-----------------------------------------------------------------------------
(* The bridge.                                                              *)

Connected == connection = "connected"

\* Before the bridge is wired it has done nothing, and the connection that may
\* be up already has no session.
Unwired ==
  ~wired => /\ sessionId = 0 /\ starting = {} /\ answers = {} /\ ending = {} /\ adding = {}
            /\ Connected => era \notin opened

\* Between store updates the bridge has seen what the store holds.
Synced == wired => lastConnection = connection /\ head \in {0, lastPassId}

BoundOK ==
  /\ Connected => era # 0
  /\ sessionId # 0 => Connected /\ sessionId = era

EpochOK ==
  \A s \in starting \cup answers :
    /\ s.epoch <= epoch
    /\ s.epoch = epoch <=> Connected /\ s.era = era

\* A connection asks for one session.
OneStart ==
  /\ \A s, t \in starting : s.era = t.era => s = t
  /\ \A s \in starting : s.era \notin opened

EndingOK == \A e \in ending : ~(Connected /\ e = era)

PassesOK == adding \subseteq crossed /\ rows \subseteq crossed

Inv ==
  /\ TypeOK /\ Unwired /\ Synced /\ BoundOK /\ EpochOK /\ OneStart
  /\ EndingOK /\ PassesOK /\ OpenSessionsAccounted

LEMMA InitInv == Init => Inv
<1>. SUFFICES ASSUME Init PROVE Inv
  OBVIOUS
<1>. USE DEF Init
<1>1. TypeOK
  <2>1. era \in 0 .. MaxConnections /\ passes \in 0 .. MaxPasses
    BY BoundsAssumption
  <2>2. head \in 0 .. passes /\ lastPassId \in 0 .. passes /\ sessionId \in 0 .. era /\ epoch \in Nat
    OBVIOUS
  <2>. QED  BY <2>1, <2>2 DEF TypeOK, Connections
<1>2. Unwired /\ Synced /\ BoundOK /\ EpochOK /\ OneStart
  BY DEF Unwired, Synced, BoundOK, EpochOK, OneStart, Connected
<1>3. EndingOK /\ PassesOK /\ OpenSessionsAccounted
  BY DEF EndingOK, PassesOK, OpenSessionsAccounted
<1>. QED  BY <1>1, <1>2, <1>3 DEF Inv

-----------------------------------------------------------------------------
(* Steps of the repository: the portal and the bridge stay as they are.     *)

LEMMA StartInv ==
  ASSUME Inv, NEW s \in starting, StartSettles(s)
  PROVE  Inv'
<1>. USE DEF Inv
<1>1. UNCHANGED <<portal, bridge, ending, adding, clearing, ended, rows, forsaken>>
      /\ starting' = starting \ {s}
  BY DEF StartSettles
<1>2. s \in Starts /\ s.era \in Eras
  BY DEF TypeOK, Starts
<1>3. \/ /\ opened' = opened \cup {s.era} /\ sessions' = sessions \cup {s.era}
         /\ answers' = answers \cup {s}
      \/ UNCHANGED <<opened, sessions, answers>>
  BY DEF StartSettles
<1>4. TypeOK'
  BY <1>1, <1>2, <1>3 DEF TypeOK, portal, bridge, Eras, Starts
<1>5. Unwired' /\ Synced' /\ BoundOK' /\ EndingOK' /\ PassesOK'
  BY <1>1, <1>3 DEF Unwired, Synced, BoundOK, EndingOK, PassesOK, Connected, portal, bridge
<1>6. EpochOK' /\ OneStart'
  BY <1>1, <1>2, <1>3 DEF EpochOK, OneStart, Connected, portal, bridge
<1>7. OpenSessionsAccounted'
  BY <1>1, <1>2, <1>3 DEF OpenSessionsAccounted, portal, bridge
<1>. QED  BY <1>4, <1>5, <1>6, <1>7

LEMMA AnswerInv ==
  ASSUME Inv, NEW s \in answers, AnswerDelivered(s)
  PROVE  Inv'
<1>. USE DEF Inv
<1>1. UNCHANGED <<portal, wired, lastConnection, lastPassId, epoch, starting, adding, clearing, tables, forsaken>>
      /\ answers' = answers \ {s}
  BY DEF AnswerDelivered
<1>2. s \in Starts /\ s.era \in Eras
  BY DEF TypeOK, Starts
<1>3. \/ s.epoch = epoch /\ sessionId' = s.era /\ UNCHANGED ending
      \/ s.epoch # epoch /\ ending' = ending \cup {s.era} /\ UNCHANGED sessionId
  BY DEF AnswerDelivered
<1>4. TypeOK'
  <2>1. Eras' = Eras /\ Starts' = Starts
    BY <1>1 DEF portal, Eras, Starts
  <2>2. s.era \in 0 .. era /\ era' = era
    BY <1>1, <1>2 DEF TypeOK, portal, Eras
  <2>3. sessionId' \in 0 .. era'
    BY <1>3, <2>2 DEF TypeOK
  <2>4. ending' \subseteq Eras'
    BY <1>2, <1>3, <2>1 DEF TypeOK
  <2>. QED  BY <1>1, <2>1, <2>3, <2>4 DEF TypeOK, portal, tables
<1>5. wired
  BY DEF Unwired
<1>6. Unwired' /\ Synced' /\ PassesOK' /\ OneStart'
  BY <1>1, <1>5 DEF Unwired, Synced, PassesOK, OneStart, Connected, portal, tables
<1>7. EpochOK' /\ BoundOK' /\ EndingOK'
  BY <1>1, <1>2, <1>3 DEF EpochOK, BoundOK, EndingOK, Connected, portal
<1>8. OpenSessionsAccounted'
  BY <1>1, <1>2, <1>3 DEF OpenSessionsAccounted, EpochOK, BoundOK, Connected, portal, tables
<1>. QED  BY <1>4, <1>6, <1>7, <1>8

LEMMA EndInv ==
  ASSUME Inv, NEW e \in ending, EndSettles(e)
  PROVE  Inv'
<1>. USE DEF Inv
<1>1. UNCHANGED <<portal, bridge, starting, answers, adding, clearing, opened, sessions, rows>>
      /\ ending' = ending \ {e}
  BY DEF EndSettles
<1>2. \/ ended' = ended \cup ({e} \cap sessions) /\ UNCHANGED forsaken
      \/ forsaken' = forsaken \cup {e} /\ UNCHANGED ended
  BY DEF EndSettles
<1>3. TypeOK'
  BY <1>1, <1>2 DEF TypeOK, portal, bridge, Eras, Starts
<1>4. Unwired' /\ Synced' /\ BoundOK' /\ EpochOK' /\ OneStart' /\ EndingOK' /\ PassesOK'
  BY <1>1, <1>2 DEF Unwired, Synced, BoundOK, EpochOK, OneStart, EndingOK, PassesOK, Connected,
     portal, bridge
<1>5. OpenSessionsAccounted'
  BY <1>1, <1>2 DEF OpenSessionsAccounted, portal, bridge
<1>. QED  BY <1>3, <1>4, <1>5

LEMMA AddInv ==
  ASSUME Inv, NEW a \in adding, AddSettles(a)
  PROVE  Inv'
<1>. USE DEF Inv
<1>1. UNCHANGED <<portal, bridge, starting, answers, ending, clearing, opened, sessions, ended, forsaken>>
      /\ adding' = adding \ {a}
  BY DEF AddSettles
<1>2. (a[2] \in sessions /\ rows' = rows \cup {a}) \/ UNCHANGED rows
  BY DEF AddSettles
<1>3. TypeOK'
  BY <1>1, <1>2 DEF TypeOK, portal, bridge, Eras, Starts
<1>4. Unwired' /\ Synced' /\ BoundOK' /\ EpochOK' /\ OneStart' /\ EndingOK' /\ PassesOK'
  BY <1>1, <1>2 DEF Unwired, Synced, BoundOK, EpochOK, OneStart, EndingOK, PassesOK, Connected,
     portal, bridge
<1>5. OpenSessionsAccounted'
  BY <1>1 DEF OpenSessionsAccounted, portal, bridge
<1>. QED  BY <1>3, <1>4, <1>5

LEMMA ClearInv ==
  ASSUME Inv, AskClear \/ ClearSettles
  PROVE  Inv'
<1>. USE DEF Inv
<1>1. UNCHANGED <<portal, bridge, starting, answers, ending, adding, opened, forsaken>>
      /\ clearing' \in BOOLEAN
  BY DEF AskClear, ClearSettles, tables
<1>2. (sessions' = {} /\ ended' = {} /\ rows' = {}) \/ UNCHANGED <<sessions, ended, rows>>
  BY DEF AskClear, ClearSettles, tables
<1>3. TypeOK'
  BY <1>1, <1>2 DEF TypeOK, portal, bridge, Eras, Starts
<1>4. Unwired' /\ Synced' /\ BoundOK' /\ EpochOK' /\ OneStart' /\ EndingOK' /\ PassesOK'
  BY <1>1, <1>2 DEF Unwired, Synced, BoundOK, EpochOK, OneStart, EndingOK, PassesOK, Connected,
     portal, bridge
<1>5. OpenSessionsAccounted'
  BY <1>1, <1>2 DEF OpenSessionsAccounted, portal, bridge
<1>. QED  BY <1>3, <1>4, <1>5

-----------------------------------------------------------------------------
(* Steps of the store, of the application's start and of its end.           *)

\* Connections and passes only become more.
LEMMA Growth ==
  ASSUME TypeOK, era' \in Nat, era <= era', passes' \in Nat, passes <= passes'
  PROVE  /\ Eras \subseteq Eras' /\ Starts \subseteq Starts'
         /\ (1 .. passes) \X Eras \subseteq (1 .. passes') \X Eras'
         /\ (1 .. passes) \X sessions \subseteq (1 .. passes') \X sessions
         /\ 0 .. passes \subseteq 0 .. passes' /\ 0 .. era \subseteq 0 .. era'
<1>1. Eras \subseteq Eras' /\ 0 .. era \subseteq 0 .. era'
  BY DEF TypeOK, Eras
<1>2. 1 .. passes \subseteq 1 .. passes' /\ 0 .. passes \subseteq 0 .. passes'
  BY DEF TypeOK
<1>. QED  BY <1>1, <1>2 DEF Starts

\* What the tables hold stays well typed when the portal moves on.
LEMMA TablesGrow ==
  ASSUME TypeOK, UNCHANGED tables, UNCHANGED forsaken,
         era' \in Nat, era <= era', passes' \in Nat, passes <= passes'
  PROVE  /\ opened' \subseteq Eras' /\ sessions' \subseteq opened'
         /\ ended' \subseteq sessions' /\ forsaken' \subseteq Eras'
         /\ rows' \subseteq (1 .. passes') \X sessions'
BY Growth DEF TypeOK, tables

\* A store update before the bridge is wired.
LEMMA UnseenInv ==
  ASSUME Inv, ~wired, UNCHANGED <<bridge, calls, tables, forsaken>>,
         connection' \in Connections, head' \in 0 .. passes',
         era' \in 0 .. MaxConnections, passes' \in 0 .. MaxPasses, passes <= passes',
         crossed \subseteq crossed', crossed' \subseteq (1 .. passes') \X Eras',
         \/ era' = era /\ (Connected' => Connected)
         \/ era' = era + 1
  PROVE  Inv'
<1>. USE DEF Inv
<1>1. era' \in Nat /\ era <= era' /\ passes' \in Nat
  BY BoundsAssumption DEF TypeOK
<1>2. TypeOK'
  BY <1>1, Growth, TablesGrow DEF TypeOK, bridge, calls
<1>3. sessionId = 0 /\ starting = {} /\ answers = {} /\ ending = {} /\ adding = {}
  BY DEF Unwired
<1>4. Unwired'
  BY <1>1, <1>3 DEF Unwired, Connected, TypeOK, Eras, bridge, calls, tables
<1>5. Synced' /\ BoundOK' /\ EpochOK' /\ OneStart' /\ EndingOK'
  <2>1. Connected' => era' # 0
    BY <1>1 DEF BoundOK, TypeOK
  <2>. QED  BY <1>3, <2>1 DEF Synced, BoundOK, EpochOK, OneStart, EndingOK, bridge, calls
<1>6. PassesOK' /\ OpenSessionsAccounted'
  BY <1>3 DEF PassesOK, OpenSessionsAccounted, TypeOK, Eras, bridge, calls, tables
<1>. QED  BY <1>2, <1>4, <1>5, <1>6

\* A change of the connection that the bridge sees.
LEMMA SeenConnectionInv ==
  ASSUME Inv, wired, NEW c \in Connections, SetConnection(c)
  PROVE  Inv'
<1>. USE DEF Inv
<1>1. /\ connection' = c /\ head' = (IF c = "disconnected" THEN 0 ELSE head)
      /\ UNCHANGED <<passes, crossed, tables, forsaken>>
      /\ Observe(c, head')
      /\ lastConnection = connection
  BY DEF SetConnection, Notify, Synced
<1>2. /\ lastConnection' = c
      /\ UNCHANGED <<wired, answers, clearing, adding, lastPassId>>
  BY <1>1 DEF Observe, Synced
<1>3. head' \in {0, lastPassId'}
  BY <1>1, <1>2 DEF Synced
<1>4. CASE c = "connected" /\ ~Connected
  <2>1. /\ era' = era + 1 /\ era' \in 0 .. MaxConnections
        /\ epoch' = epoch + 1
        /\ starting' = starting \cup {[epoch |-> epoch', era |-> era']}
        /\ UNCHANGED <<sessionId, ending>>
    BY <1>1, <1>4, BoundsAssumption DEF SetConnection, Observe, Opens, Closes, Connected, TypeOK
  <2>2. sessionId = 0 /\ Connected'
    BY <1>1, <1>4 DEF BoundOK, Connected
  <2>3. era' \in Nat /\ era <= era' /\ passes' = passes /\ passes \in Nat /\ epoch \in Nat
    BY <1>1, <2>1 DEF TypeOK
  <2>4. TypeOK'
    <3>1. starting' \subseteq Starts'
      <4>1. era' \in Eras'
        BY <2>1, <2>3 DEF Eras, TypeOK
      <4>. QED  BY <2>1, <2>3, <4>1, Growth DEF TypeOK, Starts
    <3>. QED
      BY <1>1, <1>2, <2>1, <2>2, <2>3, <3>1, Growth, TablesGrow DEF TypeOK
  <2>5. \A s \in starting \cup answers : s.epoch <= epoch' /\ s.epoch # epoch' /\ s.era # era'
    BY <2>1, <2>3 DEF EpochOK, TypeOK, Starts, Eras
  <2>6. era' \notin opened /\ era' \notin ending
    BY <2>1, <2>3 DEF TypeOK, Eras
  <2>7. EpochOK' /\ OneStart'
    <3>1. \A s \in starting' \cup answers' :
            s \in starting \cup answers \/ (s.epoch = epoch' /\ s.era = era')
      BY <1>2, <2>1
    <3>2. EpochOK'
      BY <2>1, <2>2, <2>3, <2>5, <3>1 DEF EpochOK
    <3>3. OneStart'
      BY <1>1, <2>1, <2>5, <2>6 DEF OneStart, tables
    <3>. QED  BY <3>2, <3>3
  <2>8. Unwired' /\ Synced' /\ BoundOK' /\ EndingOK' /\ PassesOK'
    <3>1. Unwired' /\ Synced' /\ PassesOK'
      BY <1>1, <1>2, <1>3 DEF Unwired, Synced, PassesOK, tables
    <3>2. BoundOK' /\ EndingOK'
      BY <2>1, <2>2, <2>3, <2>6 DEF BoundOK, EndingOK, TypeOK
    <3>. QED  BY <3>1, <3>2
  <2>9. OpenSessionsAccounted'
    BY <1>1, <1>2, <1>4, <2>1 DEF OpenSessionsAccounted, Connected, tables
  <2>. QED  BY <2>4, <2>7, <2>8, <2>9
<1>5. CASE c # "connected" /\ Connected
  <2>1. /\ era' = era /\ epoch' = epoch + 1 /\ starting' = starting /\ sessionId' = 0
        /\ ending' = (IF sessionId # 0 THEN ending \cup {sessionId} ELSE ending)
    BY <1>1, <1>5 DEF SetConnection, Observe, Opens, Closes, Connected
  <2>2. ~Connected' /\ sessionId \in {0, era}
    BY <1>1, <1>5 DEF BoundOK, Connected
  <2>3. Eras' = Eras /\ Starts' = Starts
    BY <2>1 DEF Eras, Starts
  <2>4. TypeOK'
    <3>1. ending' \subseteq Eras' /\ epoch' \in Nat /\ sessionId' \in 0 .. era'
      BY <2>1, <2>3 DEF TypeOK, Eras
    <3>. QED  BY <1>1, <1>2, <2>1, <2>3, <3>1 DEF TypeOK, tables
  <2>5. EpochOK' /\ OneStart'
    BY <1>1, <1>2, <2>1, <2>2 DEF EpochOK, OneStart, TypeOK, Starts, tables
  <2>6. Unwired' /\ Synced' /\ BoundOK' /\ EndingOK' /\ PassesOK'
    BY <1>1, <1>2, <1>3, <2>1, <2>2 DEF Unwired, Synced, BoundOK, EndingOK, PassesOK, tables
  <2>7. OpenSessionsAccounted'
    BY <1>1, <1>2, <2>1 DEF OpenSessionsAccounted, TypeOK, Eras, tables
  <2>. QED  BY <2>4, <2>5, <2>6, <2>7
<1>6. CASE c = "connected" <=> Connected
  <2>1. /\ UNCHANGED <<era, epoch, starting, sessionId, ending>>
        /\ Connected' <=> Connected
    BY <1>1, <1>6 DEF SetConnection, Observe, Opens, Closes, Connected
  <2>2. TypeOK'
    BY <1>1, <1>2, <2>1 DEF TypeOK, Eras, Starts, tables
  <2>3. EpochOK' /\ OneStart' /\ OpenSessionsAccounted'
    BY <1>1, <1>2, <2>1 DEF EpochOK, OneStart, OpenSessionsAccounted, Connected, tables
  <2>4. Unwired' /\ Synced' /\ BoundOK' /\ EndingOK' /\ PassesOK'
    BY <1>1, <1>2, <1>3, <2>1 DEF Unwired, Synced, BoundOK, EndingOK, PassesOK, tables
  <2>. QED  BY <2>2, <2>3, <2>4
<1>. QED  BY <1>4, <1>5, <1>6

\* A store update that leaves the connection, and may list a new pass.
LEMMA SeenPassInv ==
  ASSUME Inv, wired, Cross \/ OtherEvent
  PROVE  Inv'
<1>. USE DEF Inv
<1>1. /\ Observe(connection, head') /\ lastConnection = connection
      /\ UNCHANGED <<connection, era, tables, forsaken>>
  BY DEF Cross, OtherEvent, Notify, Synced, portal
<1>2. /\ lastConnection' = connection /\ head' \in {0, lastPassId'}
      /\ UNCHANGED <<wired, epoch, starting, sessionId, ending, answers, clearing>>
  BY <1>1 DEF Observe, Opens, Closes
<1>3. /\ head' \in 0 .. passes' /\ passes' \in 0 .. MaxPasses /\ passes <= passes'
      /\ crossed \subseteq crossed' /\ crossed' \subseteq (1 .. passes') \X Eras'
      /\ adding' \subseteq adding \cup crossed'
  <2>1. CASE Cross
    <3>1. passes' = passes + 1 /\ head' = passes' /\ passes' \in 1 .. MaxPasses /\ passes' \in Nat
      BY <2>1, BoundsAssumption DEF Cross, TypeOK
    <3>2. crossed' = (IF Connected THEN crossed \cup {<<passes', era>>} ELSE crossed)
      BY <2>1 DEF Cross, Connected
    <3>3. crossed \subseteq (1 .. passes') \X Eras'
      BY <1>1, <3>1, Growth DEF TypeOK
    <3>4. sessionId # 0 => Connected /\ sessionId = era /\ era \in Eras'
      BY <1>1 DEF BoundOK, TypeOK, Eras
    <3>5. adding' \subseteq adding \cup crossed'
      BY <1>1, <3>1, <3>2, <3>4 DEF Observe, Closes
    <3>6. Connected => era \in Eras'
      BY <1>1 DEF BoundOK, TypeOK, Eras
    <3>7. crossed' \subseteq (1 .. passes') \X Eras'
      BY <3>1, <3>2, <3>3, <3>6
    <3>. QED  BY <3>1, <3>2, <3>5, <3>7 DEF TypeOK
  <2>2. CASE OtherEvent
    BY <1>1, <2>2 DEF OtherEvent, Observe, Closes, Synced, TypeOK, Eras, portal
  <2>. QED  BY <2>1, <2>2
<1>4. era' \in Nat /\ passes' \in Nat /\ Eras' = Eras /\ Starts' = Starts
  BY <1>1, <1>3, BoundsAssumption DEF TypeOK, Eras, Starts
<1>5. TypeOK'
  <2>1. adding' \subseteq (1 .. passes') \X Eras'
    BY <1>1, <1>3, <1>4, Growth DEF TypeOK
  <2>2. lastPassId' \in 0 .. passes'
    BY <1>1, <1>3, <1>4, Growth DEF Observe, TypeOK
  <2>. QED  BY <1>1, <1>2, <1>3, <1>4, <2>1, <2>2, TablesGrow DEF TypeOK
<1>6. Unwired' /\ Synced' /\ BoundOK' /\ EndingOK' /\ PassesOK'
  BY <1>1, <1>2, <1>3 DEF Unwired, Synced, BoundOK, EndingOK, PassesOK, Connected, tables
<1>7. EpochOK' /\ OneStart' /\ OpenSessionsAccounted'
  BY <1>1, <1>2 DEF EpochOK, OneStart, OpenSessionsAccounted, Connected, tables
<1>. QED  BY <1>5, <1>6, <1>7

LEMMA StoreInv ==
  ASSUME Inv, Store
  PROVE  Inv'
<1>1. CASE wired
  BY <1>1, SeenConnectionInv, SeenPassInv DEF Store
<1>2. CASE ~wired
  <2>1. UNCHANGED <<bridge, calls, tables, forsaken>>
    BY <1>2 DEF Store, SetConnection, Cross, OtherEvent, Notify
  <2>2. /\ era \in Nat /\ passes \in Nat /\ (Connected => era \in Eras)
        /\ crossed \subseteq (1 .. passes) \X Eras
        /\ head \in 0 .. passes /\ connection \in Connections
        /\ era \in 0 .. MaxConnections /\ passes \in 0 .. MaxPasses
    BY BoundsAssumption DEF Inv, TypeOK, BoundOK, Eras
  <2>3. ASSUME NEW c \in Connections, SetConnection(c) PROVE Inv'
    <3>1. /\ connection' = c /\ head' \in 0 .. passes' /\ passes' = passes /\ crossed' = crossed
          /\ \/ era' = era /\ (Connected' => Connected)
             \/ era' = era + 1 /\ era < MaxConnections
      BY <2>2, <2>3 DEF SetConnection, Connected
    <3>2. era' \in 0 .. MaxConnections /\ era' \in Nat /\ era <= era'
      BY <2>2, <3>1, BoundsAssumption
    <3>3. crossed' \subseteq (1 .. passes') \X Eras'
      BY <2>2, <3>1, <3>2, Growth DEF Inv
    <3>. QED  BY <1>2, <2>1, <2>2, <3>1, <3>2, <3>3, UnseenInv
  <2>4. CASE Cross
    <3>1. /\ passes' = passes + 1 /\ head' = passes' /\ passes < MaxPasses
          /\ crossed' = (IF Connected THEN crossed \cup {<<passes', era>>} ELSE crossed)
          /\ UNCHANGED <<connection, era>>
      BY <2>4 DEF Cross, Connected
    <3>2. /\ passes' \in 0 .. MaxPasses /\ passes' \in Nat /\ passes <= passes' /\ head' \in 0 .. passes'
          /\ passes' \in 1 .. passes'
      BY <2>2, <3>1, BoundsAssumption
    <3>3. crossed' \subseteq (1 .. passes') \X Eras'
      <4>1. crossed \subseteq (1 .. passes') \X Eras'
        BY <2>2, <3>1, <3>2, Growth DEF Inv
      <4>2. Connected => era \in Eras'
        BY <2>2, <3>1 DEF Eras
      <4>. QED  BY <3>1, <3>2, <4>1, <4>2
    <3>. QED  BY <1>2, <2>1, <2>2, <3>1, <3>2, <3>3, UnseenInv DEF Connected
  <2>5. CASE OtherEvent
    BY <1>2, <2>1, <2>2, <2>5, UnseenInv DEF OtherEvent, portal, Connected, Eras
  <2>. QED  BY <2>3, <2>4, <2>5 DEF Store
<1>. QED  BY <1>1, <1>2

LEMMA WireInv ==
  ASSUME Inv, Wire
  PROVE  Inv'
<1>. USE DEF Inv
<1>1. /\ ~wired /\ wired' = TRUE /\ lastConnection' = connection /\ lastPassId' = head
      /\ UNCHANGED <<sessionId, answers, ending, adding, clearing, portal, tables, forsaken>>
  BY DEF Wire
<1>2. sessionId = 0 /\ starting = {} /\ answers = {} /\ ending = {} /\ adding = {}
  BY <1>1 DEF Unwired
<1>3. Eras' = Eras /\ Starts' = Starts
  BY <1>1 DEF portal, Eras, Starts
<1>4. CASE Connected
  <2>1. epoch' = epoch + 1 /\ starting' = {[epoch |-> epoch', era |-> era]}
    BY <1>2, <1>4 DEF Wire, Connected
  <2>2. era \in Eras /\ epoch' \in Nat /\ era \notin opened
    BY <1>1, <1>4, <2>1 DEF TypeOK, BoundOK, Eras, Unwired
  <2>3. TypeOK'
    <3>1. starting' \subseteq Starts'
      BY <1>3, <2>1, <2>2 DEF Starts
    <3>. QED  BY <1>1, <1>3, <2>2, <3>1 DEF TypeOK, portal, tables
  <2>4. EpochOK' /\ OneStart'
    BY <1>1, <1>2, <1>4, <2>1, <2>2 DEF EpochOK, OneStart, Connected, portal, tables
  <2>5. Unwired' /\ Synced' /\ BoundOK' /\ EndingOK' /\ PassesOK' /\ OpenSessionsAccounted'
    BY <1>1, <1>2 DEF Unwired, Synced, BoundOK, EndingOK, PassesOK, OpenSessionsAccounted,
       Connected, portal, tables
  <2>. QED  BY <2>3, <2>4, <2>5
<1>5. CASE ~Connected
  <2>1. UNCHANGED <<epoch, starting>>
    BY <1>5 DEF Wire, Connected
  <2>2. TypeOK'
    BY <1>1, <1>3, <2>1 DEF TypeOK, portal, tables
  <2>3. EpochOK' /\ OneStart'
    BY <1>1, <1>2, <2>1 DEF EpochOK, OneStart
  <2>4. Unwired' /\ Synced' /\ BoundOK' /\ EndingOK' /\ PassesOK' /\ OpenSessionsAccounted'
    BY <1>1, <1>2 DEF Unwired, Synced, BoundOK, EndingOK, PassesOK, OpenSessionsAccounted,
       Connected, portal, tables
  <2>. QED  BY <2>2, <2>3, <2>4
<1>. QED  BY <1>4, <1>5

LEMMA CrashInv ==
  ASSUME Inv, Crash
  PROVE  Inv'
<1>. USE DEF Inv, Crash
<1>1. TypeOK'
  <2>1. Eras' = Eras /\ Starts' = Starts
    BY DEF Eras, Starts
  <2>2. head' \in 0 .. passes' /\ lastPassId' \in 0 .. passes' /\ sessionId' \in 0 .. era'
    BY BoundsAssumption DEF TypeOK
  <2>3. forsaken' \subseteq Eras'
    BY <2>1 DEF TypeOK
  <2>. QED  BY <2>1, <2>2, <2>3 DEF TypeOK, Connections, tables
<1>2. Unwired' /\ Synced' /\ BoundOK' /\ EpochOK' /\ OneStart'
  BY DEF Unwired, Synced, BoundOK, EpochOK, OneStart, Connected
<1>3. EndingOK' /\ PassesOK' /\ OpenSessionsAccounted'
  BY DEF EndingOK, PassesOK, OpenSessionsAccounted, tables
<1>. QED  BY <1>1, <1>2, <1>3

LEMMA NextInv == Inv /\ [Next]_vars => Inv'
<1>. SUFFICES ASSUME Inv, [Next]_vars PROVE Inv'
  OBVIOUS
<1>1. CASE Store \/ Wire \/ Crash
  BY <1>1, StoreInv, WireInv, CrashInv
<1>2. CASE AskClear \/ Repository
  BY <1>2, StartInv, AnswerInv, EndInv, AddInv, ClearInv DEF Repository
<1>3. CASE UNCHANGED vars
  <2>. USE <1>3 DEF Inv, vars, portal, bridge, calls, tables
  <2>1. TypeOK'
    BY DEF TypeOK, Eras, Starts
  <2>2. Unwired' /\ Synced' /\ BoundOK' /\ EpochOK' /\ OneStart'
    BY DEF Unwired, Synced, BoundOK, EpochOK, OneStart, Connected
  <2>3. EndingOK' /\ PassesOK' /\ OpenSessionsAccounted'
    BY DEF EndingOK, PassesOK, OpenSessionsAccounted, Connected
  <2>. QED  BY <2>1, <2>2, <2>3
<1>. QED  BY <1>1, <1>2, <1>3 DEF Next

LEMMA Invariance == Spec => []Inv
BY InitInv, NextInv, PTL DEF Spec

\* The variables of the bridge, the calls and the tables keep their types, and
\* a pass row always has its session row (addPass in sqliteSessionRepository.ts).
THEOREM TypeCorrect == Spec => []TypeOK
<1>1. Inv => TypeOK
  BY DEF Inv
<1>. QED  BY <1>1, Invariance, PTL

\* Whatever the order of answers, a row without an end time is the live
\* connection's, or its end is on its way, or was lost (openSession,
\* closeSession and the epoch between them in initPersistence.ts).
THEOREM Accounted == Spec => []OpenSessionsAccounted
<1>1. Inv => OpenSessionsAccounted
  BY DEF Inv
<1>. QED  BY <1>1, Invariance, PTL

-----------------------------------------------------------------------------
(* The refinement: what each step does to the abstract log.                 *)

AbstractStep  == [Log!Next]_<<Log!track, Log!history>>
AbstractStill == UNCHANGED <<connection, era, crossed, tables>>

LEMMA StillIsStutter ==
  ASSUME AbstractStill
  PROVE  AbstractStep
BY DEF AbstractStill, AbstractStep, Log!track, Log!history, tables

LEMMA ConnectionStep ==
  ASSUME Inv, NEW c \in Connections, SetConnection(c)
  PROVE  AbstractStep
<1>1. /\ connection' = c /\ UNCHANGED <<crossed, tables>>
      /\ IF c = "connected" /\ connection # "connected" THEN era' = era + 1 ELSE era' = era
  BY DEF SetConnection
<1>2. CASE c = "connected" /\ connection # "connected"
  <2>1. Log!Connect
    BY <1>1, <1>2 DEF Log!Connect, Log!history, tables
  <2>. QED  BY <2>1 DEF AbstractStep, Log!Next
<1>3. CASE c # "connected" /\ connection = "connected"
  <2>1. Log!Disconnect
    BY <1>1, <1>3 DEF Log!Disconnect, Log!history, tables
  <2>. QED  BY <2>1 DEF AbstractStep, Log!Next
<1>4. CASE c = "connected" <=> connection = "connected"
  BY <1>1, <1>4 DEF AbstractStep, Log!track, Log!history, tables
<1>. QED  BY <1>2, <1>3, <1>4

\* A pass that no connection saw is no crossing of the abstract track.
LEMMA CrossStep ==
  ASSUME Inv, Cross
  PROVE  AbstractStep
<1>1. /\ passes < MaxPasses /\ passes' = passes + 1
      /\ crossed' = (IF Connected THEN crossed \cup {<<passes', era>>} ELSE crossed)
      /\ UNCHANGED <<connection, era, tables>>
  BY DEF Cross, Connected
<1>2. CASE Connected
  <2>1. passes' \in 1 .. MaxPasses /\ \A k \in crossed : k[1] # passes'
    BY <1>1, BoundsAssumption DEF Inv, TypeOK
  <2>2. Log!Cross
    BY <1>1, <1>2, <2>1 DEF Log!Cross, Log!history, tables, Connected
  <2>. QED  BY <2>2 DEF AbstractStep, Log!Next
<1>3. CASE ~Connected
  BY <1>1, <1>3, StillIsStutter DEF AbstractStill
<1>. QED  BY <1>2, <1>3

\* The row that startSession inserts is the first of its connection.
LEMMA StartStep ==
  ASSUME Inv, NEW s \in starting, StartSettles(s)
  PROVE  AbstractStep
<1>1. s.era \in (1 .. era) \ opened
  BY DEF Inv, TypeOK, OneStart, Starts, Eras
<1>2. UNCHANGED <<connection, era, crossed, ended, rows>>
  BY DEF StartSettles, portal
<1>3. CASE opened' = opened \cup {s.era} /\ sessions' = sessions \cup {s.era}
  <2>1. Log!Open
    BY <1>1, <1>2, <1>3 DEF Log!Open, Log!track
  <2>. QED  BY <2>1 DEF AbstractStep, Log!Next
<1>4. CASE UNCHANGED <<opened, sessions>>
  BY <1>2, <1>4, StillIsStutter DEF AbstractStill, tables
<1>. QED  BY <1>3, <1>4 DEF StartSettles

\* A session is never ended while its connection lasts (EndingOK).
LEMMA EndStep ==
  ASSUME Inv, NEW e \in ending, EndSettles(e)
  PROVE  AbstractStep
<1>1. UNCHANGED <<connection, era, crossed, opened, sessions, rows>>
  BY DEF EndSettles, portal
<1>2. CASE ended' = ended \cup {e} /\ e \in sessions \ ended
  <2>1. Log!End
    BY <1>1, <1>2 DEF Inv, EndingOK, Connected, Log!End, Log!track
  <2>. QED  BY <2>1 DEF AbstractStep, Log!Next
<1>3. CASE UNCHANGED ended
  BY <1>1, <1>3, StillIsStutter DEF AbstractStill, tables
<1>. QED  BY <1>2, <1>3 DEF EndSettles

\* A pass on its way was crossed during the connection whose session it names.
LEMMA AddStep ==
  ASSUME Inv, NEW a \in adding, AddSettles(a)
  PROVE  AbstractStep
<1>1. UNCHANGED <<connection, era, crossed, opened, sessions, ended>>
  BY DEF AddSettles, portal
<1>2. CASE a \notin rows /\ a[2] \in sessions /\ rows' = rows \cup {a}
  <2>1. Log!Record
    BY <1>1, <1>2 DEF Inv, PassesOK, Log!Record, Log!track
  <2>. QED  BY <2>1 DEF AbstractStep, Log!Next
<1>3. CASE UNCHANGED rows
  BY <1>1, <1>3, StillIsStutter DEF AbstractStill, tables
<1>. QED  BY <1>2, <1>3 DEF AddSettles

\* When the process dies a connection that was up is over.
LEMMA CrashStep ==
  ASSUME Crash
  PROVE  AbstractStep
<1>1. connection' = "disconnected" /\ UNCHANGED <<era, crossed, tables>>
  BY DEF Crash
<1>2. CASE connection = "connected"
  <2>1. Log!Disconnect
    BY <1>1, <1>2 DEF Log!Disconnect, Log!history, tables
  <2>. QED  BY <2>1 DEF AbstractStep, Log!Next
<1>3. CASE connection # "connected"
  BY <1>1, <1>3 DEF AbstractStep, Log!track, Log!history, tables
<1>. QED  BY <1>2, <1>3

LEMMA ClearStep ==
  ASSUME ClearSettles
  PROVE  AbstractStep
<1>1. UNCHANGED <<connection, era, crossed, opened>>
  BY DEF ClearSettles, portal
<1>2. CASE sessions' = {} /\ ended' = {} /\ rows' = {}
  BY <1>1, <1>2 DEF AbstractStep, Log!Next, Log!Clear, Log!track
<1>3. CASE UNCHANGED <<sessions, ended, rows>>
  BY <1>1, <1>3, StillIsStutter DEF AbstractStill, tables
<1>. QED  BY <1>2, <1>3 DEF ClearSettles

LEMMA StepSimulation == Inv /\ [Next]_vars => AbstractStep
<1>. SUFFICES ASSUME Inv, [Next]_vars PROVE AbstractStep
  OBVIOUS
<1>1. CASE Store
  BY <1>1, ConnectionStep, CrossStep, StillIsStutter DEF Store, OtherEvent, AbstractStill, portal
<1>2. CASE Wire \/ AskClear
  BY <1>2, StillIsStutter DEF Wire, AskClear, AbstractStill, portal
<1>3. CASE Crash
  BY <1>3, CrashStep
<1>4. CASE Repository
  <2>1. ASSUME NEW s \in answers, AnswerDelivered(s) PROVE AbstractStep
    BY <2>1, StillIsStutter DEF AnswerDelivered, AbstractStill, portal
  <2>. QED  BY <1>4, <2>1, StartStep, EndStep, AddStep, ClearStep DEF Repository
<1>5. CASE UNCHANGED vars
  BY <1>5, StillIsStutter DEF vars, portal, AbstractStill
<1>. QED  BY <1>1, <1>2, <1>3, <1>4, <1>5 DEF Next

LEMMA InitSimulation == Init => Log!Init
BY DEF Init, Log!Init

\* The bridge implements the promise of History, for every number of
\* connections and passes: a pass is recorded at most once and in the session
\* of the connection that saw it, a connection has at most one session, and no
\* session is ended while its connection lasts.
THEOREM Implements == Spec => ImplementsSessionLog
<1>1. Spec => Log!Init
  BY InitSimulation DEF Spec
<1>2. Spec => [][Log!Next]_<<Log!track, Log!history>>
  <2>1. Inv /\ [Next]_vars => [Log!Next]_<<Log!track, Log!history>>
    BY StepSimulation DEF AbstractStep
  <2>. QED  BY <2>1, Invariance, PTL DEF Spec
<1>. QED  BY <1>1, <1>2, PTL DEF ImplementsSessionLog, Log!Spec

-----------------------------------------------------------------------------
(* The controller.                                                          *)

\* What Ask's bound on transports gives.
RoomOK ==
  /\ op = "replace" => made < MaxTransports
  /\ \A i \in 1 .. Len(queue) : Creates(queue[i]) =>
       made + i + (IF op = "replace" THEN 1 ELSE 0) <= MaxTransports

SlotOK == slot \in {0, transport} /\ \A t \in Ids : on[t] <=> t = slot

\* Before configure there is nothing; afterwards the transport is of the mode
\* shown, except while it is being replaced.
HeldOK ==
  /\ ~ready => mode = "demo" /\ made = 0 /\ op \in {"none", "destroy"}
  /\ ready /\ ~destroyed /\ op # "replace" => transport # 0 /\ kind[transport] = mode

WantedOK ==
  /\ op \in {"replace", "retry", "start"} => ready /\ ~destroyed /\ ~manuallyDisconnected
  /\ op = "destroy" => destroyed
  /\ op \in {"replace", "retry"} \/ manuallyDisconnected \/ destroyed => slot = 0
  /\ ready /\ ~destroyed /\ ~manuallyDisconnected /\ mode = "demo" /\ op \notin {"replace", "retry"}
       => slot = transport

HeardOK ==
  \A t \in Made :
    /\ gen[t] <= generation
    /\ Hears(t) => t = transport /\ op # "replace"

QueueOK == queue \in Seq(Requests) /\ Len(queue) <= MaxQueue

\* TypeOK without the queue.
TypedOK ==
  /\ ready \in BOOLEAN /\ manuallyDisconnected \in BOOLEAN /\ destroyed \in BOOLEAN
  /\ mode \in Modes /\ phase \in Phases \cup {NoPhase}
  /\ generation \in Nat
  /\ made \in 0 .. MaxTransports /\ transport \in 0 .. made /\ slot \in 0 .. made
  /\ kind \in [Ids -> Modes] /\ gen \in [Ids -> Nat] /\ on \in [Ids -> BOOLEAN]
  /\ late \subseteq {t \in Made : kind[t] = "live"}
  /\ op \in {"none", "replace", "retry", "disconnect", "destroy", "start"}
  /\ reported \in ConnectionStates

\* The part of the invariant that the queue has no share in.
CoreOK == TypedOK /\ SlotOK /\ HeldOK /\ WantedOK /\ HeardOK /\ DemoHasNoPhase

ControllerInv == CoreOK /\ QueueOK /\ RoomOK

LEMMA MadeIds == TypedOK => Made \subseteq Ids /\ (transport # 0 => transport \in Made)
BY ControllerBounds DEF TypedOK, Made, Ids

LEMMA TypeParts == ControllerTypeOK <=> TypedOK /\ QueueOK
BY DEF ControllerTypeOK, TypedOK, QueueOK

LEMMA ControllerStarts == ControllerInit => ControllerInv
<1>. SUFFICES ASSUME ControllerInit PROVE ControllerInv
  OBVIOUS
<1>. USE DEF ControllerInit
<1>1. TypedOK
  <2>1. made \in 0 .. MaxTransports /\ transport \in 0 .. made /\ slot \in 0 .. made /\ generation \in Nat
    BY ControllerBounds
  <2>2. kind \in [Ids -> Modes] /\ gen \in [Ids -> Nat] /\ on \in [Ids -> BOOLEAN]
    BY DEF Modes
  <2>. QED  BY <2>1, <2>2 DEF TypedOK, Modes, ConnectionStates
<1>2. SlotOK /\ HeldOK /\ WantedOK /\ HeardOK /\ DemoHasNoPhase
  BY ControllerBounds DEF SlotOK, HeldOK, WantedOK, HeardOK, DemoHasNoPhase, Ids, Made
<1>3. QueueOK /\ RoomOK
  BY ControllerBounds DEF QueueOK, RoomOK
<1>. QED  BY <1>1, <1>2, <1>3 DEF ControllerInv, CoreOK

-----------------------------------------------------------------------------
(* What start and stop of the transport that the controller holds do.       *)

LEMMA StartEffect ==
  ASSUME NEW t \in Ids, NEW k, on \in [Ids -> BOOLEAN], reported \in ConnectionStates,
         slot \in {0, t}, \A u \in Ids : on[u] <=> u = slot,
         made \in Nat, StartTransport(t, k)
  PROVE  /\ slot' = t /\ late' = late /\ reported' \in ConnectionStates
         /\ on' \in [Ids -> BOOLEAN] /\ \A u \in Ids : on'[u] <=> u = t
<1>1. CASE on[t]
  BY <1>1 DEF StartTransport, world
<1>2. CASE ~on[t]
  <2>1. slot = 0 /\ \A u \in Ids : ~on[u]
    BY <1>2 DEF Ids
  <2>2. on' = [u \in Ids |-> u = t \/ (on[u] /\ u # slot)] /\ slot' = t
        /\ late' = late \cup {u \in Made : u = slot /\ kind[u] = "live"}
    BY <1>2 DEF StartTransport
  <2>3. reported' \in ConnectionStates
    BY <1>2 DEF StartTransport, ConnectionStates
  <2>4. late' = late
    BY <2>1, <2>2 DEF Made
  <2>5. on' \in [Ids -> BOOLEAN] /\ \A u \in Ids : on'[u] <=> u = t
    BY <2>1, <2>2
  <2>. QED  BY <2>2, <2>3, <2>4, <2>5
<1>. QED  BY <1>1, <1>2

LEMMA StopEffect ==
  ASSUME TypedOK, SlotOK, StopTransport(transport)
  PROVE  /\ slot' = 0 /\ reported' \in ConnectionStates
         /\ on' \in [Ids -> BOOLEAN] /\ \A u \in Ids : ~on'[u]
         /\ late' \subseteq {t \in Made : kind[t] = "live"}
<1>. USE DEF TypedOK, SlotOK
<1>0. transport # 0 => transport \in Ids /\ transport \in Made
  BY MadeIds
<1>1. CASE Stoppable(transport)
  <2>1. transport \in Ids /\ transport \in Made
    BY <1>0, <1>1 DEF Stoppable
  <2>2. /\ on' = [on EXCEPT ![transport] = FALSE]
        /\ slot' = IF slot = transport THEN 0 ELSE slot
        /\ reported' = "disconnected"
        /\ late' = IF kind[transport] = "live" THEN late \cup {transport} ELSE late
    BY <1>1 DEF StopTransport
  <2>3. on' \in [Ids -> BOOLEAN] /\ \A u \in Ids : ~on'[u]
    BY <2>1, <2>2 DEF Ids
  <2>4. late' \subseteq {t \in Made : kind[t] = "live"}
    BY <2>1, <2>2
  <2>5. slot' = 0 /\ reported' \in ConnectionStates
    BY <2>2 DEF ConnectionStates
  <2>. QED  BY <2>3, <2>4, <2>5
<1>2. CASE ~Stoppable(transport)
  <2>1. UNCHANGED <<on, slot, late, reported>>
    BY <1>2 DEF StopTransport, world
  <2>2. slot = 0
    BY <1>0, <1>2 DEF Stoppable
  <2>3. \A u \in Ids : ~on[u]
    BY <2>2 DEF Ids
  <2>. QED  BY <2>1, <2>2, <2>3
<1>. QED  BY <1>1, <1>2

\* A transport that is heard is of the mode shown, so a demo is shown no phase.
LEMMA QuietDemo ==
  ASSUME CoreOK, NEW t \in Made, Hears(t), kind[t] = "live"
  PROVE  mode = "live"
<1>1. t = transport /\ op # "replace" /\ ~destroyed
  BY DEF CoreOK, HeardOK, Hears
<1>2. ready
  BY DEF CoreOK, TypedOK, HeldOK, Made
<1>. QED  BY <1>1, <1>2 DEF CoreOK, HeldOK

LEMMA QuietStop ==
  ASSUME CoreOK, phase' = PhaseAfterStop(transport)
  PROVE  phase' \in Phases \cup {NoPhase} /\ (mode = "demo" => phase' = NoPhase)
<1>1. CASE transport # 0 /\ kind[transport] = "live" /\ on[transport] /\ Hears(transport)
  <2>1. transport \in Made
    BY <1>1 DEF CoreOK, TypedOK, Made
  <2>2. mode # "demo"
    BY <1>1, <2>1, QuietDemo
  <2>. QED  BY <1>1, <2>2 DEF PhaseAfterStop, Phases
<1>2. CASE ~(transport # 0 /\ kind[transport] = "live" /\ on[transport] /\ Hears(transport))
  BY <1>2 DEF PhaseAfterStop, CoreOK, TypedOK, DemoHasNoPhase
<1>. QED  BY <1>1, <1>2

-----------------------------------------------------------------------------
(* The operations.                                                          *)

LEMMA ConfigureCore ==
  ASSUME CoreOK, op = "none", ~destroyed, NEW d, Configure(d)
  PROVE  CoreOK'
<1>. USE DEF CoreOK
<1>1. /\ ~ready /\ made = 0 /\ mode = "demo" /\ phase = NoPhase
      /\ ready' = TRUE /\ mode' \in Modes /\ manuallyDisconnected' = FALSE
      /\ generation' = generation + 1 /\ phase' = phase /\ op' = "replace"
      /\ UNCHANGED <<destroyed, transport, made, kind, gen>>
      /\ StopTransport(transport)
  BY DEF Configure, ReplaceTransport, HeldOK, DemoHasNoPhase, Modes, transports
<1>2. /\ slot' = 0 /\ reported' \in ConnectionStates
      /\ on' \in [Ids -> BOOLEAN] /\ \A u \in Ids : ~on'[u]
      /\ late' \subseteq {t \in Made : kind[t] = "live"}
  BY <1>1, StopEffect
<1>3. TypedOK'
  <2>1. late' \subseteq {t \in Made' : kind'[t] = "live"}
    BY <1>1, <1>2 DEF Made
  <2>2. generation' \in Nat /\ slot' \in 0 .. made'
    BY <1>1, <1>2 DEF TypedOK
  <2>. QED  BY <1>1, <1>2, <2>1, <2>2 DEF TypedOK
<1>4. SlotOK' /\ HeldOK' /\ WantedOK' /\ DemoHasNoPhase'
  BY <1>1, <1>2 DEF SlotOK, HeldOK, WantedOK, DemoHasNoPhase, Ids
<1>5. HeardOK'
  BY <1>1 DEF HeardOK, Made
<1>. QED  BY <1>3, <1>4, <1>5

LEMMA SetOtherModeCore ==
  ASSUME CoreOK, op = "none", ready, ~destroyed, NEW m \in Modes, SetOtherMode(m)
  PROVE  CoreOK'
<1>. USE DEF CoreOK
<1>1. /\ mode' = m /\ manuallyDisconnected' = FALSE
      /\ generation' = generation + 1 /\ phase' = NoPhase /\ op' = "replace"
      /\ UNCHANGED <<ready, destroyed, transport, made, kind, gen>>
      /\ StopTransport(transport)
  BY DEF SetOtherMode, ReplaceTransport, transports
<1>2. /\ slot' = 0 /\ reported' \in ConnectionStates
      /\ on' \in [Ids -> BOOLEAN] /\ \A u \in Ids : ~on'[u]
      /\ late' \subseteq {t \in Made : kind[t] = "live"}
  BY <1>1, StopEffect
<1>3. TypedOK'
  <2>1. late' \subseteq {t \in Made' : kind'[t] = "live"}
    BY <1>1, <1>2 DEF Made
  <2>2. generation' \in Nat /\ slot' \in 0 .. made'
    BY <1>1, <1>2 DEF TypedOK
  <2>. QED  BY <1>1, <1>2, <2>1, <2>2 DEF TypedOK
<1>4. SlotOK' /\ HeldOK' /\ WantedOK' /\ DemoHasNoPhase'
  BY <1>1, <1>2 DEF SlotOK, HeldOK, WantedOK, DemoHasNoPhase, Ids
<1>5. HeardOK'
  <2>1. \A t \in Made : gen[t] \in Nat
    BY MadeIds DEF TypedOK
  <2>. QED  BY <1>1, <2>1 DEF HeardOK, TypedOK, Made, Hears
<1>. QED  BY <1>3, <1>4, <1>5

\* connect, and setMode to the mode in force: the transport starts.
LEMMA StartCore ==
  ASSUME CoreOK, op \in {"none", "retry"}, ready, ~destroyed,
         manuallyDisconnected' = FALSE, op' = "start",
         UNCHANGED <<ready, mode, phase, destroyed, generation, transport, made, kind, gen>>,
         StartTransport(transport, kind[transport])
  PROVE  CoreOK'
<1>. USE DEF CoreOK
<1>1. transport \in Ids
  BY MadeIds DEF HeldOK
<1>2. /\ slot' = transport /\ late' = late /\ reported' \in ConnectionStates
      /\ on' \in [Ids -> BOOLEAN] /\ \A u \in Ids : on'[u] <=> u = transport
  BY <1>1, StartEffect DEF TypedOK, SlotOK
<1>3. TypedOK'
  <2>1. late' \subseteq {t \in Made' : kind'[t] = "live"}
    BY <1>2 DEF TypedOK, Made
  <2>2. slot' \in 0 .. made'
    BY <1>2 DEF TypedOK
  <2>. QED  BY <1>2, <2>1, <2>2 DEF TypedOK
<1>4. SlotOK' /\ HeldOK' /\ WantedOK' /\ DemoHasNoPhase'
  BY <1>2 DEF SlotOK, HeldOK, WantedOK, DemoHasNoPhase
<1>5. HeardOK'
  BY DEF HeardOK, Made, Hears
<1>. QED  BY <1>3, <1>4, <1>5

\* retry and disconnect: the transport stops.
LEMMA StopCore ==
  ASSUME CoreOK, op = "none", ready, ~destroyed,
         \/ manuallyDisconnected' = FALSE /\ op' = "retry"
         \/ manuallyDisconnected' = TRUE /\ op' = "disconnect",
         UNCHANGED <<ready, mode, destroyed, generation, transport, made, kind, gen>>,
         StopTransport(transport), phase' = PhaseAfterStop(transport)
  PROVE  CoreOK'
<1>. USE DEF CoreOK
<1>1. /\ slot' = 0 /\ reported' \in ConnectionStates
      /\ on' \in [Ids -> BOOLEAN] /\ \A u \in Ids : ~on'[u]
      /\ late' \subseteq {t \in Made : kind[t] = "live"}
  BY StopEffect
<1>2. phase' \in Phases \cup {NoPhase} /\ DemoHasNoPhase'
  BY QuietStop DEF DemoHasNoPhase
<1>3. TypedOK'
  <2>1. late' \subseteq {t \in Made' : kind'[t] = "live"}
    BY <1>1, <1>2 DEF Made
  <2>2. generation' \in Nat /\ slot' \in 0 .. made'
    BY <1>1, <1>2 DEF TypedOK
  <2>. QED  BY <1>1, <1>2, <2>1, <2>2 DEF TypedOK
<1>4. SlotOK' /\ HeldOK' /\ WantedOK'
  BY <1>1 DEF SlotOK, HeldOK, WantedOK, Ids
<1>5. HeardOK'
  BY DEF HeardOK, Made, Hears
<1>. QED  BY <1>2, <1>3, <1>4, <1>5

LEMMA DestroyCore ==
  ASSUME CoreOK, op = "none", ~destroyed, Destroy
  PROVE  CoreOK'
<1>. USE DEF CoreOK
<1>1. /\ destroyed' = TRUE /\ generation' = generation + 1 /\ op' = "destroy"
      /\ UNCHANGED <<ready, mode, phase, manuallyDisconnected, transport, made, kind, gen>>
      /\ StopTransport(transport)
  BY DEF Destroy, state, transports
<1>2. /\ slot' = 0 /\ reported' \in ConnectionStates
      /\ on' \in [Ids -> BOOLEAN] /\ \A u \in Ids : ~on'[u]
      /\ late' \subseteq {t \in Made : kind[t] = "live"}
  BY <1>1, StopEffect
<1>3. TypedOK'
  <2>1. late' \subseteq {t \in Made' : kind'[t] = "live"}
    BY <1>1, <1>2 DEF Made
  <2>2. generation' \in Nat /\ slot' \in 0 .. made'
    BY <1>1, <1>2 DEF TypedOK
  <2>. QED  BY <1>1, <1>2, <2>1, <2>2 DEF TypedOK
<1>4. SlotOK' /\ HeldOK' /\ WantedOK' /\ DemoHasNoPhase'
  BY <1>1, <1>2 DEF SlotOK, HeldOK, WantedOK, DemoHasNoPhase, Ids
<1>5. HeardOK'
  <2>1. \A t \in Made : gen[t] \in Nat
    BY MadeIds DEF TypedOK
  <2>. QED  BY <1>1, <2>1 DEF HeardOK, TypedOK, Made, Hears
<1>. QED  BY <1>3, <1>4, <1>5

-----------------------------------------------------------------------------
(* The queue.                                                               *)

LEMMA RequestArguments ==
  ASSUME NEW r \in Requests
  PROVE  r[1] = "setMode" => r[2] \in Modes
BY DEF Requests

LEMMA PerformCore ==
  ASSUME CoreOK, op = "none", NEW r \in Requests, Perform(r)
  PROVE  /\ CoreOK' /\ made' = made /\ transport' = transport
         /\ op' = "replace" => Creates(r)
<1>1. CASE UNCHANGED <<state, identity, op, transports, world>>
  BY <1>1 DEF state, identity, transports, world, CoreOK, TypedOK, SlotOK, HeldOK, WantedOK,
              HeardOK, DemoHasNoPhase, Made, Hears
<1>2. CASE ~Ignored(r) /\ r[1] = "configure" /\ Configure(r[2])
  BY <1>2, ConfigureCore DEF Ignored, Creates, Configure, transports
<1>3. CASE ~Ignored(r) /\ r[1] = "setMode" /\ SetMode(r[2])
  <2>1. ready /\ ~destroyed /\ Creates(r)
    BY <1>3 DEF Ignored, SetMode, Creates
  <2>. DEFINE asked == IF CanBle THEN r[2] ELSE "demo"
  <2>2. asked \in Modes
    BY <1>3, RequestArguments DEF Modes
  <2>3. SetSameMode \/ SetOtherMode(asked)
    BY <1>3 DEF SetMode
  <2>4. CASE SetOtherMode(asked)
    <3>. HIDE DEF asked
    <3>1. CoreOK'
      BY <2>1, <2>2, <2>4, SetOtherModeCore
    <3>. QED  BY <2>1, <2>4, <3>1 DEF SetOtherMode, transports
  <2>5. CASE SetSameMode
    <3>1. UNCHANGED <<ready, mode, phase, destroyed, generation, transport, made, kind, gen>>
          /\ manuallyDisconnected' = FALSE
      BY <2>5 DEF SetSameMode, identity, transports
    <3>2. CASE StartTransport(transport, kind[transport]) /\ op' = "start"
      BY <2>1, <3>1, <3>2, StartCore
    <3>3. CASE ~manuallyDisconnected /\ UNCHANGED <<world, op>>
      BY <3>1, <3>3 DEF world, CoreOK, TypedOK, SlotOK, HeldOK, WantedOK,
                        HeardOK, DemoHasNoPhase, Made, Hears
    <3>. QED  BY <2>1, <2>5, <3>1, <3>2, <3>3 DEF SetSameMode
  <2>. QED  BY <2>3, <2>4, <2>5
<1>4. CASE ~Ignored(r) /\ r[1] = "connect" /\ Connect
  BY <1>4, StartCore DEF Ignored, Connect, identity, transports
<1>5. CASE ~Ignored(r) /\ r[1] = "retry" /\ Retry
  BY <1>5, StopCore DEF Ignored, Retry, identity, transports
<1>6. CASE ~Ignored(r) /\ r[1] = "disconnect" /\ Disconnect
  BY <1>6, StopCore DEF Ignored, Disconnect, identity, transports
<1>7. CASE ~Ignored(r) /\ r[1] = "destroy" /\ Destroy
  BY <1>7, DestroyCore DEF Ignored, Destroy, transports
<1>. QED  BY <1>1, <1>2, <1>3, <1>4, <1>5, <1>6, <1>7 DEF Perform

LEMMA BeginInv ==
  ASSUME ControllerInv, Begin
  PROVE  ControllerInv' /\ transport' = transport
<1>. USE DEF ControllerInv, QueueOK
<1>1. op = "none" /\ queue # <<>> /\ queue' = Tail(queue) /\ Perform(Head(queue))
  BY DEF Begin
<1>2. Head(queue) \in Requests /\ Head(queue) = queue[1] /\ 1 \in 1 .. Len(queue)
  BY <1>1
<1>3. /\ CoreOK' /\ made' = made /\ transport' = transport
      /\ op' = "replace" => Creates(Head(queue))
  BY <1>1, <1>2, PerformCore
<1>4. QueueOK'
  BY <1>1, ControllerBounds
<1>5. RoomOK'
  <2>1. made \in Nat /\ MaxTransports \in Nat
    BY ControllerBounds DEF CoreOK, TypedOK
  <2>2. op' = "replace" => made < MaxTransports
    BY <1>1, <1>2, <1>3, <2>1 DEF RoomOK
  <2>3. ASSUME NEW i \in 1 .. Len(queue'), Creates(queue'[i])
        PROVE  made + i + 1 <= MaxTransports
    <3>1. i + 1 \in 1 .. Len(queue) /\ queue'[i] = queue[i + 1]
      BY <1>1, <2>3
    <3>. QED  BY <1>1, <2>1, <2>3, <3>1 DEF RoomOK
  <2>4. \A i \in 1 .. Len(queue') : i \in Nat
    OBVIOUS
  <2>. QED  BY <1>3, <2>1, <2>2, <2>3, <2>4 DEF RoomOK
<1>. QED  BY <1>3, <1>4, <1>5

LEMMA AskInv ==
  ASSUME ControllerInv, NEW r \in Requests, Ask(r)
  PROVE  ControllerInv' /\ transport' = transport
<1>. USE DEF ControllerInv, QueueOK
<1>1. /\ queue' = Append(queue, r) /\ Len(queue) < MaxQueue
      /\ Creates(r) => made + ToCreate < MaxTransports
      /\ UNCHANGED <<ready, mode, phase, manuallyDisconnected, destroyed, generation, transport,
                     op, made, kind, gen, on, slot, late, reported>>
  BY DEF Ask, state, identity, transports, world
<1>2. CoreOK'
  BY <1>1 DEF CoreOK, TypedOK, SlotOK, HeldOK, WantedOK, HeardOK, DemoHasNoPhase, Made, Hears
<1>3. QueueOK'
  BY <1>1, ControllerBounds
<1>4. RoomOK'
  <2>1. made \in Nat /\ MaxTransports \in Nat
    BY ControllerBounds DEF CoreOK, TypedOK
  <2>2. ASSUME NEW i \in 1 .. Len(queue'), Creates(queue'[i])
        PROVE  made + i + (IF op = "replace" THEN 1 ELSE 0) <= MaxTransports
    <3>1. CASE i \in 1 .. Len(queue)
      BY <1>1, <2>2, <3>1 DEF RoomOK
    <3>2. CASE i = Len(queue) + 1
      BY <1>1, <2>1, <2>2, <3>2 DEF ToCreate
    <3>. QED  BY <1>1, <2>2, <3>1, <3>2
  <2>. QED  BY <1>1, <2>2 DEF RoomOK
<1>. QED  BY <1>1, <1>2, <1>3, <1>4

LEMMA ReplaceResumesInv ==
  ASSUME ControllerInv, ReplaceResumes
  PROVE  ControllerInv' /\ slot = 0
<1>. USE DEF ControllerInv, QueueOK
<1>. DEFINE t == made + 1
<1>1. /\ op = "replace" /\ op' = "start"
      /\ generation' = generation + 1 /\ made' = t /\ transport' = t
      /\ kind' = [kind EXCEPT ![t] = mode] /\ gen' = [gen EXCEPT ![t] = generation + 1]
      /\ phase' = IF mode = "demo" THEN NoPhase ELSE phase
      /\ StartTransport(t, mode)
      /\ UNCHANGED <<ready, mode, manuallyDisconnected, destroyed, queue>>
  BY DEF ReplaceResumes
<1>2. slot = 0 /\ ready /\ ~destroyed /\ ~manuallyDisconnected
  BY <1>1 DEF CoreOK, WantedOK
<1>3. made \in Nat /\ t \in Ids /\ t \notin Made /\ Made' = Made \cup {t} /\ Made \subseteq Ids
  <2>1. made \in Nat /\ MaxTransports \in Nat /\ made < MaxTransports
    BY <1>1, ControllerBounds DEF CoreOK, TypedOK, RoomOK
  <2>2. t \in Ids /\ t \notin Made
    BY <2>1 DEF Ids, Made
  <2>3. Made' = Made \cup {t}
    BY <1>1, <2>1 DEF Made
  <2>. QED  BY <2>1, <2>2, <2>3, MadeIds DEF CoreOK
<1>4. /\ slot' = t /\ late' = late /\ reported' \in ConnectionStates
      /\ on' \in [Ids -> BOOLEAN] /\ \A u \in Ids : on'[u] <=> u = t
  BY <1>1, <1>2, <1>3, StartEffect DEF CoreOK, TypedOK, SlotOK
<1>5. /\ kind' \in [Ids -> Modes] /\ gen' \in [Ids -> Nat]
      /\ kind'[t] = mode /\ gen'[t] = generation + 1
      /\ \A u \in Made : kind'[u] = kind[u] /\ gen'[u] = gen[u] /\ gen[u] \in Nat
  BY <1>1, <1>3 DEF CoreOK, TypedOK
<1>6. TypedOK'
  <2>1. late' \subseteq {u \in Made' : kind'[u] = "live"}
    BY <1>3, <1>4, <1>5 DEF CoreOK, TypedOK
  <2>2. generation' \in Nat /\ made' \in 0 .. MaxTransports /\ transport' \in 0 .. made' /\ slot' \in 0 .. made'
    BY <1>1, <1>3, <1>4 DEF CoreOK, TypedOK, Ids
  <2>3. phase' \in Phases \cup {NoPhase}
    BY <1>1 DEF CoreOK, TypedOK
  <2>. QED  BY <1>1, <1>4, <1>5, <2>1, <2>2, <2>3 DEF CoreOK, TypedOK
<1>7. SlotOK' /\ WantedOK' /\ DemoHasNoPhase'
  BY <1>1, <1>2, <1>4 DEF CoreOK, SlotOK, WantedOK, DemoHasNoPhase
<1>8. HeldOK'
  BY <1>1, <1>2, <1>3, <1>5 DEF HeldOK, Ids
<1>9. HeardOK'
  <2>1. \A u \in Made : gen[u] <= generation /\ generation \in Nat
    BY DEF CoreOK, HeardOK, TypedOK
  <2>. QED  BY <1>1, <1>3, <1>5, <2>1 DEF HeardOK, Hears
<1>10. RoomOK'
  BY <1>1, <1>3 DEF RoomOK
<1>. QED  BY <1>1, <1>2, <1>6, <1>7, <1>8, <1>9, <1>10 DEF CoreOK

LEMMA RestInv ==
  ASSUME ControllerInv, RetryResumes \/ DestroyResumes \/ Finishes
  PROVE  ControllerInv' /\ (transport' = transport \/ slot = 0)
<1>. USE DEF ControllerInv, QueueOK
<1>1. /\ UNCHANGED <<made, queue>> /\ op' # "replace"
      /\ op # "replace"
  BY DEF RetryResumes, DestroyResumes, Finishes, transports
<1>2. RoomOK' /\ QueueOK'
  BY <1>1 DEF RoomOK
<1>3. CASE RetryResumes
  <2>1. ready /\ ~destroyed /\ ~manuallyDisconnected
    BY <1>3 DEF RetryResumes, CoreOK, WantedOK
  <2>2. manuallyDisconnected' = FALSE
    BY <1>3, <2>1 DEF RetryResumes, state, CoreOK, TypedOK
  <2>3. CoreOK'
    BY <1>3, <2>1, <2>2, StartCore DEF RetryResumes, state, identity, transports
  <2>. QED  BY <1>2, <1>3, <2>3 DEF RetryResumes, identity
<1>4. CASE DestroyResumes
  <2>1. transport' = 0 /\ op = "destroy" /\ op' = "none"
        /\ UNCHANGED <<ready, mode, phase, manuallyDisconnected, destroyed, generation,
                       made, kind, gen, on, slot, late, reported>>
    BY <1>4 DEF DestroyResumes, state, transports, world
  <2>2. TypedOK'
    BY <2>1 DEF CoreOK, TypedOK, Made
  <2>3. destroyed /\ slot = 0
    BY <2>1 DEF CoreOK, WantedOK
  <2>4. SlotOK' /\ HeldOK' /\ WantedOK' /\ HeardOK' /\ DemoHasNoPhase'
    BY <2>1, <2>3 DEF CoreOK, SlotOK, HeldOK, WantedOK, HeardOK, DemoHasNoPhase, Hears, Made
  <2>. QED  BY <1>2, <2>2, <2>3, <2>4 DEF CoreOK
<1>5. CASE Finishes
  <2>1. op \in {"disconnect", "start"} /\ op' = "none"
        /\ UNCHANGED <<ready, mode, phase, manuallyDisconnected, destroyed, generation, transport,
                       made, kind, gen, on, slot, late, reported>>
    BY <1>5 DEF Finishes, state, identity, transports, world
  <2>2. TypedOK'
    BY <2>1 DEF CoreOK, TypedOK, Made
  <2>3. SlotOK' /\ HeldOK' /\ WantedOK' /\ HeardOK' /\ DemoHasNoPhase'
    BY <2>1 DEF CoreOK, SlotOK, HeldOK, WantedOK, HeardOK, DemoHasNoPhase, Hears, Made
  <2>. QED  BY <1>2, <2>1, <2>2, <2>3 DEF CoreOK
<1>. QED  BY <1>3, <1>4, <1>5

-----------------------------------------------------------------------------
(* The transports of their own accord.                                      *)

LEMMA MockInv ==
  ASSUME ControllerInv, NEW t \in Made, MockConnects(t)
  PROVE  ControllerInv' /\ transport' = transport
<1>1. /\ reported' \in ConnectionStates
      /\ UNCHANGED <<ready, mode, phase, manuallyDisconnected, destroyed, generation, transport,
                     queue, op, made, kind, gen, on, slot, late>>
  BY DEF MockConnects, state, identity, transports, ConnectionStates
<1>. QED
  BY <1>1 DEF ControllerInv, CoreOK, QueueOK, RoomOK, TypedOK, SlotOK, HeldOK, WantedOK, HeardOK,
              DemoHasNoPhase, Hears, Made

LEMMA ReportsInv ==
  ASSUME ControllerInv, NEW t \in Made, BleReports(t)
  PROVE  ControllerInv' /\ transport' = transport
<1>. USE DEF ControllerInv
<1>1. /\ reported' \in ConnectionStates
      /\ UNCHANGED <<ready, mode, manuallyDisconnected, destroyed, generation, transport,
                     queue, op, made, kind, gen, on, slot, late>>
  BY DEF BleReports, identity, transports
<1>2. phase' \in Phases \cup {NoPhase} /\ DemoHasNoPhase'
  <2>1. CASE Hears(t)
    <3>1. mode = "live"
      BY <2>1, QuietDemo DEF BleReports
    <3>. QED  BY <1>1, <2>1, <3>1 DEF BleReports, CoreOK, TypedOK, DemoHasNoPhase
  <2>2. CASE ~Hears(t)
    BY <1>1, <2>2 DEF BleReports, CoreOK, TypedOK, DemoHasNoPhase
  <2>. QED  BY <2>1, <2>2
<1>3. TypedOK'
  BY <1>1, <1>2 DEF CoreOK, TypedOK, Made
<1>. QED
  BY <1>1, <1>2, <1>3 DEF CoreOK, QueueOK, RoomOK, SlotOK, HeldOK, WantedOK, HeardOK, Hears, Made

LEMMA LocksInv ==
  ASSUME ControllerInv, NEW t \in Made, BleLocks(t)
  PROVE  ControllerInv' /\ transport' = transport
<1>. USE DEF ControllerInv
<1>1. t \in Ids /\ t = slot /\ t = transport /\ kind[t] = "live"
  BY MadeIds DEF BleLocks, CoreOK, SlotOK, TypedOK, Made, Ids
<1>2. /\ StopTransport(transport) /\ phase' = PhaseAfterStop(transport)
      /\ UNCHANGED <<ready, mode, manuallyDisconnected, destroyed, generation, transport,
                     queue, op, made, kind, gen>>
  BY <1>1 DEF BleLocks, identity, transports
<1>3. /\ slot' = 0 /\ reported' \in ConnectionStates
      /\ on' \in [Ids -> BOOLEAN] /\ \A u \in Ids : ~on'[u]
      /\ late' \subseteq {u \in Made : kind[u] = "live"}
  BY <1>2, StopEffect DEF CoreOK
<1>4. phase' \in Phases \cup {NoPhase} /\ DemoHasNoPhase'
  BY <1>2, QuietStop DEF DemoHasNoPhase
<1>5. op \notin {"replace", "retry"} /\ ~manuallyDisconnected /\ ~destroyed /\ ready
  BY <1>1 DEF CoreOK, WantedOK, HeldOK, TypedOK, Made, Ids
<1>6. mode = "live"
  BY <1>1, <1>5 DEF CoreOK, HeldOK
<1>7. TypedOK'
  <2>1. late' \subseteq {u \in Made' : kind'[u] = "live"} /\ slot' \in 0 .. made'
    BY <1>2, <1>3 DEF Made, CoreOK, TypedOK
  <2>. QED  BY <1>2, <1>3, <1>4, <2>1 DEF CoreOK, TypedOK
<1>8. SlotOK' /\ HeldOK' /\ WantedOK' /\ HeardOK'
  BY <1>2, <1>3, <1>5, <1>6 DEF CoreOK, SlotOK, HeldOK, WantedOK, HeardOK, Hears, Made, Ids
<1>9. QueueOK' /\ RoomOK'
  BY <1>2 DEF QueueOK, RoomOK
<1>. QED  BY <1>2, <1>4, <1>7, <1>8, <1>9 DEF CoreOK

LEMMA LateInv ==
  ASSUME ControllerInv, NEW t \in Made, LateSettles(t)
  PROVE  ControllerInv' /\ transport' = transport
<1>1. /\ late' = late \ {t}
      /\ UNCHANGED <<ready, mode, phase, manuallyDisconnected, destroyed, generation, transport,
                     queue, op, made, kind, gen, on, slot, reported>>
  BY DEF LateSettles, state, identity, transports
<1>2. TypedOK'
  BY <1>1 DEF ControllerInv, CoreOK, TypedOK, Made
<1>. QED
  BY <1>1, <1>2 DEF ControllerInv, CoreOK, QueueOK, RoomOK, SlotOK, HeldOK, WantedOK, HeardOK,
                    DemoHasNoPhase, Hears, Made

LEMMA ControllerStep ==
  ASSUME ControllerInv, [ControllerNext]_controllerVars
  PROVE  ControllerInv' /\ (transport' = transport \/ slot = 0)
<1>1. CASE UNCHANGED controllerVars
  BY <1>1 DEF controllerVars, state, identity, transports, world, ControllerInv, CoreOK, QueueOK, RoomOK, TypedOK,
              SlotOK, HeldOK, WantedOK, HeardOK, DemoHasNoPhase, Hears, Made
<1>. QED
  BY <1>1, AskInv, BeginInv, ReplaceResumesInv, RestInv, MockInv, ReportsInv, LocksInv, LateInv
  DEF ControllerNext, Resumes

LEMMA ControllerInvariant == ControllerSpec => []ControllerInv
<1>1. ControllerInv /\ [ControllerNext]_controllerVars => ControllerInv'
  BY ControllerStep
<1>. QED  BY <1>1, ControllerStarts, PTL DEF ControllerSpec

-----------------------------------------------------------------------------
(* What the controller promises.                                            *)

THEOREM ControllerTypes == ControllerSpec => []ControllerTypeOK
<1>1. ControllerInv => ControllerTypeOK
  BY TypeParts DEF ControllerInv, CoreOK
<1>. QED  BY <1>1, ControllerInvariant, PTL

\* One transport runs, the one the controller holds (replaceTransport, active.ts).
THEOREM OneAtATime == ControllerSpec => []OneTransport
<1>1. ControllerInv => OneTransport
  <2>. SUFFICES ASSUME ControllerInv PROVE OneTransport
    OBVIOUS
  <2>1. \A t \in Made : t \in Ids /\ t # 0
    BY MadeIds DEF ControllerInv, CoreOK, Made
  <2>2. slot # 0 => slot \in Made
    BY DEF ControllerInv, CoreOK, TypedOK, Made
  <2>. QED  BY <2>1, <2>2 DEF ControllerInv, CoreOK, SlotOK, OneTransport, Running
<1>. QED  BY <1>1, ControllerInvariant, PTL

\* No transport reports a phase into demo mode (createTransport's generation).
THEOREM DemoIsQuiet == ControllerSpec => []DemoHasNoPhase
<1>1. ControllerInv => DemoHasNoPhase
  BY DEF ControllerInv, CoreOK
<1>. QED  BY <1>1, ControllerInvariant, PTL

\* The state shown describes the transport held (configure ... destroy).
THEOREM StateDescribesTransport == ControllerSpec => []DescribesTransport
<1>1. ControllerInv => DescribesTransport
  <2>. SUFFICES ASSUME ControllerInv PROVE DescribesTransport
    OBVIOUS
  <2>1. transport # 0 => transport \in Ids
    BY MadeIds DEF ControllerInv, CoreOK
  <2>2. \A t \in Made : t \in Ids /\ t # 0
    BY MadeIds DEF ControllerInv, CoreOK, Made
  <2>. QED
    BY <2>1, <2>2 DEF ControllerInv, CoreOK, SlotOK, HeldOK, WantedOK, DescribesTransport, Running
<1>. QED  BY <1>1, ControllerInvariant, PTL

\* The slot is never handed over while it is held (claimActiveTransport).
THEOREM SlotIsFreed == ControllerSpec => SlotPassesThroughFree
<1>1. ControllerInv /\ [ControllerNext]_controllerVars => [slot # 0 => slot' \in {0, slot}]_controllerVars
  BY ControllerStep DEF ControllerInv, CoreOK, SlotOK
<1>. QED  BY <1>1, ControllerInvariant, PTL DEF ControllerSpec, SlotPassesThroughFree

\* No transport starts against a manual disconnect or after the end (enqueue).
THEOREM WantedStarts == ControllerSpec => StartsOnlyWhenWanted
<1>1. ControllerInv /\ [ControllerNext]_controllerVars =>
        [\A t \in Ids : ~on[t] /\ on'[t] => ~manuallyDisconnected' /\ ~destroyed']_controllerVars
  BY ControllerStep DEF ControllerInv, CoreOK, SlotOK, WantedOK, Ids
<1>. QED  BY <1>1, ControllerInvariant, PTL DEF ControllerSpec, StartsOnlyWhenWanted
==============================================================================
