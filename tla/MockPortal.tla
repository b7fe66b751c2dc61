------------------------------ MODULE MockPortal ------------------------------
(***************************************************************************)
(* The simulated portal of demo mode (apps/mobile/src/mock/mockPortal.ts):  *)
(* a connect, a car and passes, each from a timer of its own, and a stop    *)
(* that may come between any two of them, as may the next start of the same *)
(* mock (the controller's disconnect, connect and retry).  Time passes in   *)
(* steps of 200 ms.  The bytes it encodes and decodes are those of modules  *)
(* Wire and PortalMessages; who owns the slot is in PortalController.       *)
(***************************************************************************)
EXTENDS Naturals, Sequences, FiniteSets

CONSTANTS
  Gaps,       \* steps between two passes, with the jitter of a start
  MaxStarts,  \* bound on starts
  MaxSeen     \* bound on events of one start

VARIABLES
  running, timers,   \* timers: what they do, and the steps left
  loop,              \* passLoop: the steps left and the gap, or NoLoop
  connection,        \* the portal store's
  seen,              \* what the store was told since the last start
  starts

(* The first pass of the loop comes after the connect. *)
GapsFit == \A gap \in Gaps : gap \in Nat /\ gap > 3

mockVars == <<running, timers, loop, connection, seen, starts>>

NoLoop == [left |-> 0, gap |-> 0]

Init ==
  /\ running = FALSE /\ timers = {} /\ loop = NoLoop
  /\ connection = "disconnected" /\ seen = <<>> /\ starts = 0

\* The timers of a start: 600, 1200 and 2000 ms.
Armed == {[does |-> "connect", left |-> 3], [does |-> "car", left |-> 6], [does |-> "pass", left |-> 10]}

Start ==
  /\ ~running /\ starts < MaxStarts
  /\ running' = TRUE /\ starts' = starts + 1
  /\ connection' = "connecting" /\ seen' = <<>>
  /\ timers' = timers \cup Armed
  /\ \E gap \in Gaps : loop' = [left |-> gap, gap |-> gap]

\* Mutant: stop() clears the loop only.
StopKeepsTimers ==
  /\ running' = FALSE /\ loop' = NoLoop
  /\ connection' = "disconnected"
  /\ UNCHANGED <<timers, seen, starts>>

Stop ==
  /\ running' = FALSE /\ loop' = NoLoop /\ timers' = {}
  /\ connection' = "disconnected"
  /\ UNCHANGED <<seen, starts>>

\* What a callback tells the store; a mock that does not run tells it nothing.
Emit(what) ==
  IF ~running THEN UNCHANGED <<connection, seen>>
  ELSE /\ connection' = IF what = "connect" THEN "connected" ELSE connection
       /\ seen' = Append(seen, what)

\* A timer that is due fires before time goes on.
Fire(t) ==
  /\ t \in timers /\ t.left = 0 /\ Len(seen) < MaxSeen
  /\ timers' = timers \ {t}
  /\ Emit(t.does)
  /\ UNCHANGED <<running, loop, starts>>

Loop ==
  /\ loop # NoLoop /\ loop.left = 0 /\ Len(seen) < MaxSeen
  /\ loop' = [loop EXCEPT !.left = loop.gap]
  /\ Emit("pass")
  /\ UNCHANGED <<running, timers, starts>>

\* The button of the settings screen, offered while connected.
triggerPass ==
  /\ connection = "connected" /\ Len(seen) < MaxSeen
  /\ Emit("pass")
  /\ UNCHANGED <<running, timers, loop, starts>>

Pass ==
  /\ \A t \in timers : t.left > 0
  /\ loop # NoLoop => loop.left > 0
  /\ timers # {} \/ loop # NoLoop
  /\ timers' = {[t EXCEPT !.left = @ - 1] : t \in timers}
  /\ loop' = IF loop = NoLoop THEN loop ELSE [loop EXCEPT !.left = @ - 1]
  /\ UNCHANGED <<running, connection, seen, starts>>

Next == Start \/ Stop \/ Loop \/ triggerPass \/ Pass \/ \E t \in timers : Fire(t)

Spec == Init /\ [][Next]_mockVars
-----------------------------------------------------------------------------
(* Properties.                                                              *)

\* Every start unfolds from its beginning, however soon after a stop it comes:
\* the connection first and once, and one car, nothing of the start before it
\* (stop() clears every timer).
StartsAfresh ==
  /\ \A i \in DOMAIN seen : (i = 1) <=> (seen[i] = "connect")
  /\ Cardinality({i \in DOMAIN seen : seen[i] = "car"}) <= 1
=============================================================================
