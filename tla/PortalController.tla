--------------------------- MODULE PortalController ---------------------------
(***************************************************************************)
(* The owner of the portal transports: PortalController                     *)
(* (apps/mobile/src/portal/controller.ts), the active-transport slot        *)
(* (transport/active.ts), and both transports as the controller sees them:  *)
(* the mock (mock/mockPortal.ts) and the BLE transport (ble/blePortal.ts,   *)
(* whose inside is module BlePortal).                                       *)
(*                                                                         *)
(* Every operation goes through enqueue(), so one runs at a time and the    *)
(* rest wait in a queue; an operation is suspended only while it awaits a   *)
(* transport's stop() or start().  Transports are numbered as they are      *)
(* created; 0 stands for null.  The logs, gated like the phase, and         *)
(* triggerDemoPass, which changes no state of the controller, are left out. *)
(***************************************************************************)
EXTENDS Naturals, Sequences

CONSTANTS
  CanBle,          \* the device has a radio: isBleAvailable() && Device.isDevice
  MaxTransports,   \* bound on transports created
  MaxQueue         \* bound on operations waiting

ASSUME CanBleAssumption == CanBle \in BOOLEAN
ASSUME ControllerBounds == MaxTransports \in Nat /\ MaxQueue \in Nat

VARIABLES
  ready, mode, phase, manuallyDisconnected,   \* PortalControllerState
  destroyed, generation, transport,
  queue, op,          \* operations waiting, and what the current one awaits
  made, kind, gen,    \* transports: how many, of which mode, of which generation
  on,                 \* `started` of a BLE transport, `running` of a mock
  slot,               \* activeStop
  late,               \* BLE transports with an execution suspended since before a stop
  reported            \* the portal store's connection

state      == <<ready, mode, phase, manuallyDisconnected>>
identity   == <<destroyed, generation, transport>>
transports == <<made, kind, gen>>
world      == <<on, slot, late, reported>>
controllerVars == <<state, identity, queue, op, transports, world>>

Modes       == {"live", "demo"}
ConnectionStates == {"disconnected", "connecting", "connected"}
Phases      == {"idle", "scanning", "connected", "locked"}   \* of BlePhase, what is told apart
NoPhase     == "null"
Ids         == 1 .. MaxTransports
Made        == 1 .. made

Requests ==
  {<<"configure", d>> : d \in BOOLEAN} \cup {<<"setMode", m>> : m \in Modes}
    \cup {<<"connect">>, <<"retry">>, <<"disconnect">>, <<"destroy">>}

ControllerTypeOK ==
  /\ ready \in BOOLEAN /\ manuallyDisconnected \in BOOLEAN /\ destroyed \in BOOLEAN
  /\ mode \in Modes /\ phase \in Phases \cup {NoPhase}
  /\ generation \in Nat
  /\ made \in 0 .. MaxTransports /\ transport \in 0 .. made /\ slot \in 0 .. made
  /\ kind \in [Ids -> Modes] /\ gen \in [Ids -> Nat] /\ on \in [Ids -> BOOLEAN]
  /\ late \subseteq {t \in Made : kind[t] = "live"}
  /\ queue \in Seq(Requests) /\ Len(queue) <= MaxQueue
  /\ op \in {"none", "replace", "retry", "disconnect", "destroy", "start"}
  /\ reported \in ConnectionStates

ControllerInit ==
  /\ ready = FALSE /\ mode = "demo" /\ phase = NoPhase /\ manuallyDisconnected = FALSE
  /\ destroyed = FALSE /\ generation = 0 /\ transport = 0
  /\ queue = <<>> /\ op = "none"
  /\ made = 0
  /\ kind = [t \in Ids |-> "demo"] /\ gen = [t \in Ids |-> 0] /\ on = [t \in Ids |-> FALSE]
  /\ slot = 0 /\ late = {} /\ reported = "disconnected"

-----------------------------------------------------------------------------
(* The transports, as far as the controller can tell.                       *)

\* start() of t, of kind k, up to its first await; assigns world.  The slot goes
\* over to t, and an owner that is not t is told to stop.
StartTransport(t, k) ==
  \/ /\ on[t]
     /\ UNCHANGED world
  \/ /\ ~on[t]
     /\ on' = [u \in Ids |-> u = t \/ (on[u] /\ u # slot)]
     /\ slot' = t
     /\ late' = late \cup {u \in Made : u = slot /\ kind[u] = "live"}
     /\ \/ k = "demo" /\ reported' = "connecting"
        \/ k = "live" /\ slot = 0 /\ UNCHANGED reported
        \/ k = "live" /\ slot # 0 /\ reported' = "disconnected"

\* A BLE transport that is stopped already does nothing; a mock always reports.
Stoppable(t) == t # 0 /\ (on[t] \/ kind[t] = "demo")

\* Mutant: stop() does not release the slot.
StopTransportKeepsSlot(t) ==
  \/ /\ Stoppable(t)
     /\ on' = [on EXCEPT ![t] = FALSE]
     /\ reported' = "disconnected"
     /\ late' = IF kind[t] = "live" THEN late \cup {t} ELSE late
     /\ UNCHANGED slot
  \/ /\ ~Stoppable(t)
     /\ UNCHANGED world

\* Mutant: the mock's stop() leaves its timers armed.
StopTransportKeepsTimers(t) ==
  \/ /\ Stoppable(t)
     /\ on' = [on EXCEPT ![t] = FALSE]
     /\ slot' = IF slot = t THEN 0 ELSE slot
     /\ reported' = "disconnected"
     /\ late' = late \cup {t}
  \/ /\ ~Stoppable(t)
     /\ UNCHANGED world

\* stop() of t up to its first await: all it changes is changed there; assigns
\* world.
StopTransport(t) ==
  \/ /\ Stoppable(t)
     /\ on' = [on EXCEPT ![t] = FALSE]
     /\ slot' = IF slot = t THEN 0 ELSE slot
     /\ reported' = "disconnected"
     /\ late' = IF kind[t] = "live" THEN late \cup {t} ELSE late
  \/ /\ ~Stoppable(t)
     /\ UNCHANGED world

\* The test that createTransport wraps around onPhase.
Hears(t) == gen[t] = generation /\ ~destroyed

\* The phase once t was stopped: a BLE transport that ran reports "idle".
PhaseAfterStop(t) ==
  IF t # 0 /\ kind[t] = "live" /\ on[t] /\ Hears(t) THEN "idle" ELSE phase

-----------------------------------------------------------------------------
(* The operations, each up to its first await.                              *)

\* Mutant: the old transport is left to the slot's hand-off.
ReplaceTransportUnstopped(shown) ==
  /\ generation' = generation + 1
  /\ phase' = shown
  /\ op' = "replace"
  /\ UNCHANGED world

\* replaceTransport up to `await this.transport?.stop()`.
ReplaceTransport(shown) ==
  /\ generation' = generation + 1
  /\ StopTransport(transport)
  /\ phase' = shown
  /\ op' = "replace"

Configure(d) ==
  /\ ~ready
  /\ ready' = TRUE
  /\ mode' = IF CanBle /\ ~d THEN "live" ELSE "demo"
  /\ manuallyDisconnected' = FALSE
  /\ ReplaceTransport(phase)
  /\ UNCHANGED <<destroyed, transport, transports>>

\* A controller that is ready has a transport: configure creates the first.
Connect ==
  /\ ready
  /\ manuallyDisconnected' = FALSE
  /\ StartTransport(transport, kind[transport])
  /\ op' = "start"
  /\ UNCHANGED <<ready, mode, phase, identity, transports>>

\* Mutant: retry() leaves the manual disconnect in force.
RetryStaysDisconnected ==
  /\ ready
  /\ StopTransport(transport)
  /\ phase' = PhaseAfterStop(transport)
  /\ op' = "retry"
  /\ UNCHANGED <<ready, mode, manuallyDisconnected, identity, transports>>

Retry ==
  /\ ready
  /\ manuallyDisconnected' = FALSE
  /\ StopTransport(transport)
  /\ phase' = PhaseAfterStop(transport)
  /\ op' = "retry"
  /\ UNCHANGED <<ready, mode, identity, transports>>

Disconnect ==
  /\ ready
  /\ manuallyDisconnected' = TRUE
  /\ StopTransport(transport)
  /\ phase' = PhaseAfterStop(transport)
  /\ op' = "disconnect"
  /\ UNCHANGED <<ready, mode, identity, transports>>

\* Mutant: the mode in force is confirmed, and the transport not started again.
SetSameModeNoStart ==
  /\ manuallyDisconnected' = FALSE
  /\ UNCHANGED <<ready, mode, phase, identity, transports, world, op>>

\* The mode that was asked for is the one in force.
SetSameMode ==
  /\ \/ /\ manuallyDisconnected
        /\ StartTransport(transport, kind[transport])
        /\ op' = "start"
     \/ /\ ~manuallyDisconnected
        /\ UNCHANGED <<world, op>>
  /\ manuallyDisconnected' = FALSE
  /\ UNCHANGED <<ready, mode, phase, identity, transports>>

\* Mutant: the generation is left to createTransport, after the await.
SetOtherModeSameGeneration(m) ==
  /\ mode' = m /\ manuallyDisconnected' = FALSE
  /\ StopTransport(transport)
  /\ phase' = NoPhase
  /\ op' = "replace"
  /\ UNCHANGED <<ready, destroyed, generation, transport, transports>>

SetOtherMode(m) ==
  /\ mode' = m /\ manuallyDisconnected' = FALSE
  /\ ReplaceTransport(NoPhase)
  /\ UNCHANGED <<ready, destroyed, transport, transports>>

SetMode(requested) ==
  LET m == IF CanBle THEN requested ELSE "demo"
  IN  /\ ready
      /\ \/ m = mode /\ SetSameMode
         \/ m # mode /\ SetOtherMode(m)

Destroy ==
  /\ destroyed' = TRUE
  /\ generation' = generation + 1
  /\ StopTransport(transport)
  /\ op' = "destroy"
  /\ UNCHANGED <<state, transport, transports>>

\* An operation that comes too early or too late returns at once.
Ignored(r) ==
  \/ destroyed
  \/ r[1] = "configure" /\ ready
  \/ r[1] \in {"connect", "retry", "disconnect", "setMode"} /\ ~ready

Perform(r) ==
  \/ /\ Ignored(r)
     /\ UNCHANGED <<state, identity, op, transports, world>>
  \/ /\ ~Ignored(r)
     /\ \/ r[1] = "configure"  /\ Configure(r[2])
        \/ r[1] = "setMode"    /\ SetMode(r[2])
        \/ r[1] = "connect"    /\ Connect
        \/ r[1] = "retry"      /\ Retry
        \/ r[1] = "disconnect" /\ Disconnect
        \/ r[1] = "destroy"    /\ Destroy

-----------------------------------------------------------------------------
(* The queue.                                                               *)

\* Only these operations create a transport, one each; for the bound, every
\* operation that waits is taken for one of them.
Creates(r) == r[1] \in {"configure", "setMode"}
ToCreate   == Len(queue) + (IF op = "replace" THEN 1 ELSE 0)

Ask(r) ==
  /\ Len(queue) < MaxQueue
  /\ Creates(r) => made + ToCreate < MaxTransports
  /\ queue' = Append(queue, r)
  /\ UNCHANGED <<state, identity, op, transports, world>>

\* The operation at the head of the queue begins when the one before it is over.
Begin ==
  /\ op = "none" /\ queue # <<>>
  /\ queue' = Tail(queue)
  /\ Perform(Head(queue))

\* createTransport and start(), after the await of replaceTransport.
ReplaceResumes ==
  /\ op = "replace"
  /\ LET t == made + 1
         g == generation + 1
     IN  /\ generation' = g
         /\ made' = t /\ transport' = t
         /\ kind' = [kind EXCEPT ![t] = mode] /\ gen' = [gen EXCEPT ![t] = g]
         /\ phase' = IF mode = "demo" THEN NoPhase ELSE phase
         /\ StartTransport(t, mode)
  /\ op' = "start"
  /\ UNCHANGED <<ready, mode, manuallyDisconnected, destroyed, queue>>

RetryResumes ==
  /\ op = "retry"
  /\ StartTransport(transport, kind[transport])
  /\ op' = "start"
  /\ UNCHANGED <<state, identity, queue, transports>>

DestroyResumes ==
  /\ op = "destroy"
  /\ transport' = 0
  /\ op' = "none"
  /\ UNCHANGED <<state, destroyed, generation, queue, transports, world>>

\* The last await of an operation settles, fulfilled or rejected: enqueue()
\* goes on with the next one in either case.
Finishes ==
  /\ op \in {"disconnect", "start"}
  /\ op' = "none"
  /\ UNCHANGED <<state, identity, queue, transports, world>>

-----------------------------------------------------------------------------
(* What the transports do of their own accord.                              *)

\* The mock's first timer; stop() clears it.
MockConnects(t) ==
  /\ on[t] /\ kind[t] = "demo" /\ reported = "connecting"
  /\ reported' = "connected"
  /\ UNCHANGED <<state, identity, queue, op, transports, on, slot, late>>

\* A BLE transport that runs, or an execution of it that a stop left behind,
\* reports a phase, a connection, or both.
BleReports(t) ==
  /\ kind[t] = "live" /\ (on[t] \/ t \in late)
  /\ phase' \in IF Hears(t) THEN Phases \cup {phase} ELSE {phase}
  /\ reported' \in ConnectionStates
  /\ UNCHANGED <<ready, mode, manuallyDisconnected, identity, queue, op, transports, on, slot, late>>

\* The locked path stops the transport from inside, and reports "locked" later.
BleLocks(t) ==
  /\ kind[t] = "live" /\ on[t]
  /\ StopTransport(t)
  /\ phase' = PhaseAfterStop(t)
  /\ UNCHANGED <<ready, mode, manuallyDisconnected, identity, queue, op, transports>>

LateSettles(t) ==
  /\ t \in late
  /\ late' = late \ {t}
  /\ UNCHANGED <<state, identity, queue, op, transports, on, slot, reported>>

-----------------------------------------------------------------------------
Resumes == ReplaceResumes \/ RetryResumes \/ DestroyResumes \/ Finishes

ControllerNext ==
  \/ \E r \in Requests : Ask(r)
  \/ Begin \/ Resumes
  \/ \E t \in Made : MockConnects(t) \/ BleReports(t) \/ BleLocks(t) \/ LateSettles(t)

ControllerSpec == ControllerInit /\ [][ControllerNext]_controllerVars
-----------------------------------------------------------------------------
(* Properties.                                                              *)

Running == {t \in Made : on[t]}

\* The mock and the BLE transport feed one store, so one runs at a time: only
\* the transport the controller holds can, and the slot names exactly it
\* (replaceTransport awaits stop(), claimActiveTransport, releaseActiveTransport).
OneTransport == Running \subseteq {transport} /\ Running = {slot} \ {0}

\* The hand-off that claimActiveTransport offers is never used: a transport is
\* told to stop, and its stop() awaited, before the next one takes the slot.
SlotPassesThroughFree == [][slot # 0 => slot' \in {0, slot}]_controllerVars

\* In demo mode no phase is shown, whatever a BLE transport that was replaced,
\* or is being stopped, still reports (the generation in createTransport).
DemoHasNoPhase == mode = "demo" => phase = NoPhase

\* Between operations the controller's state describes its transport: it is of
\* the mode that is shown, after a manual disconnect or the end it does not run,
\* and a demo that nobody disconnected does run.
DescribesTransport ==
  op = "none" =>
    /\ ready /\ ~destroyed => kind[transport] = mode
    /\ manuallyDisconnected \/ destroyed => Running = {}
    /\ ready /\ ~destroyed /\ ~manuallyDisconnected /\ mode = "demo" => on[transport]

\* No transport starts while a manual disconnect is in force or after the end,
\* in whatever order the operations were asked for (enqueue).
StartsOnlyWhenWanted ==
  [][\A t \in Ids : ~on[t] /\ on'[t] => ~manuallyDisconnected' /\ ~destroyed']_controllerVars
=============================================================================
