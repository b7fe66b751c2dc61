------------------------------ MODULE BlePortal ------------------------------
(***************************************************************************)
(* The lifecycle of the BLE transport, createBlePortal in                  *)
(* apps/mobile/src/ble/blePortal.ts.  JavaScript runs one callback at a    *)
(* time, so an action is what runs between two awaits: a timer, a native   *)
(* callback, or the continuation of one awaited native call.               *)
(*                                                                         *)
(* A "flow" is one execution of attemptReconnectOrScan and of the          *)
(* subscribeToPortal it leads to; nothing in the code stops a second one   *)
(* from starting while an earlier one is suspended, so a flow has its own  *)
(* program counter and its own locals.                                     *)
(*                                                                         *)
(* Abstracted: payloads, logging, readFirmware (best effort, changes no    *)
(* state) and autoReconnect = false (the application never passes it).     *)
(* The controller builds a transport only where isBleAvailable() holds.    *)
(***************************************************************************)
EXTENDS Naturals

CONSTANTS
  Flows,        \* identities for suspended executions (a bound on how many)
  MaxRetries,   \* DEFAULT_RETRY_POLICY.maxRetries
  OffStates,    \* adapter states in which there is no radio to use
  Services      \* GATT services the portal lists; "telemetry" is the useful one

ASSUME MaxRetriesAssumption == MaxRetries \in Nat
ASSUME OffStatesAssumption ==
  OffStates \subseteq {"poweredOff", "unauthorized", "unsupported"}
ASSUME ServicesAssumption == "telemetry" \in Services

VARIABLES
  started, slot, caller,                  \* the run, the active slot, the controller's call
  scanning, scanTimer, scanSub, scanStart,  \* scanStart: startDeviceScan not settled yet
  connecting, device, lastDevice,         \* device # null, lastDeviceId # null
  stateSub, dropSub, monitors,            \* subscriptions held
  attempts, retryTimer,
  phase, conn,                            \* what onPhase and setConnection last said
  radio, link, dropEvent, firmware,       \* the native side and the portal
  pc, left, seen, mpidSubs                \* per flow: where it awaits, and its locals

run   == <<started, slot, caller>>
scan  == <<scanning, scanTimer, scanSub, scanStart>>
dev   == <<connecting, device, lastDevice>>
subs  == <<stateSub, dropSub, monitors>>
retry == <<attempts, retryTimer>>
out   == <<phase, conn>>
nat   == <<radio, link, dropEvent, firmware>>
flow  == <<pc, left, seen, mpidSubs>>
vars  == <<run, scan, dev, subs, retry, out, nat, flow>>

BusyPhases == {"scanning", "connecting", "discovering", "authenticating", "reconnecting"}
Phases == BusyPhases \cup {"idle", "unsupported", "poweredOff", "unauthorized",
                           "connected", "locked", "notFound", "error"}
Connections == {"disconnected", "connecting", "connected"}
Awaits == {"none", "devices", "connect", "discover", "services", "chars", "mpid",
           "lockScan", "lockCancel"}
Firmwares == {"legacy", "mpid", "gated"}

RunOK  == /\ started \in BOOLEAN /\ slot \in BOOLEAN
          /\ caller \in {"none", "permissions", "stopScan", "cancel"}
ScanOK == /\ scanning \in BOOLEAN /\ scanTimer \in BOOLEAN
          /\ scanSub \in BOOLEAN /\ scanStart \in BOOLEAN
DevOK  == connecting \in BOOLEAN /\ device \in BOOLEAN /\ lastDevice \in BOOLEAN
SubsOK == /\ stateSub \in {"none", "fresh", "live"}
          /\ dropSub \in BOOLEAN /\ monitors \in BOOLEAN
OutOK  == phase \in Phases /\ conn \in Connections
NatOK  == /\ radio \in OffStates \cup {"poweredOn"}
          /\ link \in {"down", "opening", "up"} /\ dropEvent \in BOOLEAN
          /\ firmware \in Firmwares
FlowOK == /\ pc \in [Flows -> Awaits]
          /\ left \in [Flows -> SUBSET Services]
          /\ seen \in [Flows -> {"nothing", "legacy", "mpid"}]
          /\ mpidSubs \in [Flows -> BOOLEAN]

StateOK == /\ RunOK /\ ScanOK /\ DevOK /\ SubsOK
           /\ retryTimer \in BOOLEAN
           /\ OutOK /\ NatOK /\ FlowOK

BudgetOK == attempts \in 0..MaxRetries

\* The variables keep their types; the retry counter never passes the budget.
TypeOK == StateOK /\ BudgetOK

Init ==
  /\ started = FALSE /\ slot = FALSE /\ caller = "none"
  /\ scanning = FALSE /\ scanTimer = FALSE /\ scanSub = FALSE /\ scanStart = FALSE
  /\ connecting = FALSE /\ device = FALSE /\ lastDevice = FALSE
  /\ stateSub = "none" /\ dropSub = FALSE /\ monitors = FALSE
  /\ attempts = 0 /\ retryTimer = FALSE
  /\ phase = "idle" /\ conn = "disconnected"
  /\ radio \in OffStates \cup {"poweredOn"}
  /\ link = "down" /\ dropEvent = FALSE
  /\ firmware \in Firmwares
  /\ pc = [f \in Flows |-> "none"]
  /\ left = [f \in Flows |-> {}]
  /\ seen = [f \in Flows |-> "nothing"]
  /\ mpidSubs = [f \in Flows |-> FALSE]

-----------------------------------------------------------------------------
(* Functions of the transport that several handlers call.  Each comment     *)
(* names the groups of variables the operator assigns.                      *)

\* retryDelay(reconnectAttempts) is a delay, not null.
BudgetLeft == attempts < MaxRetries

\* Mutant: the budget is exceeded by one.
ScheduleReconnectOnceMore(terminal) ==
  /\ conn' = "disconnected"
  /\ \/ /\ attempts <= MaxRetries
        /\ attempts' = attempts + 1
        /\ retryTimer' = TRUE
        /\ phase' = "reconnecting"
     \/ /\ attempts > MaxRetries
        /\ retryTimer' = FALSE
        /\ phase' = terminal
        /\ UNCHANGED attempts

\* assigns retry, out.  Callers have just reported "disconnected".
ScheduleReconnect(terminal) ==
  /\ conn' = "disconnected"
  /\ \/ /\ BudgetLeft
        /\ attempts' = attempts + 1
        /\ retryTimer' = TRUE
        /\ phase' = "reconnecting"
     \/ /\ ~BudgetLeft
        /\ retryTimer' = FALSE
        /\ phase' = terminal
        /\ UNCHANGED attempts

\* assigns connecting, retry, out.
MarkConnected ==
  /\ connecting' = FALSE
  /\ attempts' = 0
  /\ phase' = "connected"
  /\ conn' = "connected"
  /\ UNCHANGED retryTimer

\* The body of beginScan past its guard; assigns scan, out.
OpenScan ==
  /\ scanning' = TRUE
  /\ scanTimer' = TRUE
  /\ scanSub' = TRUE
  /\ scanStart' = TRUE
  /\ phase' = IF attempts > 0 THEN "reconnecting" ELSE "scanning"
  /\ conn' = "connecting"

\* Mutant: a scan is begun without asking whether the transport still runs.
BeginScanEvenStopped ==
  IF ~connecting /\ ~device THEN OpenScan ELSE UNCHANGED <<scan, out>>

\* assigns scan, out.
BeginScan ==
  IF started /\ ~connecting /\ ~device
    THEN OpenScan
    ELSE UNCHANGED <<scan, out>>

\* subscribeToPortal up to its first await, by flow f; assigns dev, out, pc, link.
SubscribeToPortal(f) ==
  /\ connecting' = TRUE /\ device' = TRUE /\ lastDevice' = TRUE
  /\ phase' = "connecting"
  /\ conn' = "connecting"
  /\ pc' = [pc EXCEPT ![f] = "connect"]
  /\ link' = IF link = "down" /\ radio = "poweredOn" THEN "opening" ELSE link

\* stop() up to its first await, when it is running; assigns started, slot,
\* scan, dev, subs, retry, out, dropEvent.
StopNow ==
  /\ started' = FALSE /\ slot' = FALSE
  /\ scanning' = FALSE /\ scanTimer' = FALSE /\ scanSub' = FALSE
  /\ connecting' = FALSE /\ device' = FALSE
  /\ stateSub' = "none" /\ dropSub' = FALSE /\ monitors' = FALSE
  /\ attempts' = 0 /\ retryTimer' = FALSE
  /\ phase' = "idle" /\ conn' = "disconnected"
  /\ dropEvent' = FALSE
  /\ UNCHANGED <<scanStart, lastDevice>>

\* manager.cancelDeviceConnection: the link goes down, and a listener that is
\* installed will hear of it; assigns link, dropEvent.
CancelLink ==
  /\ link' = "down"
  /\ dropEvent' = (dropEvent \/ (link = "up" /\ dropSub))

\* handleState(s); assigns scan, retryTimer, out.
HandleState(s) ==
  \/ /\ s = "poweredOn"
     /\ IF scanning THEN UNCHANGED <<scan, out>> ELSE BeginScan
     /\ UNCHANGED retryTimer
  \/ /\ s \in OffStates
     /\ scanning' = FALSE /\ scanTimer' = FALSE /\ scanSub' = FALSE
     /\ retryTimer' = FALSE
     /\ phase' = s
     /\ conn' = "disconnected"
     /\ UNCHANGED scanStart

-----------------------------------------------------------------------------
(* start() and stop(), called by the controller one at a time.              *)

Start ==
  /\ caller = "none" /\ ~started
  /\ started' = TRUE /\ slot' = TRUE
  /\ caller' = "permissions"
  /\ UNCHANGED <<scan, dev, subs, retry, out, nat, flow>>

\* The rest of start(): `started` is not read again after the await.
PermissionsGranted ==
  /\ caller = "permissions"
  /\ caller' = "none"
  /\ stateSub' = "fresh"
  /\ UNCHANGED <<started, slot, scan, dev, dropSub, monitors, retry, out, nat, flow>>

PermissionsDenied ==
  /\ caller = "permissions"
  /\ caller' = "none"
  /\ phase' = "unauthorized"
  /\ UNCHANGED <<started, slot, scan, dev, subs, retry, conn, nat, flow>>

Stop ==
  /\ caller = "none" /\ started
  /\ StopNow
  /\ caller' = "stopScan"
  /\ UNCHANGED <<radio, link, firmware, flow>>

StopCancels ==
  /\ caller = "stopScan"
  /\ IF lastDevice
       THEN caller' = "cancel" /\ CancelLink
       ELSE caller' = "none" /\ UNCHANGED <<link, dropEvent>>
  /\ UNCHANGED <<started, slot, scan, dev, subs, retry, out, radio, firmware, flow>>

StopReturns ==
  /\ caller = "cancel"
  /\ caller' = "none"
  /\ UNCHANGED <<started, slot, scan, dev, subs, retry, out, nat, flow>>

-----------------------------------------------------------------------------
(* The adapter.                                                             *)

\* onStateChange(_, true) reports the current state after it returns, before the
\* adapter changes again.
EmitCurrentState ==
  /\ stateSub = "fresh"
  /\ stateSub' = "live"
  /\ HandleState(radio)
  /\ UNCHANGED <<run, dev, dropSub, monitors, attempts, nat, flow>>

\* Without a radio there is no link; whether its listener is told is up to the OS.
RadioChanges(s) ==
  /\ s # radio /\ stateSub # "fresh"
  /\ radio' = s
  /\ IF s \in OffStates
       THEN link' = "down" /\ dropEvent' \in {dropEvent, dropEvent \/ (dropSub /\ link = "up")}
       ELSE UNCHANGED <<link, dropEvent>>
  /\ IF stateSub = "live"
       THEN HandleState(s)
       ELSE UNCHANGED <<scan, retryTimer, out>>
  /\ UNCHANGED <<run, dev, subs, attempts, firmware, flow>>

-----------------------------------------------------------------------------
(* Scanning.  The promise of startDeviceScan has settled by the time a scan  *)
(* reports a device or an error, a scan window of ten seconds ends, or a      *)
(* connection is established.                                                *)

ScanTimesOut ==
  /\ scanTimer
  /\ scanTimer' = FALSE
  /\ IF started /\ scanning
       THEN /\ scanning' = FALSE /\ scanSub' = FALSE
            /\ ScheduleReconnect("notFound")
       ELSE UNCHANGED <<scanning, scanSub, retry, out>>
  /\ scanStart' = FALSE
  /\ UNCHANGED <<run, dev, subs, nat, flow>>

\* The three places that report a failed scan or connection end alike.
FailScan ==
  IF started
    THEN ScheduleReconnect("error")
    ELSE conn' = "disconnected" /\ phase' = "error" /\ UNCHANGED retry

ScanErrors ==
  /\ scanSub
  /\ scanning' = FALSE /\ scanTimer' = FALSE /\ scanSub' = FALSE
  /\ scanStart' = FALSE
  /\ FailScan
  /\ UNCHANGED <<run, dev, subs, nat, flow>>

ScanFinds(f) ==
  /\ scanSub /\ radio = "poweredOn" /\ link # "up"
  /\ started /\ scanning /\ ~connecting
  /\ pc[f] = "none"
  /\ scanning' = FALSE /\ scanTimer' = FALSE /\ scanSub' = FALSE
  /\ scanStart' = FALSE
  /\ SubscribeToPortal(f)
  /\ UNCHANGED <<run, subs, retry, radio, dropEvent, firmware, left, seen, mpidSubs>>

\* startDeviceScan settles.  Its rejection does not look at which scan is on; a
\* scan that could not start reports nothing.
ScanStarts ==
  /\ scanStart
  /\ scanStart' = FALSE
  /\ UNCHANGED <<run, scanning, scanTimer, scanSub, dev, subs, retry, out, nat, flow>>

ScanStartRejects ==
  /\ scanStart
  /\ scanStart' = FALSE
  /\ scanning' = FALSE /\ scanTimer' = FALSE /\ scanSub' = FALSE
  /\ FailScan
  /\ UNCHANGED <<run, dev, subs, nat, flow>>

-----------------------------------------------------------------------------
(* Reconnecting: the timer and attemptReconnectOrScan.                      *)

RetryFires(f) ==
  /\ retryTimer
  /\ retryTimer' = FALSE
  /\ \/ /\ ~started \/ connecting \/ device
        /\ UNCHANGED <<scan, out, pc>>
     \/ /\ started /\ ~connecting /\ ~device
        /\ ~lastDevice
        /\ BeginScan
        /\ UNCHANGED pc
     \/ /\ started /\ ~connecting /\ ~device
        /\ lastDevice
        /\ pc[f] = "none"
        /\ pc' = [pc EXCEPT ![f] = "devices"]
        /\ UNCHANGED <<scan, out>>
  /\ UNCHANGED <<run, dev, subs, attempts, nat, left, seen, mpidSubs>>

\* manager.devices found the portal: nothing is re-read before connecting to it.
DevicesKnown(f) ==
  /\ pc[f] = "devices"
  /\ SubscribeToPortal(f)
  /\ UNCHANGED <<run, scan, subs, retry, radio, dropEvent, firmware, left, seen, mpidSubs>>

\* manager.devices found nothing, or rejected.
DevicesUnknown(f) ==
  /\ pc[f] = "devices"
  /\ pc' = [pc EXCEPT ![f] = "none"]
  /\ BeginScan
  /\ UNCHANGED <<run, dev, subs, retry, nat, left, seen, mpidSubs>>

-----------------------------------------------------------------------------
(* subscribeToPortal, one await after the other.                            *)

\* `if (!started) return` at the head of a continuation.
Abandons(f) ==
  /\ ~started
  /\ pc' = [pc EXCEPT ![f] = "none"]
  /\ UNCHANGED <<scan, dev, subs, retry, out>>

\* Mutant: the budget is refunded as soon as a link is up.
ConnectResolvesRefunds(f) ==
  /\ pc[f] = "connect" /\ link # "down" /\ radio = "poweredOn"
  /\ link' = "up"
  /\ scanStart' = FALSE
  /\ pc' = [pc EXCEPT ![f] = IF started THEN "discover" ELSE "none"]
  /\ phase' = IF started THEN "discovering" ELSE phase
  /\ attempts' = 0
  /\ UNCHANGED <<run, scanning, scanTimer, scanSub, dev, subs, retryTimer, conn, radio, dropEvent, firmware, left, seen, mpidSubs>>

ConnectResolves(f) ==
  /\ pc[f] = "connect" /\ link # "down" /\ radio = "poweredOn"
  /\ link' = "up"
  /\ scanStart' = FALSE
  /\ pc' = [pc EXCEPT ![f] = IF started THEN "discover" ELSE "none"]
  /\ phase' = IF started THEN "discovering" ELSE phase
  /\ UNCHANGED <<run, scanning, scanTimer, scanSub, dev, subs, retry, conn, radio, dropEvent, firmware, left, seen, mpidSubs>>

\* The disconnect listener is installed only here, replacing an earlier one.
DiscoverResolves(f) ==
  /\ pc[f] = "discover" /\ link = "up"
  /\ \/ Abandons(f) /\ UNCHANGED dropEvent
     \/ /\ started
        /\ dropSub' = TRUE /\ dropEvent' = FALSE
        /\ monitors' = FALSE
        /\ pc' = [pc EXCEPT ![f] = "services"]
        /\ UNCHANGED <<scan, dev, stateSub, retry, out>>
  /\ UNCHANGED <<run, radio, link, firmware, left, seen, mpidSubs>>

ServicesResolve(f) ==
  /\ pc[f] = "services" /\ link = "up"
  /\ \/ Abandons(f) /\ UNCHANGED left
     \/ /\ started
        /\ pc' = [pc EXCEPT ![f] = "chars"]
        /\ left' = [left EXCEPT ![f] = Services]
        /\ UNCHANGED <<scan, dev, subs, retry, out>>
  /\ UNCHANGED <<run, nat, seen, mpidSubs>>

\* Mutant: the catch does not clear `connecting`.
FlowFailsStillConnecting(f) ==
  /\ pc[f] \in {"connect", "discover", "services"}
  /\ pc' = [pc EXCEPT ![f] = "none"]
  /\ link' = IF pc[f] = "connect" /\ link = "opening" THEN "down" ELSE link
  /\ IF started
       THEN device' = FALSE /\ ScheduleReconnect("error")
       ELSE UNCHANGED <<device, retry, out>>
  /\ UNCHANGED <<run, scan, connecting, lastDevice, subs, radio, dropEvent, firmware, left, seen, mpidSubs>>

\* The catch around connect, discover and servicesForDevice.
FlowFails(f) ==
  /\ pc[f] \in {"connect", "discover", "services"}
  /\ pc' = [pc EXCEPT ![f] = "none"]
  /\ link' = IF pc[f] = "connect" /\ link = "opening" THEN "down" ELSE link
  /\ IF started
       THEN /\ connecting' = FALSE /\ device' = FALSE
            /\ ScheduleReconnect("error")
       ELSE UNCHANGED <<connecting, device, retry, out>>
  /\ UNCHANGED <<run, scan, lastDevice, subs, radio, dropEvent, firmware, left, seen, mpidSubs>>

\* No telemetry: `await stop(); phase("locked")`.  A stop() that finds the
\* transport stopped returns at once.  Assigns everything but caller, the
\* adapter and the portal.
LockDown(f) ==
  /\ started
  /\ StopNow
  /\ pc' = [pc EXCEPT ![f] = "lockScan"]

FallToLocked(f) ==
  \/ LockDown(f)
  \/ /\ ~started
     /\ phase' = "locked"
     /\ pc' = [pc EXCEPT ![f] = "none"]
     /\ UNCHANGED <<started, slot, scan, dev, subs, retry, conn, dropEvent>>

\* Mutant: a portal without the notify characteristics is tried over MPID.
AfterEnumerationTriesMpid(f, found, listening) ==
  \/ /\ found = "legacy"
     /\ MarkConnected
     /\ pc' = [pc EXCEPT ![f] = "none"]
     /\ monitors' = listening
     /\ UNCHANGED <<started, slot, scan, device, lastDevice, stateSub, dropSub, dropEvent, mpidSubs>>
  \/ /\ found # "legacy"
     /\ phase' = "authenticating"
     /\ pc' = [pc EXCEPT ![f] = "mpid"]
     /\ monitors' = listening
     /\ mpidSubs' = [mpidSubs EXCEPT ![f] = TRUE]
     /\ UNCHANGED <<started, slot, scan, dev, stateSub, dropSub, retry, conn, dropEvent>>

\* What follows the loop over services, in the step that ends it: `found` is
\* what the loop saw, `listening` whether monitors are on.  runMpidSession
\* attaches monitors of its own before its first await; until it resolves they
\* are not among those of the transport.  Assigns mpidSubs and all that
\* FallToLocked does.
AfterEnumeration(f, found, listening) ==
  \/ /\ found = "legacy"
     /\ MarkConnected
     /\ pc' = [pc EXCEPT ![f] = "none"]
     /\ monitors' = listening
     /\ UNCHANGED <<started, slot, scan, device, lastDevice, stateSub, dropSub, dropEvent, mpidSubs>>
  \/ /\ found = "mpid"
     /\ phase' = "authenticating"
     /\ pc' = [pc EXCEPT ![f] = "mpid"]
     /\ monitors' = listening
     /\ mpidSubs' = [mpidSubs EXCEPT ![f] = TRUE]
     /\ UNCHANGED <<started, slot, scan, dev, stateSub, dropSub, retry, conn, dropEvent>>
  \/ found = "nothing" /\ FallToLocked(f) /\ UNCHANGED mpidSubs

\* One more service enumerated, with what it showed: another await, or the end.
NextService(f, s, found, listening) ==
  /\ left' = [left EXCEPT ![f] = @ \ {s}]
  /\ \/ /\ left[f] # {s}
        /\ seen' = [seen EXCEPT ![f] = found]
        /\ monitors' = listening
        /\ UNCHANGED <<started, slot, scan, dev, stateSub, dropSub, retry, out, dropEvent, pc, mpidSubs>>
     \/ /\ left[f] = {s}
        /\ seen' = [seen EXCEPT ![f] = "nothing"]
        /\ AfterEnumeration(f, found, listening)

CharsResolve(f, s) ==
  /\ pc[f] = "chars" /\ s \in left[f] /\ link = "up"
  /\ \/ /\ Abandons(f)
        /\ left' = [left EXCEPT ![f] = {}]
        /\ seen' = [seen EXCEPT ![f] = "nothing"]
        /\ UNCHANGED <<started, slot, dropEvent, mpidSubs>>
     \/ /\ started
        /\ IF s = "telemetry" /\ firmware # "gated"
             THEN NextService(f, s, firmware, monitors \/ firmware = "legacy")
             ELSE NextService(f, s, seen[f], monitors)
  /\ UNCHANGED <<caller, radio, link, firmware>>

\* characteristicsForDevice reads a table the native side holds, and rejects
\* when the device is gone.  The handler is `continue`: `started` is not read.
CharsReject(f, s) ==
  /\ pc[f] = "chars" /\ s \in left[f] /\ link # "up"
  /\ NextService(f, s, seen[f], monitors)
  /\ UNCHANGED <<caller, radio, link, firmware>>

\* Mutant: a handshake that resolves for a stopped transport just returns.
MpidResolvesUnremoved(f) ==
  /\ pc[f] = "mpid" /\ link = "up"
  /\ \/ Abandons(f) /\ UNCHANGED mpidSubs
     \/ /\ started
        /\ MarkConnected
        /\ monitors' = TRUE
        /\ mpidSubs' = [mpidSubs EXCEPT ![f] = FALSE]
        /\ pc' = [pc EXCEPT ![f] = "none"]
        /\ UNCHANGED <<scan, device, lastDevice, stateSub, dropSub>>
  /\ UNCHANGED <<run, nat, left, seen>>

\* The handshake's monitors become the transport's, or are removed.
MpidResolves(f) ==
  /\ pc[f] = "mpid" /\ link = "up"
  /\ mpidSubs' = [mpidSubs EXCEPT ![f] = FALSE]
  /\ \/ Abandons(f)
     \/ /\ started
        /\ MarkConnected
        /\ monitors' = TRUE
        /\ pc' = [pc EXCEPT ![f] = "none"]
        /\ UNCHANGED <<scan, device, lastDevice, stateSub, dropSub>>
  /\ UNCHANGED <<run, nat, left, seen>>

\* runMpidSession removes its monitors before it throws.
MpidFails(f) ==
  /\ pc[f] = "mpid"
  /\ mpidSubs' = [mpidSubs EXCEPT ![f] = FALSE]
  /\ \/ Abandons(f) /\ UNCHANGED <<started, slot, dropEvent>>
     \/ LockDown(f)
  /\ UNCHANGED <<caller, radio, link, firmware, left, seen>>

\* The rest of the stop() that the locked path awaits, then phase("locked").
LockCancels(f) ==
  /\ pc[f] = "lockScan"
  /\ pc' = [pc EXCEPT ![f] = "lockCancel"]
  /\ CancelLink
  /\ UNCHANGED <<run, scan, dev, subs, retry, out, radio, firmware, left, seen, mpidSubs>>

LockReturns(f) ==
  /\ pc[f] = "lockCancel"
  /\ pc' = [pc EXCEPT ![f] = "none"]
  /\ phase' = "locked"
  /\ UNCHANGED <<run, scan, dev, subs, retry, conn, nat, left, seen, mpidSubs>>

-----------------------------------------------------------------------------
(* The link.                                                                *)

LinkDrops ==
  /\ link = "up"
  /\ CancelLink
  /\ UNCHANGED <<run, scan, dev, subs, retry, out, radio, firmware, flow>>

\* onDisconnected.  `connecting` keeps the value it has.
DropDelivered ==
  /\ dropEvent
  /\ dropEvent' = FALSE
  /\ IF started
       THEN /\ device' = FALSE /\ monitors' = FALSE
            /\ ScheduleReconnect("error")
       ELSE UNCHANGED <<device, monitors, retry, out>>
  /\ UNCHANGED <<run, scan, connecting, lastDevice, stateSub, dropSub, radio, link, firmware, flow>>

-----------------------------------------------------------------------------
FlowSteps(f) ==
  \/ DevicesKnown(f) \/ DevicesUnknown(f)
  \/ ConnectResolves(f) \/ DiscoverResolves(f) \/ ServicesResolve(f)
  \/ FlowFails(f)
  \/ \E s \in Services : CharsResolve(f, s) \/ CharsReject(f, s)
  \/ MpidResolves(f) \/ MpidFails(f)
  \/ LockCancels(f) \/ LockReturns(f)

Timers == ScanTimesOut \/ \E f \in Flows : RetryFires(f)

CallerSteps == PermissionsGranted \/ PermissionsDenied \/ StopCancels \/ StopReturns

ScanSteps == ScanErrors \/ ScanStarts \/ ScanStartRejects \/ \E f \in Flows : ScanFinds(f)

System ==
  \/ Start
  \/ CallerSteps
  \/ EmitCurrentState
  \/ \E s \in OffStates \cup {"poweredOn"} : RadioChanges(s)
  \/ ScanSteps
  \/ Timers
  \/ \E f \in Flows : FlowSteps(f)
  \/ LinkDrops \/ DropDelivered

Next == System \/ Stop

Spec == Init /\ [][Next]_vars
-----------------------------------------------------------------------------
(* Safety.                                                                  *)

Disarmed ==
  ~started => /\ ~scanTimer /\ ~retryTimer
              /\ ~scanSub /\ ~dropSub /\ ~monitors /\ ~dropEvent
              /\ ~slot

HandshakeMonitorsEnd == \A f \in Flows : mpidSubs[f] => pc[f] = "mpid"

\* Nothing is armed in a transport that is not running: no timer, no scan or
\* disconnect listener, no monitor among its own, and the active-transport slot
\* is free for another one (stop, every timer body).  Two things a stop does not
\* reach.  The monitors of a handshake under way drop what they hear while the
\* transport is stopped (mpidBle.ts:99), and never outlive the handshake: however
\* it ends, they are removed or become the transport's (mpidBle.ts:137,
\* blePortal.ts:327-337).  The adapter listener of a start() that a stop overtook
\* in its permission prompt (blePortal.ts:575) stays, and arms nothing.
DisarmedWhenStopped == Disarmed /\ HandshakeMonitorsEnd

\* A scan always has a running transport behind it, a native listener to find
\* the portal with and a deadline that will end it (beginScan and the handlers
\* that end a scan, in any order of adapter events and stale rejections).
ScanHasDeadline ==
  scanning => started /\ scanTimer /\ scanSub

\* A portal that offers neither telemetry path is never reported connected,
\* whatever overlapping connection attempts and link drops there were.
GatedNeverConnected ==
  firmware = "gated" => conn # "connected" /\ phase \notin {"connected", "authenticating"}

\* Only a stop or a successful subscription refunds the retry budget: no
\* sequence of adapter events, late answers and failures retries for ever
\* ("Successful subscription resets the budget", ble-and-protocol.md).
BudgetRefundedBySuccess ==
  [][attempts' < attempts => ~started' \/ conn' = "connected"]_vars

-----------------------------------------------------------------------------
(* Progress.  The status pill offers no action while the transport is busy   *)
(* (selectors.ts), so a transport that stays busy cannot be rescued by hand. *)

Busy == conn = "connecting" \/ phase \in BusyPhases

\* Nobody calls stop().  A native call settles, a timer fires, an event that was
\* raised is delivered; nothing forces the link to drop, the adapter to change or
\* a scan to find the portal.
Unattended ==
  /\ Init /\ [][System]_vars
  /\ WF_vars(CallerSteps) /\ WF_vars(EmitCurrentState)
  /\ WF_vars(ScanTimesOut) /\ WF_vars(\E f \in Flows : RetryFires(f))
  /\ WF_vars(DropDelivered)
  /\ \A f \in Flows : WF_vars(FlowSteps(f))

\* Two attempts to reach the portal at the same time: a scan and a re-attach,
\* or two suspended executions.
Overlap ==
  \/ scanning /\ (retryTimer \/ \E f \in Flows : pc[f] = "devices")
  \/ \E f, g \in Flows : f # g /\ pc[f] # "none" /\ pc[g] # "none"

\* Left alone, a busy transport always comes to rest, connected or in a phase
\* that says why not (scans time out, retries run out, a handshake settles),
\* unless two attempts overlap; what happens then is ReconnectOnlyAfterDrop's.
BusyResolves == []~Overlap => (Busy ~> ~Busy)

-----------------------------------------------------------------------------
(* What the comments and the documents say, and the code does not do.        *)

\* "A manual stop/handoff cancels an in-flight native connect/discovery.  That
\* rejection is expected and must not overwrite the controller's idle state."
IdleAfterStop ==
  [][\A f \in Flows :
       /\ ~started
       /\ pc[f] \in {"connect", "discover", "services", "chars", "mpid"}
       /\ pc'[f] # pc[f]
       => UNCHANGED <<phase, conn>>]_vars

\* "Automatic reconnect will stay paused until you connect again": a stopped
\* transport opens no connection.
ReconnectStaysPaused ==
  [][~started => ~(link = "down" /\ link' = "opening")]_vars

\* "On unexpected disconnect, retry with capped exponential backoff": a link
\* that is lost while the portal is being examined does not end in the locked path.
DropIsNotLocked ==
  [][\A f \in Flows : pc[f] # "lockScan" /\ pc'[f] = "lockScan" => link = "up"]_vars

\* "Reconnect automatically after an unexpected drop": an established connection
\* is given up for a retry only when the link or the adapter is gone.
ReconnectOnlyAfterDrop ==
  [][conn = "connected" /\ phase' = "reconnecting" => link # "up"]_vars
=============================================================================
