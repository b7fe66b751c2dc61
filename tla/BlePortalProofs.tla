--------------------------- MODULE BlePortalProofs ---------------------------
(***************************************************************************)
(* Theorems of BlePortal, for every bound on flows, retries and services.  *)
(* The counter `attempts` is kept apart from the other variables: its       *)
(* steps need arithmetic, theirs need sets and strings only.                *)
(***************************************************************************)
EXTENDS BlePortal, TLAPS

-----------------------------------------------------------------------------
(* The retry budget.                                                        *)

\* What one step may do to the counter.
BudgetStep ==
  \/ attempts' = attempts
  \/ attempts' = 0 /\ (~started' \/ conn' = "connected")
  \/ attempts < MaxRetries /\ attempts' = attempts + 1

LEMMA FlowBudget ==
  ASSUME NEW f \in Flows, FlowSteps(f)
  PROVE  BudgetStep
<1>1. CASE DevicesKnown(f) \/ DevicesUnknown(f) \/ ConnectResolves(f)
           \/ DiscoverResolves(f) \/ ServicesResolve(f) \/ LockCancels(f) \/ LockReturns(f)
  BY <1>1 DEF DevicesKnown, DevicesUnknown, ConnectResolves, DiscoverResolves,
       ServicesResolve, LockCancels, LockReturns, Abandons, BudgetStep, retry
<1>2. CASE FlowFails(f)
  BY <1>2 DEF FlowFails, ScheduleReconnect, BudgetLeft, BudgetStep, retry
<1>3. ASSUME NEW s \in Services, CharsResolve(f, s) \/ CharsReject(f, s)
      PROVE  BudgetStep
  BY <1>3 DEF CharsResolve, CharsReject, NextService, AfterEnumeration, FallToLocked,
       LockDown, StopNow, MarkConnected, Abandons, BudgetStep, retry
<1>4. CASE MpidResolves(f) \/ MpidFails(f)
  BY <1>4 DEF MpidResolves, MpidFails, LockDown, StopNow, MarkConnected, Abandons,
       BudgetStep, retry
<1>. QED  BY <1>1, <1>2, <1>3, <1>4 DEF FlowSteps

LEMMA NextBudget == [Next]_vars => BudgetStep
<1>. SUFFICES ASSUME [Next]_vars PROVE BudgetStep
  OBVIOUS
<1>1. CASE Start \/ CallerSteps
  BY <1>1 DEF Start, CallerSteps, PermissionsGranted, PermissionsDenied, StopCancels,
       StopReturns, BudgetStep, retry
<1>2. CASE Stop
  BY <1>2 DEF Stop, StopNow, BudgetStep
<1>3. CASE EmitCurrentState
  BY <1>3 DEF EmitCurrentState, BudgetStep
<1>4. CASE \E s \in OffStates \cup {"poweredOn"} : RadioChanges(s)
  BY <1>4 DEF RadioChanges, BudgetStep
<1>5. CASE ScanSteps
  BY <1>5 DEF ScanSteps, ScanErrors, ScanStarts, ScanStartRejects, ScanFinds, FailScan,
       ScheduleReconnect, BudgetLeft, BudgetStep, retry
<1>6. CASE Timers
  BY <1>6 DEF Timers, ScanTimesOut, RetryFires, ScheduleReconnect, BudgetLeft, BudgetStep, retry
<1>7. CASE \E f \in Flows : FlowSteps(f)
  BY <1>7, FlowBudget
<1>8. CASE LinkDrops \/ DropDelivered
  BY <1>8 DEF LinkDrops, DropDelivered, ScheduleReconnect, BudgetLeft, BudgetStep, retry
<1>9. CASE UNCHANGED vars
  BY <1>9 DEF vars, retry, BudgetStep
<1>. QED  BY <1>1, <1>2, <1>3, <1>4, <1>5, <1>6, <1>7, <1>8, <1>9 DEF Next, System

\* However failures, late answers and adapter events interleave, no more than
\* MaxRetries retries are scheduled in a row.
THEOREM BudgetBounded == Spec => []BudgetOK
<1>1. Init => BudgetOK
  BY MaxRetriesAssumption DEF Init, BudgetOK
<1>2. BudgetOK /\ [Next]_vars => BudgetOK'
  BY NextBudget, MaxRetriesAssumption DEF BudgetOK, BudgetStep
<1>. QED  BY <1>1, <1>2, PTL DEF Spec

\* Failing never gives back a retry: only a stop or a subscription does.
THEOREM BudgetRefund == Spec => BudgetRefundedBySuccess
<1>1. BudgetOK /\ [Next]_vars => [attempts' < attempts => ~started' \/ conn' = "connected"]_vars
  BY NextBudget, MaxRetriesAssumption DEF BudgetOK, BudgetStep
<1>. QED  BY <1>1, BudgetBounded, PTL DEF Spec, BudgetRefundedBySuccess

-----------------------------------------------------------------------------
(* Types, and what a stopped transport and a scan rely on.  Each action      *)
(* has a lemma: it shows the groups of variables that the action assigns     *)
(* well typed, and Frame does the others.                                    *)

Safe == StateOK /\ Disarmed /\ ScanHasDeadline

LEMMA Frame ==
  ASSUME StateOK
  PROVE  /\ UNCHANGED run  => RunOK'
         /\ UNCHANGED scan => ScanOK'
         /\ UNCHANGED dev  => DevOK'
         /\ UNCHANGED subs => SubsOK'
         /\ UNCHANGED retryTimer => (retryTimer \in BOOLEAN)'
         /\ UNCHANGED out  => OutOK'
         /\ UNCHANGED nat  => NatOK'
         /\ UNCHANGED flow => FlowOK'
<1>. USE DEF StateOK
<1>1. UNCHANGED run => RunOK'
  BY DEF run, RunOK
<1>2. UNCHANGED scan => ScanOK'
  BY DEF scan, ScanOK
<1>3. UNCHANGED dev => DevOK'
  BY DEF dev, DevOK
<1>4. UNCHANGED subs => SubsOK'
  BY DEF subs, SubsOK
<1>5. UNCHANGED retryTimer => (retryTimer \in BOOLEAN)'
  OBVIOUS
<1>6. UNCHANGED out => OutOK'
  BY DEF out, OutOK
<1>7. UNCHANGED nat => NatOK'
  BY DEF nat, NatOK
<1>8. UNCHANGED flow => FlowOK'
  BY DEF flow, FlowOK
<1>. QED  BY <1>1, <1>2, <1>3, <1>4, <1>5, <1>6, <1>7, <1>8

LEMMA ScheduleReconnectType ==
  ASSUME NEW t \in {"notFound", "error"}, ScheduleReconnect(t)
  PROVE  retryTimer' \in BOOLEAN /\ OutOK'
BY DEF ScheduleReconnect, OutOK, Phases, BusyPhases, Connections

LEMMA OpenScanType ==
  ASSUME OpenScan
  PROVE  scanning' = TRUE /\ scanTimer' = TRUE /\ scanSub' = TRUE /\ ScanOK' /\ OutOK'
BY DEF OpenScan, ScanOK, OutOK, Phases, BusyPhases, Connections

LEMMA MarkConnectedType ==
  ASSUME MarkConnected
  PROVE  connecting' = FALSE /\ UNCHANGED retryTimer /\ OutOK'
BY DEF MarkConnected, OutOK, Phases, Connections

LEMMA StopNowType ==
  ASSUME StateOK, StopNow
  PROVE  /\ ScanOK' /\ DevOK' /\ SubsOK' /\ (retryTimer \in BOOLEAN)' /\ OutOK'
         /\ started' = FALSE /\ slot' = FALSE /\ dropEvent' = FALSE
         /\ Disarmed' /\ ScanHasDeadline'
<1>. USE DEF StopNow
<1>1. ScanOK' /\ DevOK'
  BY DEF StateOK, ScanOK, DevOK
<1>2. SubsOK' /\ (retryTimer \in BOOLEAN)' /\ OutOK'
  BY DEF SubsOK, OutOK, Phases, Connections
<1>3. Disarmed' /\ ScanHasDeadline'
  BY DEF Disarmed, ScanHasDeadline
<1>. QED  BY <1>1, <1>2, <1>3

LEMMA SubscribeType ==
  ASSUME StateOK, NEW f \in Flows, SubscribeToPortal(f),
         UNCHANGED <<radio, dropEvent, firmware, left, seen, mpidSubs>>
  PROVE  DevOK' /\ OutOK' /\ NatOK' /\ FlowOK'
<1>. USE DEF StateOK, SubscribeToPortal
<1>1. DevOK' /\ OutOK'
  BY DEF DevOK, OutOK, Phases, BusyPhases, Connections
<1>2. NatOK'
  BY DEF NatOK
<1>3. FlowOK'
  BY DEF FlowOK, Awaits
<1>. QED  BY <1>1, <1>2, <1>3

\* A scan is begun only by a running transport.
LEMMA BeginScanSafe ==
  ASSUME Safe, BeginScan
  PROVE  /\ ScanOK' /\ OutOK'
         /\ ~started => ~scanTimer' /\ ~scanSub'
         /\ scanning' => started /\ scanTimer' /\ scanSub'
<1>1. CASE started /\ ~connecting /\ ~device
  <2>1. OpenScan
    BY <1>1 DEF BeginScan
  <2>. QED  BY <1>1, <2>1, OpenScanType
<1>2. CASE ~(started /\ ~connecting /\ ~device)
  <2>1. UNCHANGED <<scan, out>>
    BY <1>2 DEF BeginScan
  <2>2. ScanOK' /\ OutOK'
    BY <2>1, Frame DEF Safe
  <2>. QED  BY <2>1, <2>2 DEF Safe, Disarmed, ScanHasDeadline, scan
<1>. QED  BY <1>1, <1>2

LEMMA HandleStateSafe ==
  ASSUME Safe, NEW s \in OffStates \cup {"poweredOn"}, HandleState(s),
         UNCHANGED started
  PROVE  /\ ScanOK' /\ OutOK' /\ (retryTimer \in BOOLEAN)'
         /\ ~started => ~scanTimer' /\ ~retryTimer' /\ ~scanSub'
         /\ ScanHasDeadline'
<1>1. CASE s \in OffStates
  <2>1. s \in Phases
    BY <1>1, OffStatesAssumption DEF Phases
  <2>. QED
    BY <1>1, <2>1, OffStatesAssumption DEF HandleState, Safe, StateOK, ScanOK, OutOK,
         Disarmed, ScanHasDeadline, Connections
<1>2. CASE s = "poweredOn"
  <2>1. UNCHANGED retryTimer /\ (UNCHANGED <<scan, out>> \/ BeginScan)
    BY <1>2, OffStatesAssumption DEF HandleState
  <2>2. CASE BeginScan
    BY <2>1, <2>2, BeginScanSafe DEF Safe, StateOK, Disarmed, ScanHasDeadline
  <2>3. CASE UNCHANGED <<scan, out>>
    <3>1. ScanOK' /\ OutOK' /\ (retryTimer \in BOOLEAN)'
      BY <2>1, <2>3, Frame DEF Safe
    <3>. QED
      BY <2>1, <2>3, <3>1 DEF Safe, Disarmed, ScanHasDeadline, scan
  <2>. QED  BY <2>1, <2>2, <2>3
<1>. QED  BY <1>1, <1>2

-----------------------------------------------------------------------------
LEMMA CallerSafe ==
  ASSUME Safe, Start \/ CallerSteps \/ Stop
  PROVE  Safe'
<1>. USE DEF Safe
<1>1. CASE Start
  <2>1. UNCHANGED <<scan, dev, subs, retry, out, nat, flow>>
    BY <1>1 DEF Start
  <2>2. RunOK'
    BY <1>1 DEF Start, RunOK
  <2>3. StateOK'
    BY <2>1, <2>2, Frame DEF StateOK, retry
  <2>. QED
    BY <1>1, <2>1, <2>3 DEF Start, Disarmed, ScanHasDeadline, scan
<1>2. CASE PermissionsGranted
  <2>1. UNCHANGED <<started, slot, scan, dev, dropSub, monitors, retry, out, nat, flow>>
    BY <1>2 DEF PermissionsGranted
  <2>2. RunOK' /\ SubsOK'
    BY <1>2, <2>1 DEF PermissionsGranted, StateOK, RunOK, SubsOK
  <2>3. StateOK'
    BY <2>1, <2>2, Frame DEF StateOK, retry
  <2>. QED
    BY <2>1, <2>3 DEF Disarmed, ScanHasDeadline, scan, retry, nat
<1>3. CASE PermissionsDenied
  <2>1. UNCHANGED <<started, slot, scan, dev, subs, retry, conn, nat, flow>>
    BY <1>3 DEF PermissionsDenied
  <2>2. RunOK' /\ OutOK'
    BY <1>3, <2>1 DEF PermissionsDenied, StateOK, RunOK, OutOK, Phases
  <2>3. StateOK'
    BY <2>1, <2>2, Frame DEF StateOK, retry
  <2>. QED
    BY <2>1, <2>3 DEF Disarmed, ScanHasDeadline, scan, subs, retry, nat
<1>4. CASE StopCancels
  <2>1. UNCHANGED <<started, slot, scan, dev, subs, retry, out, radio, firmware, flow>>
    BY <1>4 DEF StopCancels
  <2>2. RunOK'
    BY <1>4, <2>1 DEF StopCancels, StateOK, RunOK
  <2>3. NatOK' /\ (~started => ~dropEvent')
    BY <1>4, <2>1 DEF StopCancels, CancelLink, StateOK, NatOK, SubsOK, Disarmed
  <2>4. StateOK'
    BY <2>1, <2>2, <2>3, Frame DEF StateOK, retry
  <2>. QED
    BY <2>1, <2>3, <2>4 DEF Disarmed, ScanHasDeadline, scan, subs, retry
<1>5. CASE StopReturns
  <2>1. UNCHANGED <<started, slot, scan, dev, subs, retry, out, nat, flow>>
    BY <1>5 DEF StopReturns
  <2>2. RunOK'
    BY <1>5, <2>1 DEF StopReturns, StateOK, RunOK
  <2>3. StateOK'
    BY <2>1, <2>2, Frame DEF StateOK, retry
  <2>. QED
    BY <2>1, <2>3 DEF Disarmed, ScanHasDeadline, scan, subs, retry, nat
<1>6. CASE Stop
  <2>1. UNCHANGED <<radio, link, firmware, flow>> /\ StopNow /\ caller' = "stopScan"
    BY <1>6 DEF Stop
  <2>2. RunOK' /\ NatOK'
    BY <2>1, StopNowType DEF StateOK, RunOK, NatOK
  <2>. QED  BY <2>1, <2>2, StopNowType, Frame DEF StateOK
<1>. QED  BY <1>1, <1>2, <1>3, <1>4, <1>5, <1>6 DEF CallerSteps

LEMMA AdapterSafe ==
  ASSUME Safe, EmitCurrentState \/ \E s \in OffStates \cup {"poweredOn"} : RadioChanges(s)
  PROVE  Safe'
<1>1. CASE EmitCurrentState
  <2>1. /\ radio \in OffStates \cup {"poweredOn"} /\ HandleState(radio)
        /\ UNCHANGED <<run, dev, dropSub, monitors, nat, flow>> /\ UNCHANGED started
    BY <1>1 DEF EmitCurrentState, Safe, StateOK, NatOK, run
  <2>2. SubsOK'
    BY <1>1, <2>1 DEF EmitCurrentState, Safe, StateOK, SubsOK
  <2>3. StateOK'
    BY <2>1, <2>2, HandleStateSafe, Frame DEF Safe, StateOK
  <2>. QED
    BY <2>1, <2>3, HandleStateSafe DEF Safe, Disarmed, run, nat
<1>2. ASSUME NEW s \in OffStates \cup {"poweredOn"}, RadioChanges(s)
      PROVE  Safe'
  <2>1. UNCHANGED <<run, dev, subs, firmware, flow>>
    BY <1>2 DEF RadioChanges
  <2>2. NatOK' /\ (~started => ~dropEvent')
    BY <1>2 DEF RadioChanges, Safe, StateOK, NatOK, SubsOK, Disarmed
  <2>3. CASE stateSub = "live"
    <3>1. HandleState(s) /\ UNCHANGED started
      BY <1>2, <2>1, <2>3 DEF RadioChanges, run
    <3>2. StateOK'
      BY <2>1, <2>2, <3>1, HandleStateSafe, Frame DEF Safe, StateOK
    <3>. QED
      BY <2>1, <2>2, <3>1, <3>2, HandleStateSafe DEF Safe, Disarmed, run, subs
  <2>4. CASE stateSub # "live"
    <3>1. UNCHANGED <<scan, retryTimer, out>>
      BY <1>2, <2>4 DEF RadioChanges
    <3>2. StateOK'
      BY <2>1, <2>2, <3>1, Frame DEF Safe, StateOK
    <3>. QED
      BY <2>1, <2>2, <3>1, <3>2 DEF Safe, Disarmed, ScanHasDeadline, run, scan, subs
  <2>. QED  BY <2>3, <2>4
<1>. QED  BY <1>1, <1>2

LEMMA ScanSafe ==
  ASSUME Safe, ScanSteps
  PROVE  Safe'
<1>1. CASE ScanErrors
  <2>1. started /\ UNCHANGED <<run, dev, subs, nat, flow>>
    BY <1>1 DEF ScanErrors, Safe, Disarmed
  <2>2. ScheduleReconnect("error")
    BY <1>1, <2>1 DEF ScanErrors, FailScan
  <2>3. ScanOK' /\ scanning' = FALSE
    BY <1>1 DEF ScanErrors, ScanOK
  <2>4. StateOK'
    BY <2>1, <2>2, <2>3, ScheduleReconnectType, Frame DEF Safe, StateOK
  <2>. QED
    BY <2>1, <2>3, <2>4 DEF Safe, Disarmed, ScanHasDeadline, run
<1>2. CASE ScanStarts
  <2>1. UNCHANGED <<run, scanning, scanTimer, scanSub, dev, subs, retry, out, nat, flow>>
    BY <1>2 DEF ScanStarts
  <2>2. ScanOK'
    BY <1>2, <2>1 DEF ScanStarts, Safe, StateOK, ScanOK
  <2>3. StateOK'
    BY <2>1, <2>2, Frame DEF Safe, StateOK, retry
  <2>. QED
    BY <2>1, <2>3 DEF Safe, Disarmed, ScanHasDeadline, run, subs, retry, nat
<1>3. CASE ScanStartRejects
  <2>1. UNCHANGED <<run, dev, subs, nat, flow>>
    BY <1>3 DEF ScanStartRejects
  <2>2. ScanOK' /\ scanning' = FALSE /\ scanTimer' = FALSE /\ scanSub' = FALSE
    BY <1>3 DEF ScanStartRejects, ScanOK
  <2>3. /\ (retryTimer \in BOOLEAN)' /\ OutOK'
        /\ ~started => ~retryTimer'
    <3>1. CASE started
      BY <1>3, <3>1, ScheduleReconnectType DEF ScanStartRejects, FailScan
    <3>2. CASE ~started
      BY <1>3, <3>2 DEF ScanStartRejects, FailScan, Safe, StateOK, Disarmed, retry,
           OutOK, Phases, Connections
    <3>. QED  BY <3>1, <3>2
  <2>4. StateOK'
    BY <2>1, <2>2, <2>3, Frame DEF Safe, StateOK
  <2>. QED
    BY <2>1, <2>2, <2>3, <2>4 DEF Safe, Disarmed, ScanHasDeadline, run, subs, nat
<1>4. ASSUME NEW f \in Flows, ScanFinds(f)
      PROVE  Safe'
  <2>1. /\ started /\ scanning' = FALSE /\ SubscribeToPortal(f)
        /\ UNCHANGED <<run, subs, retry, radio, dropEvent, firmware, left, seen, mpidSubs>>
    BY <1>4 DEF ScanFinds
  <2>2. ScanOK'
    BY <1>4 DEF ScanFinds, ScanOK
  <2>3. DevOK' /\ OutOK' /\ NatOK' /\ FlowOK'
    BY <2>1, SubscribeType DEF Safe
  <2>4. StateOK'
    BY <2>1, <2>2, <2>3, Frame DEF Safe, StateOK, retry
  <2>. QED
    BY <2>1, <2>4 DEF Safe, Disarmed, ScanHasDeadline, run
<1>. QED  BY <1>1, <1>2, <1>3, <1>4 DEF ScanSteps

LEMMA TimersSafe ==
  ASSUME Safe, Timers
  PROVE  Safe'
<1>1. CASE ScanTimesOut
  <2>1. started /\ UNCHANGED <<run, dev, subs, nat, flow>>
    BY <1>1 DEF ScanTimesOut, Safe, Disarmed
  <2>2. ScanOK' /\ ~scanning' /\ (retryTimer \in BOOLEAN)' /\ OutOK'
    <3>1. CASE scanning
      BY <1>1, <2>1, <3>1, ScheduleReconnectType DEF ScanTimesOut, ScanOK
    <3>2. CASE ~scanning
      <4>1. UNCHANGED <<scanning, scanSub, retry, out>>
        BY <1>1, <2>1, <3>2 DEF ScanTimesOut
      <4>2. ScanOK'
        BY <1>1, <4>1 DEF ScanTimesOut, Safe, StateOK, ScanOK
      <4>. QED  BY <3>2, <4>1, <4>2, Frame DEF Safe, StateOK, retry
    <3>. QED  BY <3>1, <3>2
  <2>3. StateOK'
    BY <2>1, <2>2, Frame DEF Safe, StateOK
  <2>. QED
    BY <2>1, <2>2, <2>3 DEF Safe, Disarmed, ScanHasDeadline, run
<1>2. ASSUME NEW f \in Flows, RetryFires(f)
      PROVE  Safe'
  <2>1. /\ retryTimer' = FALSE
        /\ UNCHANGED <<run, dev, subs, nat, left, seen, mpidSubs>>
        /\ UNCHANGED pc \/ pc' = [pc EXCEPT ![f] = "devices"]
        /\ UNCHANGED <<scan, out>> \/ BeginScan
    BY <1>2 DEF RetryFires
  <2>2. FlowOK'
    BY <2>1 DEF Safe, StateOK, FlowOK, Awaits
  <2>3. /\ ScanOK' /\ OutOK'
        /\ ~started => ~scanTimer' /\ ~scanSub'
        /\ scanning' => started /\ scanTimer' /\ scanSub'
    <3>1. CASE BeginScan
      BY <3>1, BeginScanSafe
    <3>2. CASE UNCHANGED <<scan, out>>
      BY <3>2, Frame DEF Safe, Disarmed, ScanHasDeadline, scan
    <3>. QED  BY <2>1, <3>1, <3>2
  <2>4. StateOK'
    BY <2>1, <2>2, <2>3, Frame DEF Safe, StateOK
  <2>. QED
    BY <2>1, <2>3, <2>4 DEF Safe, Disarmed, ScanHasDeadline, run, subs, nat
<1>. QED  BY <1>1, <1>2 DEF Timers

LEMMA LinkSafe ==
  ASSUME Safe, LinkDrops \/ DropDelivered
  PROVE  Safe'
<1>1. CASE LinkDrops
  <2>1. UNCHANGED <<run, scan, dev, subs, retry, out, radio, firmware, flow>>
    BY <1>1 DEF LinkDrops
  <2>2. NatOK' /\ (~started => ~dropEvent')
    BY <1>1, <2>1 DEF LinkDrops, CancelLink, Safe, StateOK, NatOK, SubsOK, Disarmed
  <2>3. StateOK'
    BY <2>1, <2>2, Frame DEF Safe, StateOK, retry
  <2>. QED
    BY <2>1, <2>2, <2>3 DEF Safe, Disarmed, ScanHasDeadline, run, scan, subs, retry
<1>2. CASE DropDelivered
  <2>1. started /\ dropEvent' = FALSE
        /\ UNCHANGED <<run, scan, connecting, lastDevice, stateSub, dropSub, radio, link, firmware, flow>>
    BY <1>2 DEF DropDelivered, Safe, Disarmed
  <2>2. (retryTimer \in BOOLEAN)' /\ OutOK' /\ device' = FALSE /\ monitors' = FALSE
    BY <1>2, <2>1, ScheduleReconnectType DEF DropDelivered
  <2>3. DevOK' /\ SubsOK' /\ NatOK'
    BY <2>1, <2>2 DEF Safe, StateOK, DevOK, SubsOK, NatOK
  <2>4. StateOK'
    BY <2>1, <2>2, <2>3, Frame DEF Safe, StateOK
  <2>. QED
    BY <2>1, <2>4 DEF Safe, Disarmed, ScanHasDeadline, run, scan
<1>. QED  BY <1>1, <1>2

-----------------------------------------------------------------------------
(* The steps of a flow.                                                      *)

\* What the ends of a flow assign between them: all but the controller's call,
\* the adapter, the link, the portal and the locals of the enumeration.
Ends ==
  /\ started \in BOOLEAN /\ slot \in BOOLEAN /\ dropEvent \in BOOLEAN
  /\ ScanOK /\ DevOK /\ SubsOK /\ retryTimer \in BOOLEAN /\ OutOK
  /\ pc \in [Flows -> Awaits]
  /\ Disarmed /\ ScanHasDeadline

LEMMA EndsSafe ==
  ASSUME Safe, Ends', UNCHANGED <<caller, radio, link, firmware>>,
         (left \in [Flows -> SUBSET Services])',
         (seen \in [Flows -> {"nothing", "legacy", "mpid"}])',
         (mpidSubs \in [Flows -> BOOLEAN])'
  PROVE  Safe'
<1>1. RunOK' /\ NatOK' /\ FlowOK'
  BY DEF Ends, Safe, StateOK, RunOK, NatOK, FlowOK
<1>. QED  BY <1>1 DEF Ends, Safe, StateOK

LEMMA AbandonsSafe ==
  ASSUME Safe, NEW f \in Flows, Abandons(f), UNCHANGED <<started, slot, dropEvent>>
  PROVE  Ends'
<1>1. UNCHANGED <<scan, dev, subs, retry, out>>
  BY DEF Abandons
<1>2. ScanOK' /\ DevOK' /\ SubsOK' /\ (retryTimer \in BOOLEAN)' /\ OutOK'
  BY <1>1, Frame DEF Safe, retry
<1>3. (pc \in [Flows -> Awaits])'
  BY DEF Abandons, Safe, StateOK, FlowOK, Awaits
<1>4. (started \in BOOLEAN /\ slot \in BOOLEAN /\ dropEvent \in BOOLEAN)'
  BY DEF Safe, StateOK, RunOK, NatOK
<1>5. Disarmed' /\ ScanHasDeadline'
  BY <1>1 DEF Safe, Disarmed, ScanHasDeadline, scan, subs, retry
<1>. QED  BY <1>2, <1>3, <1>4, <1>5 DEF Ends

LEMMA LockDownSafe ==
  ASSUME Safe, NEW f \in Flows, LockDown(f)
  PROVE  Ends'
<1>1. (pc \in [Flows -> Awaits])'
  BY DEF LockDown, Safe, StateOK, FlowOK, Awaits
<1>. QED  BY <1>1, StopNowType DEF LockDown, Safe, Ends

LEMMA FallToLockedSafe ==
  ASSUME Safe, NEW f \in Flows, FallToLocked(f)
  PROVE  Ends'
<1>1. CASE LockDown(f)
  BY <1>1, LockDownSafe
<1>2. CASE ~LockDown(f)
  <2>1. /\ phase' = "locked"
        /\ pc' = [pc EXCEPT ![f] = "none"]
        /\ UNCHANGED <<started, slot, scan, dev, subs, retry, conn, dropEvent>>
    BY <1>2 DEF FallToLocked
  <2>2. OutOK' /\ (pc \in [Flows -> Awaits])'
    BY <2>1 DEF Safe, StateOK, OutOK, Phases, FlowOK, Awaits
  <2>3. (started \in BOOLEAN /\ slot \in BOOLEAN /\ dropEvent \in BOOLEAN)'
    BY <2>1 DEF Safe, StateOK, RunOK, NatOK
  <2>4. Disarmed' /\ ScanHasDeadline'
    BY <2>1 DEF Safe, Disarmed, ScanHasDeadline, scan, subs, retry
  <2>. QED  BY <2>1, <2>2, <2>3, <2>4, Frame DEF Safe, Ends, retry
<1>. QED  BY <1>1, <1>2

LEMMA AfterEnumerationSafe ==
  ASSUME Safe, NEW f \in Flows, NEW w \in {"nothing", "legacy", "mpid"},
         NEW on \in BOOLEAN, started \/ on = monitors, AfterEnumeration(f, w, on)
  PROVE  Ends'
<1>1. CASE w = "nothing"
  BY <1>1, FallToLockedSafe DEF AfterEnumeration
<1>2. CASE w = "legacy"
  <2>1. /\ MarkConnected
        /\ pc' = [pc EXCEPT ![f] = "none"]
        /\ monitors' = on
        /\ UNCHANGED <<started, slot, scan, device, lastDevice, stateSub, dropSub, dropEvent>>
    BY <1>2 DEF AfterEnumeration
  <2>2. ScanOK' /\ (retryTimer \in BOOLEAN)' /\ OutOK'
    BY <2>1, MarkConnectedType, Frame DEF Safe
  <2>3. DevOK' /\ SubsOK' /\ (pc \in [Flows -> Awaits])'
    BY <2>1, MarkConnectedType DEF Safe, StateOK, DevOK, SubsOK, FlowOK, Awaits
  <2>4. Disarmed' /\ ScanHasDeadline'
    BY <2>1, MarkConnectedType DEF Safe, Disarmed, ScanHasDeadline, scan
  <2>5. (started \in BOOLEAN /\ slot \in BOOLEAN /\ dropEvent \in BOOLEAN)'
    BY <2>1 DEF Safe, StateOK, RunOK, NatOK
  <2>. QED
    BY <2>2, <2>3, <2>4, <2>5 DEF Ends
<1>3. CASE w = "mpid"
  <2>1. /\ phase' = "authenticating"
        /\ pc' = [pc EXCEPT ![f] = "mpid"]
        /\ monitors' = on
        /\ UNCHANGED <<started, slot, scan, dev, stateSub, dropSub, retry, conn, dropEvent>>
    BY <1>3 DEF AfterEnumeration
  <2>2. ScanOK' /\ DevOK' /\ (retryTimer \in BOOLEAN)'
    BY <2>1, Frame DEF Safe, retry
  <2>3. OutOK' /\ SubsOK' /\ (pc \in [Flows -> Awaits])'
    BY <2>1 DEF Safe, StateOK, OutOK, Phases, BusyPhases, SubsOK, FlowOK, Awaits
  <2>4. Disarmed' /\ ScanHasDeadline'
    BY <2>1 DEF Safe, Disarmed, ScanHasDeadline, scan, retry
  <2>5. (started \in BOOLEAN /\ slot \in BOOLEAN /\ dropEvent \in BOOLEAN)'
    BY <2>1 DEF Safe, StateOK, RunOK, NatOK
  <2>. QED
    BY <2>2, <2>3, <2>4, <2>5 DEF Ends
<1>. QED  BY <1>1, <1>2, <1>3

\* A rejected characteristic read may end the loop in a stopped transport.
LEMMA NextServiceSafe ==
  ASSUME Safe, NEW f \in Flows, NEW s \in Services,
         NEW w \in {"nothing", "legacy", "mpid"}, NEW on \in BOOLEAN,
         started \/ on = monitors, NextService(f, s, w, on),
         UNCHANGED <<caller, radio, link, firmware>>
  PROVE  Safe'
<1>1. (left \in [Flows -> SUBSET Services])'
  BY DEF NextService, Safe, StateOK, FlowOK
<1>2. (seen \in [Flows -> {"nothing", "legacy", "mpid"}])'
  BY DEF NextService, Safe, StateOK, FlowOK
<1>5. (mpidSubs \in [Flows -> BOOLEAN])'
  BY DEF NextService, AfterEnumeration, Safe, StateOK, FlowOK
<1>3. CASE AfterEnumeration(f, w, on)
  BY <1>1, <1>2, <1>3, <1>5, AfterEnumerationSafe, EndsSafe
<1>4. CASE ~AfterEnumeration(f, w, on)
  <2>1. /\ monitors' = on
        /\ UNCHANGED <<started, slot, scan, dev, stateSub, dropSub, retry, out, dropEvent, pc>>
    BY <1>4 DEF NextService
  <2>2. ScanOK' /\ DevOK' /\ (retryTimer \in BOOLEAN)' /\ OutOK'
    BY <2>1, Frame DEF Safe, retry
  <2>3. SubsOK' /\ (pc \in [Flows -> Awaits])'
    BY <2>1 DEF Safe, StateOK, SubsOK, FlowOK
  <2>4. Ends'
    BY <2>1, <2>2, <2>3 DEF Safe, StateOK, RunOK, NatOK, Ends, Disarmed,
       ScanHasDeadline, scan, retry
  <2>. QED  BY <1>1, <1>2, <1>5, <2>4, EndsSafe
<1>. QED  BY <1>3, <1>4

LEMMA ConnectStepsSafe ==
  ASSUME Safe, NEW f \in Flows,
         \/ DevicesKnown(f) \/ DevicesUnknown(f) \/ ConnectResolves(f)
         \/ DiscoverResolves(f) \/ ServicesResolve(f) \/ FlowFails(f)
  PROVE  Safe'
<1>1. CASE DevicesKnown(f)
  <2>1. SubscribeToPortal(f)
        /\ UNCHANGED <<run, scan, subs, retry, radio, dropEvent, firmware, left, seen, mpidSubs>>
    BY <1>1 DEF DevicesKnown
  <2>2. StateOK'
    BY <2>1, SubscribeType, Frame DEF Safe, StateOK, retry
  <2>. QED
    BY <2>1, <2>2 DEF Safe, Disarmed, ScanHasDeadline, run, scan, subs, retry
<1>2. CASE DevicesUnknown(f)
  <2>1. BeginScan /\ UNCHANGED <<run, dev, subs, retry, nat, left, seen, mpidSubs>>
    BY <1>2 DEF DevicesUnknown
  <2>2. FlowOK'
    BY <1>2, <2>1 DEF DevicesUnknown, Safe, StateOK, FlowOK, Awaits
  <2>3. StateOK'
    BY <2>1, <2>2, BeginScanSafe, Frame DEF Safe, StateOK, retry
  <2>. QED
    BY <2>1, <2>3, BeginScanSafe DEF Safe, Disarmed, ScanHasDeadline, run, subs,
       retry, nat
<1>3. CASE ConnectResolves(f)
  <2>1. UNCHANGED <<run, scanning, scanTimer, scanSub, dev, subs, retry, conn, radio, dropEvent, firmware, left, seen, mpidSubs>>
    BY <1>3 DEF ConnectResolves
  <2>2. ScanOK' /\ NatOK'
    BY <1>3, <2>1 DEF ConnectResolves, Safe, StateOK, ScanOK, NatOK
  <2>3. OutOK' /\ FlowOK'
    BY <1>3, <2>1 DEF ConnectResolves, Safe, StateOK, OutOK, Phases, BusyPhases, FlowOK, Awaits
  <2>4. StateOK'
    BY <2>1, <2>2, <2>3, Frame DEF Safe, StateOK, retry
  <2>. QED
    BY <2>1, <2>4 DEF Safe, Disarmed, ScanHasDeadline, run, subs, retry
<1>4. CASE DiscoverResolves(f)
  <2>1. UNCHANGED <<run, radio, link, firmware, left, seen, mpidSubs>>
    BY <1>4 DEF DiscoverResolves
  <2>2. CASE Abandons(f) /\ UNCHANGED dropEvent
    BY <2>1, <2>2, AbandonsSafe, EndsSafe DEF Safe, StateOK, FlowOK, run
  <2>3. CASE ~(Abandons(f) /\ UNCHANGED dropEvent)
    <3>1. /\ started /\ dropSub' = TRUE /\ dropEvent' = FALSE /\ monitors' = FALSE
          /\ pc' = [pc EXCEPT ![f] = "services"]
          /\ UNCHANGED <<scan, dev, stateSub, retry, out>>
      BY <1>4, <2>3 DEF DiscoverResolves
    <3>2. SubsOK' /\ NatOK' /\ FlowOK'
      BY <2>1, <3>1 DEF Safe, StateOK, SubsOK, NatOK, FlowOK, Awaits
    <3>3. StateOK'
      BY <2>1, <3>1, <3>2, Frame DEF Safe, StateOK, retry
    <3>. QED
      BY <2>1, <3>1, <3>3 DEF Safe, Disarmed, ScanHasDeadline, run, scan
  <2>. QED  BY <2>2, <2>3
<1>5. CASE ServicesResolve(f)
  <2>1. UNCHANGED <<run, nat, seen, mpidSubs>>
    BY <1>5 DEF ServicesResolve
  <2>2. CASE Abandons(f) /\ UNCHANGED left
    BY <2>1, <2>2, AbandonsSafe, EndsSafe DEF Safe, StateOK, FlowOK, run, nat
  <2>3. CASE ~(Abandons(f) /\ UNCHANGED left)
    <3>1. /\ pc' = [pc EXCEPT ![f] = "chars"]
          /\ left' = [left EXCEPT ![f] = Services]
          /\ UNCHANGED <<scan, dev, subs, retry, out>>
      BY <1>5, <2>3 DEF ServicesResolve
    <3>2. FlowOK'
      BY <2>1, <3>1 DEF Safe, StateOK, FlowOK, Awaits
    <3>3. StateOK'
      BY <2>1, <3>1, <3>2, Frame DEF Safe, StateOK, retry
    <3>. QED
      BY <2>1, <3>1, <3>3 DEF Safe, Disarmed, ScanHasDeadline, run, scan, subs,
         retry, nat
  <2>. QED  BY <2>2, <2>3
<1>6. CASE FlowFails(f)
  <2>1. UNCHANGED <<run, scan, lastDevice, subs, radio, dropEvent, firmware, left, seen, mpidSubs>>
    BY <1>6 DEF FlowFails
  <2>2. NatOK' /\ FlowOK'
    BY <1>6, <2>1 DEF FlowFails, Safe, StateOK, NatOK, FlowOK, Awaits
  <2>3. DevOK' /\ (retryTimer \in BOOLEAN)' /\ OutOK' /\ (~started => UNCHANGED retryTimer)
    <3>1. CASE started
      BY <1>6, <2>1, <3>1, ScheduleReconnectType DEF FlowFails, Safe, StateOK, DevOK
    <3>2. CASE ~started
      <4>1. UNCHANGED <<dev, retry, out>>
        BY <1>6, <2>1, <3>2 DEF FlowFails, dev
      <4>. QED  BY <4>1, Frame DEF Safe, retry
    <3>. QED  BY <3>1, <3>2
  <2>4. StateOK'
    BY <2>1, <2>2, <2>3, Frame DEF Safe, StateOK
  <2>. QED
    BY <2>1, <2>3, <2>4 DEF Safe, Disarmed, ScanHasDeadline, run, scan, subs
<1>. QED  BY <1>1, <1>2, <1>3, <1>4, <1>5, <1>6

LEMMA EnumerationStepsSafe ==
  ASSUME Safe, NEW f \in Flows,
         \/ \E s \in Services : CharsResolve(f, s) \/ CharsReject(f, s)
         \/ MpidResolves(f) \/ MpidFails(f) \/ LockCancels(f) \/ LockReturns(f)
  PROVE  Safe'
<1>0. seen[f] \in {"nothing", "legacy", "mpid"} /\ monitors \in BOOLEAN
  BY DEF Safe, StateOK, FlowOK, SubsOK
<1>1. ASSUME NEW s \in Services, CharsResolve(f, s)
      PROVE  Safe'
  <2>1. UNCHANGED <<caller, radio, link, firmware>>
    BY <1>1 DEF CharsResolve
  <2>2. CASE Abandons(f) /\ left' = [left EXCEPT ![f] = {}]
             /\ seen' = [seen EXCEPT ![f] = "nothing"]
             /\ UNCHANGED <<started, slot, dropEvent, mpidSubs>>
    <3>1. /\ (left \in [Flows -> SUBSET Services])'
          /\ (seen \in [Flows -> {"nothing", "legacy", "mpid"}])'
          /\ (mpidSubs \in [Flows -> BOOLEAN])'
      BY <2>2 DEF Safe, StateOK, FlowOK
    <3>. QED  BY <2>1, <2>2, <3>1, AbandonsSafe, EndsSafe
  <2>3. CASE started /\ s = "telemetry" /\ firmware # "gated"
             /\ NextService(f, s, firmware, monitors \/ firmware = "legacy")
    <3>1. firmware \in {"nothing", "legacy", "mpid"}
      BY <2>3 DEF Safe, StateOK, NatOK, Firmwares
    <3>. QED  BY <2>1, <2>3, <3>1, <1>0, NextServiceSafe
  <2>4. CASE started /\ NextService(f, s, seen[f], monitors)
    BY <2>1, <2>4, <1>0, NextServiceSafe
  <2>. QED  BY <1>1, <2>2, <2>3, <2>4 DEF CharsResolve
<1>2. ASSUME NEW s \in Services, CharsReject(f, s)
      PROVE  Safe'
  BY <1>2, <1>0, NextServiceSafe DEF CharsReject
<1>3. CASE MpidResolves(f)
  <2>1. UNCHANGED <<run, nat, left, seen>> /\ mpidSubs' = [mpidSubs EXCEPT ![f] = FALSE]
    BY <1>3 DEF MpidResolves
  <2>2. CASE Abandons(f)
    BY <2>1, <2>2, AbandonsSafe, EndsSafe DEF Safe, StateOK, FlowOK, run, nat
  <2>3. CASE ~Abandons(f)
    <3>1. /\ started /\ MarkConnected /\ monitors' = TRUE
          /\ pc' = [pc EXCEPT ![f] = "none"]
          /\ UNCHANGED <<scan, device, lastDevice, stateSub, dropSub>>
      BY <1>3, <2>3 DEF MpidResolves
    <3>2. DevOK' /\ SubsOK' /\ FlowOK'
      BY <2>1, <3>1, MarkConnectedType DEF Safe, StateOK, DevOK, SubsOK, FlowOK, Awaits
    <3>3. StateOK'
      BY <2>1, <3>1, <3>2, MarkConnectedType, Frame DEF Safe, StateOK
    <3>. QED
      BY <2>1, <3>1, <3>3 DEF Safe, Disarmed, ScanHasDeadline, run, scan
  <2>. QED  BY <2>2, <2>3
<1>4. CASE MpidFails(f)
  <2>1. /\ UNCHANGED <<caller, radio, link, firmware, left, seen>>
        /\ mpidSubs' = [mpidSubs EXCEPT ![f] = FALSE]
    BY <1>4 DEF MpidFails
  <2>2. Ends'
    BY <1>4, AbandonsSafe, LockDownSafe DEF MpidFails
  <2>. QED  BY <2>1, <2>2, EndsSafe DEF Safe, StateOK, FlowOK
<1>5. CASE LockCancels(f)
  <2>1. UNCHANGED <<run, scan, dev, subs, retry, out, radio, firmware, left, seen, mpidSubs>>
    BY <1>5 DEF LockCancels
  <2>2. NatOK' /\ (~started => ~dropEvent')
    BY <1>5, <2>1 DEF LockCancels, CancelLink, Safe, StateOK, NatOK, SubsOK, Disarmed
  <2>3. FlowOK'
    BY <1>5, <2>1 DEF LockCancels, Safe, StateOK, FlowOK, Awaits
  <2>4. StateOK'
    BY <2>1, <2>2, <2>3, Frame DEF Safe, StateOK, retry
  <2>. QED
    BY <2>1, <2>2, <2>4 DEF Safe, Disarmed, ScanHasDeadline, run, scan, subs, retry
<1>6. CASE LockReturns(f)
  <2>1. UNCHANGED <<run, scan, dev, subs, retry, conn, nat, left, seen, mpidSubs>>
    BY <1>6 DEF LockReturns
  <2>2. OutOK' /\ FlowOK'
    BY <1>6, <2>1 DEF LockReturns, Safe, StateOK, OutOK, Phases, FlowOK, Awaits
  <2>3. StateOK'
    BY <2>1, <2>2, Frame DEF Safe, StateOK, retry
  <2>. QED
    BY <2>1, <2>3 DEF Safe, Disarmed, ScanHasDeadline, run, scan, subs, retry, nat
<1>. QED  BY <1>1, <1>2, <1>3, <1>4, <1>5, <1>6

-----------------------------------------------------------------------------
LEMMA InitSafe == Init => Safe
<1>. SUFFICES ASSUME Init PROVE Safe
  OBVIOUS
<1>. USE DEF Init
<1>1. RunOK /\ ScanOK /\ DevOK /\ SubsOK /\ retryTimer \in BOOLEAN
  BY DEF RunOK, ScanOK, DevOK, SubsOK
<1>2. OutOK /\ NatOK /\ FlowOK
  BY DEF OutOK, NatOK, FlowOK, Phases, Connections, Awaits
<1>3. Disarmed /\ ScanHasDeadline
  BY DEF Disarmed, ScanHasDeadline
<1>. QED  BY <1>1, <1>2, <1>3 DEF Safe, StateOK

LEMMA NextSafe == Safe /\ [Next]_vars => Safe'
<1>. SUFFICES ASSUME Safe, [Next]_vars PROVE Safe'
  OBVIOUS
<1>1. CASE Start \/ CallerSteps \/ Stop
  BY <1>1, CallerSafe
<1>2. CASE EmitCurrentState \/ \E s \in OffStates \cup {"poweredOn"} : RadioChanges(s)
  BY <1>2, AdapterSafe
<1>3. CASE ScanSteps
  BY <1>3, ScanSafe
<1>4. CASE Timers
  BY <1>4, TimersSafe
<1>5. CASE LinkDrops \/ DropDelivered
  BY <1>5, LinkSafe
<1>6. CASE \E f \in Flows : FlowSteps(f)
  BY <1>6, ConnectStepsSafe, EnumerationStepsSafe DEF FlowSteps
<1>7. CASE UNCHANGED vars
  <2>1. StateOK'
    BY <1>7, Frame DEF Safe, StateOK, vars, retry
  <2>. QED
    BY <1>7, <2>1 DEF Safe, Disarmed, ScanHasDeadline, vars, run, scan, subs, retry, nat
<1>. QED  BY <1>1, <1>2, <1>3, <1>4, <1>5, <1>6, <1>7 DEF Next, System

\* Type correctness, with the bound on the retry counter.
THEOREM TypeCorrect == Spec => []TypeOK
<1>1. Safe => StateOK
  BY DEF Safe
<1>. QED  BY <1>1, InitSafe, NextSafe, BudgetBounded, PTL DEF Spec, TypeOK

-----------------------------------------------------------------------------
(* The monitors of a handshake.                                             *)

\* A step that leaves them alone moves no flow that awaits its handshake.
Elsewhere == UNCHANGED mpidSubs /\ \A g \in Flows : pc[g] = "mpid" => pc'[g] = "mpid"

LEMMA ElsewhereKeeps ==
  ASSUME HandshakeMonitorsEnd, Elsewhere
  PROVE  HandshakeMonitorsEnd'
BY DEF HandshakeMonitorsEnd, Elsewhere

LEMMA FlowMonitors ==
  ASSUME StateOK, HandshakeMonitorsEnd, NEW f \in Flows, FlowSteps(f)
  PROVE  HandshakeMonitorsEnd'
<1>0. pc \in [Flows -> Awaits] /\ mpidSubs \in [Flows -> BOOLEAN]
  BY DEF StateOK, FlowOK
<1>1. CASE DevicesKnown(f) \/ DevicesUnknown(f) \/ ConnectResolves(f) \/ FlowFails(f)
  <2>1. Elsewhere
    BY <1>0, <1>1 DEF DevicesKnown, DevicesUnknown, SubscribeToPortal, ConnectResolves, FlowFails, Elsewhere
  <2>. QED  BY <2>1, ElsewhereKeeps
<1>2. CASE DiscoverResolves(f) \/ ServicesResolve(f) \/ LockCancels(f) \/ LockReturns(f)
  <2>1. Elsewhere
    BY <1>0, <1>2 DEF DiscoverResolves, ServicesResolve, LockCancels, LockReturns, Abandons, Elsewhere
  <2>. QED  BY <2>1, ElsewhereKeeps
<1>3. ASSUME pc[f] = "chars", NEW s \in Services, NEW w, NEW on, NextService(f, s, w, on)
      PROVE  HandshakeMonitorsEnd'
  <2>1. CASE mpidSubs' = [mpidSubs EXCEPT ![f] = TRUE] /\ pc' = [pc EXCEPT ![f] = "mpid"]
    BY <1>0, <2>1 DEF HandshakeMonitorsEnd
  <2>2. CASE UNCHANGED mpidSubs /\ \E p \in Awaits : pc' = [pc EXCEPT ![f] = p]
    <3>1. Elsewhere
      BY <1>0, <1>3, <2>2 DEF Elsewhere
    <3>. QED  BY <3>1, ElsewhereKeeps
  <2>3. CASE UNCHANGED <<mpidSubs, pc>>
    BY <2>3, ElsewhereKeeps DEF Elsewhere
  <2>. QED
    BY <1>3, <2>1, <2>2, <2>3 DEF NextService, AfterEnumeration, FallToLocked, LockDown, Awaits
<1>4. ASSUME NEW s \in Services, CharsResolve(f, s) \/ CharsReject(f, s)
      PROVE  HandshakeMonitorsEnd'
  <2>1. CASE \E w, on : pc[f] = "chars" /\ NextService(f, s, w, on)
    BY <1>3, <2>1
  <2>2. CASE pc[f] = "chars" /\ Abandons(f) /\ UNCHANGED mpidSubs
    <3>1. Elsewhere
      BY <1>0, <2>2 DEF Abandons, Elsewhere
    <3>. QED  BY <3>1, ElsewhereKeeps
  <2>. QED  BY <1>4, <2>1, <2>2 DEF CharsResolve, CharsReject
<1>5. CASE MpidResolves(f) \/ MpidFails(f)
  <2>1. mpidSubs' = [mpidSubs EXCEPT ![f] = FALSE] /\ \E p \in Awaits : pc' = [pc EXCEPT ![f] = p]
    BY <1>5 DEF MpidResolves, MpidFails, Abandons, LockDown, Awaits
  <2>. QED  BY <1>0, <2>1 DEF HandshakeMonitorsEnd
<1>. QED  BY <1>1, <1>2, <1>4, <1>5 DEF FlowSteps

LEMMA NextMonitors == StateOK /\ HandshakeMonitorsEnd /\ [Next]_vars => HandshakeMonitorsEnd'
<1>. SUFFICES ASSUME StateOK, HandshakeMonitorsEnd, [Next]_vars PROVE HandshakeMonitorsEnd'
  OBVIOUS
<1>0. pc \in [Flows -> Awaits]
  BY DEF StateOK, FlowOK
<1>1. CASE Start \/ CallerSteps \/ Stop \/ EmitCurrentState
  BY <1>1, ElsewhereKeeps DEF Start, CallerSteps, PermissionsGranted, PermissionsDenied, StopCancels,
       StopReturns, Stop, EmitCurrentState, flow, Elsewhere
<1>2. CASE \E s \in OffStates \cup {"poweredOn"} : RadioChanges(s)
  BY <1>2, ElsewhereKeeps DEF RadioChanges, flow, Elsewhere
<1>3. CASE ScanErrors \/ ScanStarts \/ ScanStartRejects \/ ScanTimesOut \/ LinkDrops \/ DropDelivered
  BY <1>3, ElsewhereKeeps DEF ScanErrors, ScanStarts, ScanStartRejects, ScanTimesOut, LinkDrops,
       DropDelivered, flow, Elsewhere
<1>4. ASSUME NEW f \in Flows, ScanFinds(f) \/ RetryFires(f)
      PROVE  HandshakeMonitorsEnd'
  <2>1. Elsewhere
    BY <1>0, <1>4 DEF ScanFinds, SubscribeToPortal, RetryFires, Elsewhere
  <2>. QED  BY <2>1, ElsewhereKeeps
<1>5. CASE \E f \in Flows : FlowSteps(f)
  BY <1>5, FlowMonitors
<1>6. CASE UNCHANGED vars
  BY <1>6, ElsewhereKeeps DEF vars, flow, Elsewhere
<1>. QED  BY <1>1, <1>2, <1>3, <1>4, <1>5, <1>6 DEF Next, System, ScanSteps, Timers

\* However late the answers of the native side are, a stopped transport holds no
\* timer, no scan, no subscription of a link and not the active slot, and no
\* handshake ends without its monitors being removed or handed over.
THEOREM StoppedIsDisarmed == Spec => []DisarmedWhenStopped
<1>1. Init => HandshakeMonitorsEnd
  BY DEF Init, HandshakeMonitorsEnd
<1>2. Safe => StateOK
  BY DEF Safe
<1>3. Safe /\ HandshakeMonitorsEnd => DisarmedWhenStopped
  BY DEF Safe, DisarmedWhenStopped
<1>. QED  BY <1>1, <1>2, <1>3, InitSafe, NextSafe, NextMonitors, PTL DEF Spec

\* No interleaving of adapter events, stale rejections and retries leaves a scan
\* on without the timer that ends it.
THEOREM ScanEnds == Spec => []ScanHasDeadline
<1>1. Safe => ScanHasDeadline
  BY DEF Safe
<1>. QED  BY <1>1, InitSafe, NextSafe, PTL DEF Spec

-----------------------------------------------------------------------------
(* A gated portal.  The locals of the flows are part of the invariant: a     *)
(* flow that once saw telemetry would report it when its enumeration ends.   *)

Mute == conn # "connected" /\ phase \notin {"connected", "authenticating"}
Blank(f) == pc[f] # "mpid" /\ seen[f] = "nothing"
GatedSilent == firmware = "gated" => Mute /\ \A f \in Flows : Blank(f)

LEMMA FirmwareFixed == [Next]_vars => UNCHANGED firmware
<1>. SUFFICES ASSUME [Next]_vars PROVE UNCHANGED firmware
  OBVIOUS
<1>1. CASE Start \/ CallerSteps \/ Stop
  BY <1>1 DEF Start, CallerSteps, Stop, PermissionsGranted, PermissionsDenied, StopCancels,
       StopReturns, nat
<1>2. CASE EmitCurrentState \/ \E s \in OffStates \cup {"poweredOn"} : RadioChanges(s)
  BY <1>2 DEF EmitCurrentState, RadioChanges, nat
<1>3. CASE ScanSteps \/ Timers \/ LinkDrops \/ DropDelivered
  BY <1>3 DEF ScanSteps, ScanErrors, ScanStarts, ScanStartRejects, ScanFinds, Timers,
       ScanTimesOut, RetryFires, LinkDrops, DropDelivered, nat
<1>4. CASE \E f \in Flows : FlowSteps(f)
  BY <1>4 DEF FlowSteps, DevicesKnown, DevicesUnknown, ConnectResolves, DiscoverResolves,
       ServicesResolve, FlowFails, CharsResolve, CharsReject, MpidResolves, MpidFails,
       LockCancels, LockReturns, nat
<1>5. CASE UNCHANGED vars
  BY <1>5 DEF vars, nat
<1>. QED  BY <1>1, <1>2, <1>3, <1>4, <1>5 DEF Next, System

LEMMA MuteOperators ==
  ASSUME Mute, OffStates \subseteq {"poweredOff", "unauthorized", "unsupported"}
  PROVE  /\ \A t \in {"notFound", "error"} : ScheduleReconnect(t) => Mute'
         /\ BeginScan => Mute'
         /\ StopNow => Mute'
         /\ FailScan => Mute'
         /\ \A s : HandleState(s) => Mute'
         /\ \A f : SubscribeToPortal(f) => Mute'
         /\ UNCHANGED out => Mute'
<1>1. \A t \in {"notFound", "error"} : ScheduleReconnect(t) => Mute'
  BY DEF ScheduleReconnect, Mute
<1>2. BeginScan => Mute'
  BY DEF BeginScan, OpenScan, out, Mute
<1>3. StopNow => Mute'
  BY DEF StopNow, Mute
<1>4. FailScan => Mute'
  BY <1>1 DEF FailScan, Mute
<1>5. UNCHANGED out => Mute'
  BY DEF out, Mute
<1>6. \A s : HandleState(s) => Mute'
  <2>1. ASSUME NEW s, HandleState(s), s = "poweredOn" PROVE Mute'
    BY <2>1, <1>2, <1>5 DEF HandleState, Mute
  <2>2. ASSUME NEW s, HandleState(s), s \in OffStates PROVE Mute'
    BY <2>2, <1>2, <1>5 DEF HandleState, Mute
  <2>. QED  BY <2>1, <2>2 DEF HandleState
<1>7. \A f : SubscribeToPortal(f) => Mute'
  BY DEF SubscribeToPortal, Mute
<1>. QED  BY <1>1, <1>2, <1>3, <1>4, <1>5, <1>6, <1>7

\* One flow of a gated portal moves: it and the others stay blank.
LEMMA GatedFlow ==
  ASSUME StateOK, firmware = "gated", Mute, \A g \in Flows : Blank(g),
         NEW f \in Flows, FlowSteps(f)
  PROVE  Mute' /\ \A g \in Flows : Blank(g)'
<1>. USE MuteOperators, OffStatesAssumption
<1>0. pc \in [Flows -> Awaits] /\ seen \in [Flows -> {"nothing", "legacy", "mpid"}]
  BY DEF StateOK, FlowOK
<1>1. CASE DevicesKnown(f) \/ DevicesUnknown(f)
  BY <1>0, <1>1 DEF DevicesKnown, DevicesUnknown, SubscribeToPortal, Blank
<1>2. CASE ConnectResolves(f) \/ LockCancels(f) \/ LockReturns(f)
  BY <1>0, <1>2 DEF ConnectResolves, LockCancels, LockReturns, Blank, Mute, out
<1>3. CASE DiscoverResolves(f) \/ ServicesResolve(f)
  BY <1>0, <1>3 DEF DiscoverResolves, ServicesResolve, Abandons, Blank
<1>4. CASE FlowFails(f)
  BY <1>0, <1>4 DEF FlowFails, Blank, out
<1>5. ASSUME NEW s \in Services, NextService(f, s, "nothing", monitors)
      PROVE  Mute' /\ \A g \in Flows : Blank(g)'
  BY <1>0, <1>5 DEF NextService, AfterEnumeration, FallToLocked, LockDown, Blank, Mute, out
<1>6. CASE \E s \in Services : CharsResolve(f, s) \/ CharsReject(f, s)
  <2>1. seen[f] = "nothing"
    BY DEF Blank
  <2>2. CASE \E s \in Services : NextService(f, s, "nothing", monitors)
    BY <2>2, <1>5
  <2>3. CASE Abandons(f) /\ seen' = [seen EXCEPT ![f] = "nothing"]
    BY <1>0, <2>3 DEF Abandons, Blank
  <2>. QED  BY <1>6, <2>1, <2>2, <2>3 DEF CharsResolve, CharsReject
<1>7. CASE MpidResolves(f) \/ MpidFails(f)
  BY <1>7 DEF MpidResolves, MpidFails, Blank
<1>. QED  BY <1>1, <1>2, <1>3, <1>4, <1>6, <1>7 DEF FlowSteps

LEMMA GatedNext == StateOK /\ GatedSilent /\ [Next]_vars => GatedSilent'
<1>. SUFFICES ASSUME StateOK, GatedSilent, [Next]_vars, firmware = "gated"
              PROVE  Mute' /\ \A f \in Flows : Blank(f)'
  BY FirmwareFixed DEF GatedSilent
<1>. USE MuteOperators, OffStatesAssumption
<1>0. /\ Mute /\ \A f \in Flows : Blank(f)
      /\ pc \in [Flows -> Awaits]
  BY DEF GatedSilent, StateOK, FlowOK
<1>1. CASE Start \/ CallerSteps \/ Stop
  BY <1>0, <1>1 DEF Start, CallerSteps, Stop, PermissionsGranted, PermissionsDenied,
       StopCancels, StopReturns, flow, out, Blank, Mute
<1>2. CASE EmitCurrentState \/ \E s \in OffStates \cup {"poweredOn"} : RadioChanges(s)
  BY <1>0, <1>2 DEF EmitCurrentState, RadioChanges, flow, out, Blank
<1>3. CASE ScanErrors \/ ScanStarts \/ ScanStartRejects
  BY <1>0, <1>3 DEF ScanErrors, ScanStarts, ScanStartRejects, flow, Blank
<1>4. ASSUME NEW f \in Flows, ScanFinds(f)
      PROVE  Mute' /\ \A g \in Flows : Blank(g)'
  BY <1>0, <1>4 DEF ScanFinds, SubscribeToPortal, Blank
<1>5. CASE ScanTimesOut
  BY <1>0, <1>5 DEF ScanTimesOut, flow, Blank, out
<1>6. ASSUME NEW f \in Flows, RetryFires(f)
      PROVE  Mute' /\ \A g \in Flows : Blank(g)'
  BY <1>0, <1>6 DEF RetryFires, Blank
<1>7. CASE LinkDrops \/ DropDelivered
  BY <1>0, <1>7 DEF LinkDrops, DropDelivered, flow, out, Blank
<1>8. CASE \E f \in Flows : FlowSteps(f)
  BY <1>0, <1>8, GatedFlow
<1>9. CASE UNCHANGED vars
  BY <1>0, <1>9 DEF vars, flow, out, Blank
<1>. QED
  BY <1>1, <1>2, <1>3, <1>4, <1>5, <1>6, <1>7, <1>8, <1>9 DEF Next, System, ScanSteps, Timers

\* A portal without telemetry is never announced as connected, for any number of
\* overlapping attempts and services.
THEOREM GatedStaysUnconnected == Spec => []GatedNeverConnected
<1>1. Init => GatedSilent
  BY DEF Init, GatedSilent, Mute, Blank
<1>2. GatedSilent => GatedNeverConnected
  BY DEF GatedSilent, GatedNeverConnected, Mute
<1>. QED  BY <1>1, <1>2, GatedNext, TypeCorrect, PTL DEF Spec, TypeOK
=============================================================================
