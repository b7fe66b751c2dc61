------------------------------- MODULE PortalView -------------------------------
(***************************************************************************)
(* What the app shows of the portal: pure functions of the portal store, of *)
(* the controller's state and of the garage (apps/mobile/src/portal/         *)
(* selectors.ts and the screens and components that draw its results).  A   *)
(* view is the record of what it shows or offers.  A status is named, not    *)
(* worded; a spoken label that repeats a field is left out.                 *)
(***************************************************************************)
EXTENDS Integers, Sequences, FiniteSets

CONSTANT None

BusyPhases  == {"scanning", "connecting", "discovering", "authenticating", "reconnecting"}
FaultPhases == {"error", "poweredOff", "unauthorized", "unsupported", "locked"}

FirstN(s, n) == SubSeq(s, 1, IF n < Len(s) THEN n ELSE Len(s))
LastN(s, n)  == SubSeq(s, IF n < Len(s) THEN Len(s) - n + 1 ELSE 1, Len(s))

-----------------------------------------------------------------------------
(* The status: p is [connection, control, phase, mode, manual].             *)

Status(label, tone, action) == [label |-> label, tone |-> tone, action |-> action, busy |-> tone = "busy"]

ConnectedStatus(p) ==
  Status(CASE p.mode = "demo"               -> "demoReady"
           [] p.control = "carPresent"      -> "carPresent"
           [] p.control = "transitional"    -> "reading"
           [] OTHER                         -> "connected", "connected", "disconnect")

BusyStatus(p) ==
  Status(CASE p.mode = "demo"           -> "startingDemo"
           [] p.phase \in BusyPhases    -> p.phase
           [] OTHER                     -> "scanning", "busy", "none")

IdleStatus(p) ==
  Status(CASE p.mode = "demo" -> "demoPaused" [] p.manual -> "disconnected" [] OTHER -> "ready", "idle", "connect")

portalStatusPresentation(p) ==
  IF p.connection = "connected" THEN ConnectedStatus(p)
  ELSE IF p.connection = "connecting" \/ p.phase \in BusyPhases THEN BusyStatus(p)
  ELSE IF p.phase \in FaultPhases \cup {"notFound"} THEN Status(p.phase, "error", "retry")
  ELSE IdleStatus(p)

\* What a press does: a disconnect is asked about first.
usePortalStatusAction(p, confirmed) ==
  CASE portalStatusPresentation(p).action = "none"       -> "nothing"
    [] portalStatusPresentation(p).action = "disconnect" -> IF confirmed THEN "disconnect" ELSE "nothing"
    [] OTHER                                             -> portalStatusPresentation(p).action

statusChipPresentation(p) ==
  LET status == portalStatusPresentation(p)
  IN  [tone  |-> CASE status.busy                  -> "searching"
                   [] p.mode = "demo" \/ p.connection # "connected" -> "demo"
                   [] p.control = "carPresent"     -> "onPortal"
                   [] OTHER                        -> "connected",
       label |-> CASE p.connection = "connected" /\ p.mode = "demo" -> "demoMode"
                   [] status.busy /\ p.phase = "scanning"           -> "searching"
                   [] p.connection = "connected" /\ p.mode # "demo" /\ p.control # "transitional" ->
                        IF p.control = "carPresent" THEN "onPortal" ELSE "portalLive"
                   [] OTHER                                         -> status.label,
       error |-> status.tone = "error", hollow |-> status.busy]

StatusPill(p) == [tone |-> portalStatusPresentation(p).tone,
                  disabled |-> portalStatusPresentation(p).action = "none"]

StatusChip(p) == [chip |-> statusChipPresentation(p),
                  disabled |-> portalStatusPresentation(p).action = "none"]

portalCardPresentation(p) ==
  LET status == portalStatusPresentation(p)
      demo   == p.mode = "demo"
      tone   == CASE status.busy -> "searching" [] status.tone = "connected" -> "connected" [] OTHER -> "idle"
  IN  [tone    |-> tone,
       eyebrow |-> IF tone # "connected" THEN status.label ELSE IF demo THEN "demoPortal" ELSE "connected",
       action  |-> IF status.action = "none" THEN None ELSE status.action,
       error   |-> status.tone = "error"]

PortalCard(p, confirmed) == [card |-> portalCardPresentation(p), press |-> usePortalStatusAction(p, confirmed)]

\* What went wrong with the radio, and the way out: None when there is nothing to say.
bleStatusBanner(phase) ==
  IF phase \notin {"poweredOff", "unauthorized", "unsupported", "error", "notFound"} THEN None
  ELSE [tone |-> IF phase \in {"unauthorized", "unsupported"} THEN "danger" ELSE "warn",
        openSettings |-> phase = "unauthorized"]

BleStatusBanner(phase) ==
  LET banner == bleStatusBanner(phase)
  IN  IF banner = None THEN None
      ELSE [tone |-> banner.tone,
            offers |-> IF banner.openSettings THEN "settings" ELSE IF phase = "unsupported" THEN "nothing" ELSE "retry"]

shouldShowFindPortal(p, car, passes) ==
  p.mode = "live" /\ p.connection # "connected" /\ car = None /\ passes = <<>>

FindPortal(p) ==
  [label  |-> IF p.phase = "scanning" THEN "searching" ELSE statusChipPresentation(p).label,
   fault  |-> BleStatusBanner(p.phase),
   advice |-> IF bleStatusBanner(p.phase) # None THEN None
              ELSE IF p.manual THEN "reconnect by hand" ELSE "connects on its own"]

-----------------------------------------------------------------------------
(* The car and its speeds.  A speed is whole scale mph, a calibration is in  *)
(* hundredths.                                                              *)

MIN_CALIBRATION == 50
MAX_CALIBRATION == 200
clampCalibration(c) == IF c < MIN_CALIBRATION THEN MIN_CALIBRATION ELSE IF c > MAX_CALIBRATION THEN MAX_CALIBRATION ELSE c

\* In thousandths of the unit; a kilometre per hour is 1.609 of a mile's.
convertSpeed(mph, display) ==
  LET calibrated == 10 * mph * clampCalibration(display.calibration)
  IN  IF display.unit = "kmh" THEN (calibrated * 1609) \div 1000 ELSE calibrated

formatSpeedValue(mph, display) == (convertSpeed(mph, display) + 500) \div 1000
formatBestSpeed(mph, display)  == IF mph > 0 THEN formatSpeedValue(mph, display) ELSE None

\* The car on the portal, else the last one, else the first of the garage.
carHeroModel(current, last, garage, catalog, bestMph, lastMph) ==
  LET candidate == CASE current # None -> current [] last # None -> last
                     [] garage # <<>> -> garage[1] [] OTHER -> None
      known     == {i \in DOMAIN garage : candidate # None /\ garage[i].uid = candidate.uid}
      record    == garage[CHOOSE i \in known : \A j \in known : i <= j]
  IN  IF candidate = None THEN None
      ELSE [uid       |-> candidate.uid,
            title     |-> CASE catalog # None -> catalog
                            [] known # {} /\ record.name # None -> record.name
                            [] OTHER -> candidate.uid,
            serial    |-> IF candidate.serial # None \/ known = {} THEN candidate.serial ELSE record.serial,
            isCurrent |-> current # None /\ current.uid = candidate.uid,
            bestMph   |-> IF known # {} /\ record.bestMph > bestMph THEN record.bestMph ELSE bestMph,
            lastMph   |-> lastMph]

ActiveCarStrip(model, catalog) ==
  [state |-> CASE model = None -> "ready" [] model.isCurrent -> "on portal" [] OTHER -> "last scanned",
   opens |-> IF model = None THEN None ELSE model.uid,
   identified |-> catalog # None]

CurrentCarHero(model) ==
  IF model = None THEN [state |-> "ready", context |-> "none", speed |-> 0]
  ELSE [state |-> IF model.isCurrent THEN "on portal" ELSE "last scanned",
        context |-> CASE model.lastMph # None /\ model.lastMph >= 1 -> "last" [] model.bestMph > 0 -> "best" [] OTHER -> "none",
        speed |-> IF model.lastMph # None /\ model.lastMph >= 1 THEN model.lastMph ELSE model.bestMph]

isSessionBest(mph, bestMph) == mph > 0 /\ bestMph > 0 /\ mph >= bestMph
recentPassBar(mph, latest, newBest) ==
  CASE latest /\ newBest -> "best" [] latest \/ mph >= 220 -> "fast" [] OTHER -> "muted"
sessionPassCaption(n) == IF n >= 20 THEN "recent" ELSE "session"

\* The newest bars, oldest first.
SpeedTrace(values, newBest, limit) ==
  LET recent == LastN(values, limit)
  IN  [i \in DOMAIN recent |-> recentPassBar(recent[i], i = Len(recent), newBest)]

RecentPasses(passes, bestMph, limit) ==
  [i \in DOMAIN FirstN(passes, limit) |-> [pass |-> passes[i], best |-> passes[i].mph >= bestMph /\ bestMph > 0]]

-----------------------------------------------------------------------------
(* The screens.  passes are the store's, newest first.                      *)

\* A pass buzzes for a record when it is the best there is, ties included.
PassHaptic(passes, bestMph, haptics) ==
  CASE ~haptics \/ passes = <<>> -> "none" [] passes[1].mph >= bestMph -> "record" [] OTHER -> "pass"

Stats(passes, bestMph, display) ==
  [last |-> formatBestSpeed(IF passes = <<>> THEN 0 ELSE passes[1].mph, display),
   best |-> formatBestSpeed(bestMph, display), passes |-> Len(passes), caption |-> sessionPassCaption(Len(passes))]

Gauge(passes, bestMph, racePhase) ==
  LET mph == IF passes = <<>> THEN 0 ELSE passes[1].mph
  IN  [value |-> mph, newBest |-> isSessionBest(mph, bestMph), mode |-> IF racePhase = "idle" THEN "sweep" ELSE "track"]

Banners(p) ==
  [ble |-> IF p.mode = "live" THEN BleStatusBanner(p.phase) ELSE None,
   locked |-> p.mode = "live" /\ p.phase = "locked"]

SpeedometerScreen(p, car, hero, passes, bestMph, racePhase, display) ==
  IF shouldShowFindPortal(p, car, passes)
  THEN [find |-> FindPortal(p)]
  ELSE [status |-> statusChipPresentation(p), banners |-> Banners(p), hero |-> hero,
        gauge  |-> Gauge(passes, bestMph, racePhase), stats |-> Stats(passes, bestMph, display),
        trace  |-> SpeedTrace([i \in DOMAIN FirstN(passes, 14) |-> FirstN(passes, 14)[Len(FirstN(passes, 14)) + 1 - i].mph],
                              Gauge(passes, bestMph, racePhase).newBest, 14)]

\* A status that changed is spoken while the screen has the focus; a hero that
\* changed is spoken wherever the user is.
SpokenStatus(before, after, focused) == IF after # before /\ focused THEN after ELSE None
SpokenHero(before, after)            == IF after # None /\ after # before THEN after ELSE None

Summary(car, connection, lastMph, display) ==
  CASE car # None -> [car |-> car.uid, speed |-> IF lastMph >= 1 THEN formatSpeedValue(lastMph, display) ELSE None]
    [] connection = "connected" -> [car |-> None, speed |-> None]
    [] OTHER -> None

LiveScreen(p, canBle, car, lastMph, bestMph, passes, logs, display) ==
  [notices |-> {n \in {"no radio", "demo", "locked"} :
                  \/ n = "no radio" /\ ~canBle
                  \/ n = "demo" /\ canBle /\ p.mode = "demo"
                  \/ n = "locked" /\ p.phase = "locked"},
   adapter |-> IF p.phase = None THEN "idle" ELSE p.phase,
   summary |-> Summary(car, p.connection, lastMph, display),
   best    |-> formatBestSpeed(bestMph, display),
   passes  |-> Len(passes), log |-> logs, clear |-> logs # <<>>]
=============================================================================
