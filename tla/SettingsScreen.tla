---------------------------- MODULE SettingsScreen ----------------------------
(***************************************************************************)
(* The settings screen (apps/mobile/src/app/settings.tsx) over the settings *)
(* store: the name field with its draft, the two steppers, the switches,    *)
(* the mode switch, the reset dialog, and the hydration of the store, which *)
(* may come after the screen was opened.  React runs an effect before the   *)
(* next event, so the effect that follows the stored name is part of the    *)
(* step that changes the name.  A name is a member of Drafts; Trimmed says  *)
(* what trim() makes of it and "" is what nothing is left of.  Calibrations *)
(* are hundredths.  What the setters persist is in module Bootstrap.        *)
(***************************************************************************)
EXTENDS Integers, Sequences

CONSTANTS
  Drafts, Trimmed,           \* what can be typed, and what trim() makes of it
  LAP_OPTIONS,
  MinCalibration, MaxCalibration, CALIBRATION_STEP,   \* MIN_CALIBRATION, MAX_CALIBRATION
  CanBle,
  Stored,                    \* rows that may be on disk: name, laps, calibration
  Shareable                  \* identifications that resolve to a catalog car

VARIABLES
  shown,        \* useSettingsStore: name, laps, calibration, unit, haptics
  hydrated,
  row,          \* what is on disk, until it is hydrated
  draft, dirty, \* draftName, nameDirty
  asked,        \* the reset dialog is open
  portal        \* usePortalController: mode, ready, connection

(* trim() leaves nothing to trim, and only what is trimmed is stored. *)
SettingsFit ==
  /\ \A d \in Drafts : Trimmed[d] # "" => Trimmed[Trimmed[d]] = Trimmed[d]
  /\ \A name \in {"Player 1"} \cup {r.name : r \in Stored} : Trimmed[name] = name /\ name # ""

settingsVars == <<shown, hydrated, row, draft, dirty, asked, portal>>

DEFAULT_SETTINGS ==
  [name |-> "Player 1", laps |-> LAP_OPTIONS[1], calibration |-> 100, unit |-> "mph", haptics |-> TRUE]

Least(a, b)    == IF a < b THEN a ELSE b
Greatest(a, b) == IF a > b THEN a ELSE b

clampCalibration(c) == Least(MaxCalibration, Greatest(MinCalibration, c))

Options == {LAP_OPTIONS[i] : i \in DOMAIN LAP_OPTIONS}

\* What the store makes of a row: a lap count that is not on offer falls back to
\* the default, a calibration is clamped.
Coerced(r) ==
  [DEFAULT_SETTINGS EXCEPT
     !.name = r.name,
     !.laps = IF r.laps \in Options THEN r.laps ELSE @,
     !.calibration = clampCalibration(r.calibration)]

Distance(a, b) == IF a < b THEN b - a ELSE a - b

\* The option nearest to the current one, the first of equals, then one step on
\* if that is the current one.
stepLapOption(current, direction) ==
  LET nearest == CHOOSE i \in DOMAIN LAP_OPTIONS : \A j \in DOMAIN LAP_OPTIONS :
                   \/ Distance(LAP_OPTIONS[i], current) < Distance(LAP_OPTIONS[j], current)
                   \/ Distance(LAP_OPTIONS[i], current) = Distance(LAP_OPTIONS[j], current) /\ i <= j
      index == IF LAP_OPTIONS[nearest] = current THEN nearest + direction ELSE nearest
  IN  LAP_OPTIONS[Greatest(1, Least(Len(LAP_OPTIONS), index))]

Unless(usable, control) == IF usable THEN {} ELSE {control}

\* The controls the screen shows disabled, or not at all.
PortalRows == Unless(portal.mode = "demo" /\ portal.connection = "connected", "samplePass")
LapStepper ==
  Unless(shown.laps > LAP_OPTIONS[1], "laps-")
    \cup Unless(shown.laps < LAP_OPTIONS[Len(LAP_OPTIONS)], "laps+")
CalibrationStepper ==
  Unless(shown.calibration > MinCalibration, "calibration-")
    \cup Unless(shown.calibration < MaxCalibration, "calibration+")
Startup   == Unless(CanBle /\ portal.ready, "mode")
Community == Unless(Shareable # {}, "share")

Enabled ==
  {"samplePass", "name", "laps-", "laps+", "unit", "calibration-", "calibration+", "haptics",
   "mode", "share", "reset"}
  \ (PortalRows \cup LapStepper \cup CalibrationStepper \cup Startup \cup Community)

-----------------------------------------------------------------------------
Init ==
  /\ shown = DEFAULT_SETTINGS /\ hydrated = FALSE /\ row \in Stored
  /\ draft = DEFAULT_SETTINGS.name /\ dirty = FALSE /\ asked = FALSE
  /\ portal \in [mode : {"live", "demo"}, ready : {TRUE}, connection : {"connected"}]
              \cup {[mode |-> "demo", ready |-> FALSE, connection |-> "disconnected"]}

\* Mutant: the effect leaves the field alone.
DraftStays(becomes) == draft

\* The effect on the stored name, unless an edit is in progress.
DraftFollows(becomes) == IF dirty \/ becomes = shown.name THEN draft ELSE becomes

\* The bootstrap's hydrate; it may come after the screen was opened.
Hydrate ==
  /\ ~hydrated
  /\ hydrated' = TRUE /\ shown' = Coerced(row)
  /\ draft' = DraftFollows(row.name)
  /\ UNCHANGED <<row, dirty, asked, portal>>

editName(text) ==
  /\ "name" \in Enabled
  /\ dirty' = TRUE /\ draft' = text
  /\ UNCHANGED <<shown, hydrated, row, asked, portal>>

\* On blur and on submit.
commitName ==
  LET next == IF Trimmed[draft] = "" THEN DEFAULT_SETTINGS.name ELSE Trimmed[draft]
  IN  /\ draft' = next
      /\ shown' = [shown EXCEPT !.name = next]
      /\ dirty' = FALSE
      /\ UNCHANGED <<hydrated, row, asked, portal>>

Set(changed) ==
  /\ shown' = changed
  /\ UNCHANGED <<hydrated, row, draft, dirty, asked, portal>>

stepLaps(direction) ==
  /\ (IF direction = 1 THEN "laps+" ELSE "laps-") \in Enabled
  /\ Set([shown EXCEPT !.laps = stepLapOption(@, direction)])

nudgeCalibration(direction) ==
  /\ (IF direction = 1 THEN "calibration+" ELSE "calibration-") \in Enabled
  /\ Set([shown EXCEPT !.calibration = clampCalibration(@ + direction * CALIBRATION_STEP)])

Toggle ==
  \/ \E u \in {"mph", "kmh"} : Set([shown EXCEPT !.unit = u])
  \/ Set([shown EXCEPT !.haptics = ~@])

setMode(mode) ==
  /\ "mode" \in Enabled
  /\ portal' = [portal EXCEPT !.mode = mode]
  /\ UNCHANGED <<shown, hydrated, row, draft, dirty, asked>>

confirmReset ==
  /\ ~asked /\ asked' = TRUE
  /\ UNCHANGED <<shown, hydrated, row, draft, dirty, portal>>

Cancel ==
  /\ asked /\ asked' = FALSE
  /\ UNCHANGED <<shown, hydrated, row, draft, dirty, portal>>

\* Mutant: the dialog puts the defaults back and forgets the field.
ResetKeepsDraft ==
  /\ asked /\ asked' = FALSE
  /\ shown' = DEFAULT_SETTINGS
  /\ portal' = IF portal.ready /\ CanBle THEN [portal EXCEPT !.mode = "live"] ELSE portal
  /\ UNCHANGED <<hydrated, row, draft, dirty>>

\* The dialog's button.  The controller answers setMode only once it is ready.
Reset ==
  /\ asked /\ asked' = FALSE
  /\ shown' = DEFAULT_SETTINGS
  /\ portal' = IF portal.ready /\ CanBle THEN [portal EXCEPT !.mode = "live"] ELSE portal
  /\ dirty' = FALSE /\ draft' = DEFAULT_SETTINGS.name
  /\ UNCHANGED <<hydrated, row>>

Next ==
  \/ Hydrate \/ commitName \/ Toggle \/ confirmReset \/ Cancel \/ Reset
  \/ \E text \in Drafts : editName(text)
  \/ \E direction \in {-1, 1} : stepLaps(direction) \/ nudgeCalibration(direction)
  \/ \E mode \in {"live", "demo"} : setMode(mode)

Spec == Init /\ [][Next]_settingsVars
-----------------------------------------------------------------------------
(* Properties.                                                              *)

\* "stops a stale default draft overwriting the persisted name": once the stored
\* settings were read, the name changes only by the reset dialog or to what was
\* typed since the last commit (nameDirty, the effect on playerName).
OnlyEditsRename ==
  [][hydrated /\ shown'.name # shown.name => dirty \/ (asked /\ shown' = DEFAULT_SETTINGS)]_settingsVars
=============================================================================
