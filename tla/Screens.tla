-------------------------------- MODULE Screens --------------------------------
(***************************************************************************)
(* The tables of the sessions and the screens over them.                    *)
(*                                                                         *)
(* Six machines that share no state: the tables (SqliteSessions), the       *)
(* picker of identify.tsx, the banner of the trophies, the history screens, *)
(* the settings screen and the mock portal.  A behaviour moves one of them, *)
(* `open`, so that every state of each is reached and none of their         *)
(* products is; the others stay where they started.                         *)
(***************************************************************************)
EXTENDS SqliteSessions

CONSTANTS
  None,
  Castings, CastingOf, Catalog, Queries, NoQuery, Hits, Bundled,             \* Identity
  Catalogue, Snapshots, MaxApplied,                                          \* Trophies
  MaxPasses, MaxFocus, MaxPending, MAX_ENTRIES,                              \* HistoryScreens
  Drafts, Trimmed, Stored, Shareable, CanBle, LAP_OPTIONS,                   \* SettingsScreen
  MinCalibration, MaxCalibration, CALIBRATION_STEP,
  Gaps, MaxStarts, MaxSeen                                                   \* MockPortal

VARIABLES
  open,
  links, identifications, seed, picker, before,                              \* Identity
  unlocked, stats, unlocksRead, banners, mounted, armed, onTv,               \* Trophies
  applied, earned, gone, announced,
  ready, table, made, held, current, issued, statements, focus, visit,       \* HistoryScreens
  list, detail, half, cache, spoilt, cleared,
  shown, hydrated, row, draft, dirty, asked, portal,                         \* SettingsScreen
  running, timers, loop, connection, seen, starts                            \* MockPortal

Id       == INSTANCE Identity
Trophies == INSTANCE Trophies WITH hydrated <- unlocksRead, queue <- banners
History  == INSTANCE HistoryScreens WITH queue <- statements
Settings == INSTANCE SettingsScreen
Mock     == INSTANCE MockPortal

ASSUME CatalogueFits == Id!CatalogueFits
ASSUME GoalsFit      == Trophies!GoalsFit
ASSUME HistoryFits   == History!HistoryFits
ASSUME SettingsFit   == Settings!SettingsFit
ASSUME GapsFit       == Mock!GapsFit

pickerVars   == <<links, identifications, seed, picker, before>>
trophyVars   == <<unlocked, stats, unlocksRead, banners, mounted, armed, onTv, applied, earned, gone, announced>>
historyVars  == <<ready, table, made, held, current, issued, statements, focus, visit,
                  list, detail, half, cache, spoilt, cleared>>
settingsVars == <<shown, hydrated, row, draft, dirty, asked, portal>>
mockVars     == <<running, timers, loop, connection, seen, starts>>
screenVars   == <<pickerVars, trophyVars, historyVars, settingsVars, mockVars>>
appVars      == <<open, vars, screenVars>>

AppInit ==
  /\ open \in {"identify", "trophies", "history", "settings", "mock", "tables"}
  /\ Init /\ Id!Init /\ Trophies!Init /\ History!Init /\ Settings!Init /\ Mock!Init
  /\ open # "settings" => portal.mode = "live"
  /\ open # "tables" => \A c \in Calls : target[c] = 1

Moves(screen) == open = screen /\ UNCHANGED open

AppNext ==
  \/ Moves("tables") /\ Next /\ UNCHANGED screenVars
  \/ /\ Moves("identify") /\ Id!Next
     /\ UNCHANGED <<vars, trophyVars, historyVars, settingsVars, mockVars>>
  \/ /\ Moves("trophies") /\ Trophies!Next
     /\ UNCHANGED <<vars, pickerVars, historyVars, settingsVars, mockVars>>
  \/ /\ Moves("history") /\ History!Next
     /\ UNCHANGED <<vars, pickerVars, trophyVars, settingsVars, mockVars>>
  \/ /\ Moves("settings") /\ Settings!Next
     /\ UNCHANGED <<vars, pickerVars, trophyVars, historyVars, mockVars>>
  \/ /\ Moves("mock") /\ Mock!Next
     /\ UNCHANGED <<vars, pickerVars, trophyVars, historyVars, settingsVars>>

AppSpec == AppInit /\ [][AppNext]_appVars /\ WF_trophyVars(Trophies!Expire)

-----------------------------------------------------------------------------
(***************************************************************************)
(* The picker: what is asked to be confirmed is among the cars listed, and  *)
(* the wave filtered by is one of the year's (identify.tsx:152-224).        *)
(***************************************************************************)
PickIsOffered == Id!PickIsOffered

(***************************************************************************)
(* The picker: undo gives every tag of the casting the name it had before   *)
(* the pick (useCarIdentity.ts:79-99).                                      *)
(***************************************************************************)
UndoRestores == Id!UndoRestores

(***************************************************************************)
(* The picker: the pick just made is the one its tag shows                  *)
(* (useCarIdentity.ts:6-9).                                                 *)
(***************************************************************************)
PickRenders == Id!PickRenders

(***************************************************************************)
(* The trophies: off the TV stage the banners clear themselves              *)
(* (TrophyUnlockBanner.tsx:40-42, 68).                                      *)
(***************************************************************************)
BannersClear == Trophies!BannersClear

(***************************************************************************)
(* The trophies: one banner per unlock (TrophyUnlockBanner.tsx:3-4).        *)
(***************************************************************************)
AnnouncedOnce == Trophies!AnnouncedOnce

(***************************************************************************)
(* The history: what a complete reload of the detail shows is one snapshot  *)
(* of its session, and while no addPass met another or left something half  *)
(* done, the detail lists the passes its header counts, and a ticket's line *)
(* is drawn from all the passes the ticket counts, although each is read by *)
(* statements that passes come between ([id].tsx:50-70,                     *)
(* sparkCache.ts:18-42).                                                    *)
(***************************************************************************)
ShownTogether == History!DetailAgrees /\ History!SparkIsComplete

(***************************************************************************)
(* The history: a session that a clear removed is not listed again          *)
(* (history.tsx:39-77).                                                     *)
(***************************************************************************)
ClearedIsGone == History!ClearedIsGone

(***************************************************************************)
(* The settings: a stored name is never overwritten by a draft that was not *)
(* typed, whenever it is hydrated (settings.tsx:96-121).                    *)
(***************************************************************************)
OnlyEditsRename == Settings!OnlyEditsRename

(***************************************************************************)
(* The mock portal: each start unfolds from its connect, whatever was left  *)
(* of the start before it (mockPortal.ts:77-140).                           *)
(***************************************************************************)
StartsAfresh == Mock!StartsAfresh
=============================================================================
