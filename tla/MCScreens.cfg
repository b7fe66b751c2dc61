SPECIFICATION AppSpec
CONSTANTS
  None = None
  Null = Null
  Calls = {p1, p2, p3}
  MaxSessions = 2
  Castings <- MCCastings
  CastingOf <- MCCastingOf
  Catalog <- MCCatalog
  Queries <- MCQueries
  NoQuery = "none"
  Hits <- MCHits
  Bundled <- MCBundled
  Catalogue <- MCCatalogue
  Snapshots <- MCSnapshots
  MaxApplied = 3
  MaxPasses = 3
  MaxFocus = 4
  MaxPending = 4
  MAX_ENTRIES = 2
  Drafts <- MCDrafts
  Trimmed <- MCTrimmed
  Stored <- MCStored
  Shareable = {"k1"}
  CanBle = TRUE
  LAP_OPTIONS <- MCLaps
  MinCalibration = 50
  MaxCalibration = 200
  CALIBRATION_STEP = 75
  Gaps = {13, 19}
  MaxStarts = 3
  MaxSeen = 5
INVARIANTS
  DriftNeedsOverlap
  PickIsOffered
  ShownTogether
  ClearedIsGone
  StartsAfresh
PROPERTIES
  UndoRestores
  BannersClear
  OnlyEditsRename
CHECK_DEADLOCK FALSE
