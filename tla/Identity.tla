------------------------------- MODULE Identity -------------------------------
(***************************************************************************)
(* Which real casting a tag is: the identity store                          *)
(* (store/identityStore.ts), the operations over it                         *)
(* (catalog/useCarIdentity.ts), and the modal that picks a catalogue car    *)
(* for a tag (app/identify.tsx) with its search (catalog/catalog.ts).       *)
(*                                                                         *)
(* A tag is linked to a casting key: the one its Mattel id holds, or, when  *)
(* it is named before any Mattel id was read, a key made up for the tag,    *)
(* "uid:<uid>", which is the tag itself here.  The texts of the catalogue   *)
(* are left out: Hits says which of its fields a query matches, and how.    *)
(***************************************************************************)
EXTENDS Naturals, FiniteSets, FiniteSetsExt

CONSTANTS
  Castings, CastingOf,   \* keys Mattel ids hold, and the one each tag's holds
  Catalog,               \* catalogue id -> [year, wave]
  Queries, NoQuery,      \* what is typed, the empty field among it
  Hits,                  \* query -> catalogue id -> the matches, of Matches
  Bundled,               \* casting key -> catalogue id: the seed file, bad entries included
  None

VARIABLES
  links, identifications, seed,   \* IdentityState
  picker,                         \* the modal's state, or None while it is closed
  before                          \* what every tag was called before the pick that can be undone

identityVars == <<links, identifications, seed, picker, before>>

Uids  == DOMAIN CastingOf
Keys  == Castings \cup Uids
Cars  == DOMAIN Catalog
Years == {Catalog[c].year : c \in Cars}
Waves == {Catalog[c].wave : c \in Cars}

(* score and toyNumberScore: how much each kind of match is worth. *)
TextScore == [nameIs |-> 100, nameStarts |-> 80, nameHolds |-> 60, toyHolds |-> 40,
              seriesHolds |-> 30, waveHolds |-> 25, colorHolds |-> 22, yearIs |-> 20]
ToyScore  == [toyIs |-> 200, toyStarts |-> 120, toyHolds |-> 90]
Matches   == DOMAIN TextScore \cup DOMAIN ToyScore

(* The modal's state; its undo is of the last pick confirmed. *)
Undos   == [key : Keys, previous : Cars \cup {None}, car : Cars]
Pickers == [uid : Uids, mode : {"catalog", "toyNumber"}, query : Queries,
            year : Years \cup {None}, wave : Waves \cup {None},
            candidate : Cars \cup {None}, undo : Undos \cup {None}]

(* What a catalogue, its seed and its tags must be. *)
CatalogueFits ==
  /\ CastingOf \in [Uids -> Castings] /\ Castings \cap Uids = {}
  /\ NoQuery \in Queries
  /\ Hits \in [Queries -> [Cars -> SUBSET Matches]]
  /\ DOMAIN Bundled \subseteq Keys
  /\ None \notin Keys \cup Cars \cup Years \cup Waves
  /\ None \notin Undos /\ None \notin Pickers

(***************************************************************************)
(* The catalogue: searchCatalog, ranked; the waves offered for a year.      *)
(***************************************************************************)
Rank(mode, query, c) ==
  LET score == IF mode = "toyNumber" THEN ToyScore ELSE TextScore
      hits  == Hits[query][c] \cap DOMAIN score
  IN  IF query = NoQuery THEN 1 ELSE Max({0} \cup {score[h] : h \in hits})

Results(p) ==
  {c \in Cars : /\ p.year \in {None, Catalog[c].year}
                /\ p.wave \in {None, Catalog[c].wave}
                /\ Rank(p.mode, p.query, c) > 0}

AvailableWaves(year) == {Catalog[c].wave : c \in {d \in Cars : year \in {None, Catalog[d].year}}}

(* The user's own pick wins, the seed fills the gaps. *)
CatalogIdFor(u) ==
  IF links[u] = None THEN None
  ELSE IF identifications[links[u]] # None THEN identifications[links[u]]
  ELSE seed[links[u]]

Shown == [u \in Uids |-> CatalogIdFor(u)]

(* How many other tags one pick names (over the tags the garage holds). *)
OtherCars(u) == IF links[u] = None THEN 0 ELSE Cardinality({v \in Uids \ {u} : links[v] = links[u]})

-----------------------------------------------------------------------------
Init ==
  /\ links = [u \in Uids |-> None]
  /\ identifications = [k \in Keys |-> None]
  /\ seed = [k \in Keys |-> None]
  /\ picker = None
  /\ before = None

(* sanitizeSeed: keys made up for a tag and ids not in the catalogue are dropped. *)
Sanitised ==
  [k \in Keys |-> IF k \in Castings \cap DOMAIN Bundled /\ Bundled[k] \in Cars THEN Bundled[k] ELSE None]

LoadSeed ==
  /\ seed' = Sanitised /\ before' = None
  /\ UNCHANGED <<links, identifications, picker>>

(* A detection that carries a Mattel id. *)
LinkCar(u) ==
  /\ links[u] # CastingOf[u]
  /\ links' = [links EXCEPT ![u] = CastingOf[u]]
  /\ before' = None
  /\ UNCHANGED <<identifications, seed, picker>>

Open(u) ==
  /\ picker = None
  /\ picker' = [uid |-> u, mode |-> "catalog", query |-> NoQuery, year |-> None,
                wave |-> None, candidate |-> None, undo |-> None]
  /\ UNCHANGED <<links, identifications, seed, before>>

Close ==
  /\ picker # None /\ picker' = None /\ before' = None
  /\ UNCHANGED <<links, identifications, seed>>

(* Whatever changes the results drops the candidate. *)
Filter(p) ==
  /\ picker # None
  /\ picker' = [p EXCEPT !.candidate = None]
  /\ UNCHANGED <<links, identifications, seed, before>>

ChooseMode(m) ==
  Filter(IF m = "toyNumber"
         THEN [picker EXCEPT !.mode = m, !.query = NoQuery, !.year = None, !.wave = None]
         ELSE [picker EXCEPT !.mode = m, !.query = NoQuery])
Type(q)     == Filter([picker EXCEPT !.query = q])
PickYearOnly(y) == Filter([picker EXCEPT !.year = y])
PickYear(y) == Filter([picker EXCEPT !.year = y, !.wave = None])
PickWave(w) == Filter([picker EXCEPT !.wave = w])
Cancel      == Filter(picker)

Choose(c) ==
  /\ picker' = [picker EXCEPT !.candidate = c]
  /\ UNCHANGED <<links, identifications, seed, before>>

(* confirmPick over identifyCar: a tag without a key is linked to one of its own. *)
Confirm ==
  LET u   == picker.uid
      key == IF links[u] = None THEN u ELSE links[u]
  IN  /\ picker # None /\ picker.candidate # None
      /\ links' = [links EXCEPT ![u] = key]
      /\ identifications' = [identifications EXCEPT ![key] = picker.candidate]
      /\ picker' = [picker EXCEPT !.candidate = None,
                      !.undo = [key |-> key, previous |-> identifications[key], car |-> picker.candidate]]
      /\ before' = Shown
      /\ UNCHANGED seed

(* undoIdentification: the user's previous pick, or none, so that the seed shows again. *)
UndoneByForgetting(change) == [identifications EXCEPT ![change.key] = None]
Undone(change) == [identifications EXCEPT ![change.key] = change.previous]

UndoPick ==
  /\ picker # None /\ picker.candidate = None /\ picker.undo # None
  /\ identifications' = Undone(picker.undo)
  /\ picker' = [picker EXCEPT !.undo = None]
  /\ before' = None
  /\ UNCHANGED <<links, seed>>

Next ==
  \/ LoadSeed
  \/ \E u \in Uids : LinkCar(u) \/ Open(u)
  \/ Close \/ Confirm \/ UndoPick
  \/ /\ picker # None
     /\ \/ \E m \in {"catalog", "toyNumber"} : ChooseMode(m)
        \/ \E q \in Queries : Type(q)
        \/ \E y \in Years \cup {None} : PickYear(y)
        \/ \E w \in AvailableWaves(picker.year) \cup {None} : PickWave(w)
        \/ \E c \in Results(picker) : Choose(c)
        \/ picker.candidate # None /\ Cancel

Spec == Init /\ [][Next]_identityVars

-----------------------------------------------------------------------------
(* exportIdentifications: what may be shared is the user's own picks of a    *)
(* casting key; keys made up for a tag stay on the device.                   *)
Exported == {[castingKey |-> k, catalogId |-> identifications[k]] :
               k \in {k \in Castings : identifications[k] \in Cars}}

(***************************************************************************)
(* What the panel asks to confirm is among the cars listed under it, and    *)
(* the wave chosen is one offered for the year chosen, whatever order the   *)
(* mode, the query and the filters are changed in (identify.tsx:81-89,      *)
(* 152-224).                                                                *)
(***************************************************************************)
PickIsOffered ==
  picker # None =>
    /\ picker.candidate # None => picker.candidate \in Results(picker)
    /\ picker.wave # None => picker.wave \in AvailableWaves(picker.year)

(***************************************************************************)
(* Undo gives every tag, the one picked for and all that share its casting, *)
(* the name it had before the pick, whether that came from an earlier pick  *)
(* or from the community seed (useCarIdentity.ts:79-99), unless the links   *)
(* or the seed changed in between.                                          *)
(***************************************************************************)
UndoRestores == [][UndoPick /\ before # None => Shown' = before]_identityVars

(***************************************************************************)
(* "the pick still persists and renders" (useCarIdentity.ts:6-9): while the *)
(* pick can be undone, its tag shows it.                                    *)
(***************************************************************************)
PickRenders ==
  picker # None /\ picker.undo # None => CatalogIdFor(picker.uid) = picker.undo.car
=============================================================================
