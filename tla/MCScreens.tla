------------------------------- MODULE MCScreens -------------------------------
(***************************************************************************)
(* The screens over small catalogues, sessions, drafts and gaps, and the    *)
(* views they draw with: these have no state, and module Views checks them  *)
(* when its assumptions are evaluated.                                      *)
(***************************************************************************)
EXTENDS Views, Screens

Goal(id, category, metric, threshold, compare) ==
  [id |-> id, category |-> category, metric |-> metric, threshold |-> threshold, compare |-> compare]

\* Two tags of one casting; a casting the seed names, and a key it may not name.
MCCastings  == {"k1"}
MCCastingOf == [t1 |-> "k1", t2 |-> "k1"]
MCCatalog   == [a |-> [year |-> "2019", wave |-> "w1"], b |-> [year |-> "2020", wave |-> "w2"]]
MCQueries   == {"none", "q"}
MCHits      == [none |-> [a |-> {}, b |-> {}],
                q    |-> [a |-> {"nameStarts", "nameHolds"}, b |-> {"toyHolds", "toyIs"}]]
MCBundled   == [k1 |-> "b", t1 |-> "a"]

\* Three goals, two of which one answer may reach together.
MCCatalogue == <<Goal("first", "racing", "races", 1, "gte"), Goal("fast", "racing", "lap", 5, "lte"),
                 Goal("cars", "collection", "cars", 1, "gte")>>
MCSnapshots == [races : {1}, lap : {None, 6, 5}, cars : {0, 1}]

\* A row with a lap count that is not on offer and a calibration out of range.
MCDrafts    == {"Player 1", "Bob", "Ann ", " "}
MCTrimmed   == ("Player 1" :> "Player 1") @@ ("Bob" :> "Bob") @@ ("Ann" :> "Ann") @@ ("Ann " :> "Ann") @@ (" " :> "")
MCLaps      == <<5, 10, 15>>
MCStored    == {[name |-> "Bob", laps |-> 7, calibration |-> 250]}
=============================================================================
