------------------------------ MODULE Bootstrap ------------------------------
(***************************************************************************)
(* The start of the application's persistence                               *)
(* (apps/mobile/src/store/persistence/initPersistence.ts, sqliteDb.ts,      *)
(* persistenceStatusStore.ts): the database is opened and migrated, the     *)
(* stores are hydrated one domain after the other, and only then are the    *)
(* sinks registered and the bridges wired, while the user and the portal go *)
(* on.  After that every change is handed to its domain's repository, and   *)
(* the achievements (store/achievementsStore.ts, achievements/engine.ts)    *)
(* are refreshed from race totals that are asked for and answered later.    *)
(*                                                                         *)
(* A domain's content is a number: the value of a setting, the catalog car  *)
(* of a casting, how many cars or results there are; 0 is the default.      *)
(* SQLite writes settle in the order they were issued (expo-sqlite,         *)
(* external); aggregates are answered in any order, as far as this goes.    *)
(* History has no store, and is PortalHistory's.                            *)
(***************************************************************************)
EXTENDS Integers, Sequences, SequencesExt

CONSTANTS Goals,        \* achievements: id -> [metric, threshold]
          MaxChanges, MaxStarts        \* bounds: writes issued by a change, runs

ASSUME BoundsAssumption == MaxChanges \in Nat /\ MaxStarts \in Nat
ASSUME GoalsAssumption  == IsFiniteSet(DOMAIN Goals)

VARIABLES
  pc,                       \* initPersistence: what it awaits
  memory,                   \* the domains whose repository is in memory
  reason,                   \* resolution.degradedReason
  status,                   \* persistenceStatusStore
  shown, unlocked,          \* the stores; unlocked: id -> time, 0 for none
  kept,                     \* the race results of the in-memory repository
  writes, asked, answers,   \* SQLite writes and aggregates not settled, totals not delivered
  version, tables, disk, badges,      \* the database file
  starts, changes,          \* bounds
  early, lost, unasked      \* history: changes without a sink, writes that failed, an aggregate that did

stores == <<shown, unlocked, kept>>
calls  == <<writes, asked, answers>>
file   == <<version, tables, disk, badges>>
vars   == <<pc, memory, reason, status, stores, calls, file, starts, changes, early, lost, unasked>>

\* PERSISTENCE_DOMAINS in the order of initializeRepositories; each has a
\* migration, and theirs is another order.
Order     == <<"Race", "Garage", "History", "Settings", "Achievements", "Identity">>
Domains   == {Order[i] : i \in DOMAIN Order}
Valued    == Domains \ {"History", "Achievements"}
MIGRATIONS == 6
Corrupt   == -1          \* a value that fails coerceSetting
Ids       == DOMAIN Goals
NotYet    == [mode |-> "initializing", domains |-> {}]

-----------------------------------------------------------------------------
\* A file that was never opened, that of the build that had race_results only
\* (user_version still 0), of any build since, or of a newer one.
Files ==
  {[version |-> 0, tables |-> {1}]} \cup
  {[version |-> v, tables |-> 1 .. v] : v \in 0 .. MIGRATIONS + 1}

Fresh == [d \in Valued |-> 0]

Init ==
  /\ pc = "off" /\ memory = {} /\ reason = "none" /\ status = NotYet
  /\ shown = Fresh /\ unlocked = [g \in Ids |-> 0] /\ kept = 0
  /\ writes = <<>> /\ asked = 0 /\ answers = {}
  /\ \E f \in Files : version = f.version /\ tables = f.tables
  /\ disk \in (IF 4 \in tables THEN {Fresh, [Fresh EXCEPT !["Settings"] = 1],
                                     [Fresh EXCEPT !["Settings"] = Corrupt]} ELSE {Fresh})
  /\ badges = [g \in Ids |-> 0]
  /\ starts = 0 /\ changes = 0
  /\ early = {} /\ lost = {} /\ unasked = FALSE

-----------------------------------------------------------------------------
(* resolveRepositories and openRedlineDb.                                   *)

Start ==
  /\ pc = "off" /\ starts < MaxStarts
  /\ pc' = "open" /\ starts' = starts + 1
  /\ UNCHANGED <<memory, reason, status, stores, calls, file, changes, early, lost, unasked>>

\* The module is not in this build, or the file cannot be opened or migrated.
InMemory ==
  /\ pc \in {"open", "migrate", "stamp"}
  /\ reason' \in (IF pc = "open" THEN {"unavailable"} ELSE {}) \cup {"initFailed"}
  /\ memory' = Domains
  /\ pc' = "Race"
  /\ UNCHANGED <<status, stores, calls, file, starts, changes, early, lost, unasked>>

Open ==
  /\ pc = "open"
  /\ pc' = IF version >= MIGRATIONS THEN "Race" ELSE "migrate"
  /\ UNCHANGED <<memory, reason, status, stores, calls, file, starts, changes, early, lost, unasked>>

\* Mutant: the step a file of this version was made by is taken for done.
ToDoAfter(v) == v + 2 .. MIGRATIONS

\* The steps a file of version v lacks, each CREATE TABLE IF NOT EXISTS.
ToDo(v) == v + 1 .. MIGRATIONS

\* The steps done since this open: nothing but the tables tells of them, and a
\* table that is there is a step without effect.
Migrate ==
  /\ pc = "migrate"
  /\ \/ \E m \in ToDo(version) \ tables :
          /\ ToDo(version) \cap (1 .. m - 1) \subseteq tables
          /\ tables' = tables \cup {m}
          /\ UNCHANGED pc
     \/ /\ ToDo(version) \subseteq tables
        /\ pc' = "stamp" /\ UNCHANGED tables
  /\ UNCHANGED <<memory, reason, status, stores, calls, version, disk, badges, starts, changes,
                 early, lost, unasked>>

Stamp ==
  /\ pc = "stamp"
  /\ version' = MIGRATIONS
  /\ pc' = "Race"
  /\ UNCHANGED <<memory, reason, status, stores, calls, tables, disk, badges, starts, changes,
                 early, lost, unasked>>

-----------------------------------------------------------------------------
(* initializeRepository: one domain, in SQLite or in memory.                *)

After(d) ==
  LET i == CHOOSE i \in DOMAIN Order : Order[i] = d
  IN  IF i < Len(Order) THEN Order[i + 1] ELSE "wire"

Valid(v) == IF v = Corrupt THEN 0 ELSE v

\* Mutant: what the store has is kept where nothing was stored.
HydrateMerges(d, v) == [shown EXCEPT ![d] = IF v = 0 THEN @ ELSE Valid(v)]

\* The store becomes what was loaded, over the defaults.
Hydrate(d, v) == [shown EXCEPT ![d] = Valid(v)]

\* A domain whose init or load fails goes on with an empty repository.
Initialize(d) ==
  /\ pc = d
  /\ \E fails \in IF d \in memory THEN {FALSE} ELSE BOOLEAN :
       /\ memory' = IF fails THEN memory \cup {d} ELSE memory
       /\ shown' = IF d \in Valued
                     THEN Hydrate(d, IF d \in memory' THEN 0 ELSE disk[d]) ELSE shown
       /\ unlocked' = IF d # "Achievements" THEN unlocked
                      ELSE IF d \in memory' THEN [g \in Ids |-> 0] ELSE badges
  /\ early' = early \ {d}
  /\ pc' = After(d)
  /\ UNCHANGED <<reason, status, kept, calls, file, starts, changes, lost, unasked>>

\* Sinks, garage subscription, bridges, the first refresh, and the status.
Wire ==
  /\ pc = "wire"
  /\ pc' = "done"
  /\ asked' = asked + 1
  /\ status' = CASE reason # "none"   -> [mode |-> "memory", domains |-> {}]
                 [] reason = "none" /\ memory = Domains -> [mode |-> "memory", domains |-> {}]
                 [] reason = "none" /\ memory = {}      -> [mode |-> "durable", domains |-> {}]
                 [] OTHER -> [mode |-> "partial", domains |-> memory]
  /\ UNCHANGED <<memory, reason, stores, writes, answers, file, starts, changes, early, lost, unasked>>

-----------------------------------------------------------------------------
(* Changes, by the user and by the portal.                                  *)

Running == pc \notin {"off"}
Wired   == pc = "done"

\* The store of domain d becomes v, and its sink says so with `op` and `arg`;
\* without a sink that is a no-op.
Persist(d, v, op, arg) ==
  /\ changes < MaxChanges /\ changes' = changes + 1
  /\ shown' = [shown EXCEPT ![d] = v]
  /\ writes' = IF Wired /\ d \notin memory
                 THEN Append(writes, [op |-> op, domain |-> d, arg |-> arg]) ELSE writes
  /\ early' = IF Wired THEN early ELSE early \cup {d}
  /\ UNCHANGED <<pc, memory, reason, status, unlocked, answers, file, starts, lost, unasked>>

\* A setter, or the reset to the default.
ChangeSetting(v) ==
  /\ Running /\ shown["Settings"] # v
  /\ Persist("Settings", v, "put", v)
  /\ UNCHANGED <<kept, asked>>

\* A casting is identified as a catalog car, or that is forgotten, if it was.
Identify(v) ==
  /\ Running /\ shown["Identity"] # v
  /\ Persist("Identity", v, "put", v)
  /\ UNCHANGED <<kept, asked>>

\* A race is banked.  In memory it is saved, and asked about, at once.
FinishRace ==
  /\ Running
  /\ Persist("Race", shown["Race"] + 1, "add", 1)
  /\ kept' = IF Wired /\ "Race" \in memory THEN kept + 1 ELSE kept
  /\ asked' = IF Wired /\ "Race" \in memory THEN asked + 1 ELSE asked

\* A new car on the portal, which the bridge collects; the garage's subscriber
\* asks for a refresh.
CollectCar ==
  /\ Wired
  /\ Persist("Garage", shown["Garage"] + 1, "add", 1)
  /\ asked' = asked + 1
  /\ UNCHANGED kept

-----------------------------------------------------------------------------
(* The repositories.                                                        *)

\* Mutant: a saved result is not looked at until something else asks.
AsksLater(w) == FALSE

\* saveResult(...).then(refreshAchievements)
Asks(w) == w.domain = "Race"

\* INSERT OR IGNORE keeps the first time of a badge.
Settle ==
  /\ writes # <<>>
  /\ LET w == Head(writes) IN
     /\ writes' = Tail(writes)
     /\ \/ /\ disk' = CASE w.op = "put" -> [disk EXCEPT ![w.domain] = w.arg]
                      [] w.op = "add" -> [disk EXCEPT ![w.domain] = @ + w.arg]
                      [] OTHER        -> disk
           /\ badges' = IF w.op = "unlock" /\ badges[w.arg] = 0
                          THEN [badges EXCEPT ![w.arg] = w.at] ELSE badges
           /\ asked' = IF Asks(w) THEN asked + 1 ELSE asked
           /\ UNCHANGED lost
        \/ /\ lost' = lost \cup {w.domain}
           /\ UNCHANGED <<disk, badges, asked>>
  /\ UNCHANGED <<pc, memory, reason, status, stores, answers, version, tables, starts, changes,
                 early, unasked>>

Races == IF "Race" \in memory THEN kept ELSE disk["Race"]

\* aggregate() is computed from what is stored now, or rejects.
Aggregate ==
  /\ asked > 0
  /\ asked' = asked - 1
  /\ \/ answers' = answers \cup {Races} /\ UNCHANGED unasked
     \/ unasked' = TRUE /\ UNCHANGED answers
  /\ UNCHANGED <<pc, memory, reason, status, stores, writes, file, starts, changes, early, lost>>

IsMet(g, races, cars) == (IF Goals[g].metric = "races" THEN races ELSE cars) >= Goals[g].threshold

\* applyStats, on totals that may be old and a garage that is not.
NewlyUnlocked(races) == {g \in Ids : unlocked[g] = 0 /\ IsMet(g, races, shown["Garage"])}

Apply(races) ==
  /\ races \in answers
  /\ answers' = answers \ {races}
  /\ LET fresh == NewlyUnlocked(races) IN
     /\ unlocked' = [g \in Ids |-> IF g \in fresh THEN starts ELSE unlocked[g]]
     /\ writes' = IF "Achievements" \in memory THEN writes
                  ELSE writes \o [i \in 1 .. Cardinality(fresh) |->
                         [op |-> "unlock", domain |-> "Achievements", arg |-> SetToSeq(fresh)[i],
                          at |-> starts]]
  /\ UNCHANGED <<pc, memory, reason, status, shown, kept, asked, file, starts, changes, early, lost, unasked>>

\* The process ends.
Crash ==
  /\ Running
  /\ pc' = "off" /\ memory' = {} /\ reason' = "none" /\ status' = NotYet
  /\ shown' = Fresh /\ unlocked' = [g \in Ids |-> 0] /\ kept' = 0
  /\ writes' = <<>> /\ asked' = 0 /\ answers' = {}
  /\ early' = {} /\ lost' = {} /\ unasked' = FALSE
  /\ UNCHANGED <<file, starts, changes>>

Next ==
  \/ Start \/ InMemory \/ Open \/ Migrate \/ Stamp \/ Wire
  \/ \E d \in Domains : Initialize(d)
  \/ \E v \in 0 .. 1 : ChangeSetting(v) \/ Identify(v)
  \/ FinishRace \/ CollectCar
  \/ Settle \/ Aggregate \/ (\E races \in answers : Apply(races))
  \/ Crash

Spec == Init /\ [][Next]_vars
-----------------------------------------------------------------------------
(* Properties.                                                              *)

\* What the status tells the user is kept.
Promised(d) ==
  \/ status.mode = "durable"
  \/ status.mode = "partial" /\ d \notin status.domains

\* "A failure in one repository falls back only that domain; successful
\* hydrations remain intact and continue using their original repositories":
\* once nothing is under way, a domain that the status calls durable shows what
\* the next start will load, unless one of its writes was rejected or the
\* change was made between its hydration and the registration of the sinks.
ShownIsKept ==
  writes = <<>> =>
    \A d \in Domains \ (lost \cup early) :
      Promised(d) => /\ d \in Valued => shown[d] = Valid(disk[d])
                     /\ d = "Achievements" => unlocked = badges

\* A badge whose goal the stored races and the collected cars meet is unlocked,
\* in whatever order the aggregates were answered and whatever crashes and
\* rejected unlocks came before; only a refresh that failed can leave it.
EarnedIsUnlocked ==
  Wired /\ writes = <<>> /\ asked = 0 /\ answers = {} /\ ~unasked =>
    \A g \in Ids : IsMet(g, Races, shown["Garage"]) => unlocked[g] # 0

\* A database in use has every table, whatever version it had and wherever an
\* earlier migration was broken off.
SchemaReady ==
  pc \notin {"off", "open", "migrate", "stamp"} /\ memory # Domains =>
    1 .. MIGRATIONS \subseteq tables
=============================================================================
