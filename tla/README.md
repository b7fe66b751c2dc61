# A verification project for RedlineID

RedlineID (`src/apps/mobile`, with the wire protocol in `src/packages/protocol`) is an Expo / React
Native application for the Hot Wheels id race portal. It connects to the portal over Bluetooth LE,
shows live speeds, keeps a garage of cars, a history of sessions and passes in SQLite, runs races and
brackets, and awards achievements. There is no server: everything that is hard happens in one
JavaScript thread between awaits, timers, native callbacks and the process being ended.

This directory holds TLA+ modules translated from the source, the TLC configurations that check them
on small instances, and proofs that TLAPS checks for every value of the constants. Paths below are
relative to `src/apps/mobile/src/` unless they start with `docs/` or `packages/`.

To run them: `tlc -config <cfg> <module>` for the runs of the table below, `tlapm <module>Proofs.tla`
for the proofs.

## 1. Inventory of the system

| component | state | operations | hard about it | correct when |
|---|---|---|---|---|
| BLE transport, `ble/blePortal.ts` | `started`, `scanning`, `connecting`, `device`, retry counter and timer, subscriptions, phase | `start`, `stop`, adapter events, scan callbacks and deadline, `subscribeToPortal`, drops, retries | several executions can be suspended at once, each awaiting a native call that a stop, a drop or the adapter overtakes | nothing is armed in a stopped transport; a scan ends; a gated portal is never shown connected; retries are bounded |
| portal controller, `portal/controller.ts`, `transport/active.ts` | mode, phase, `manuallyDisconnected`, generation, the transport, the queue of operations; the active slot | `configure`, `connect`, `retry`, `disconnect`, `setMode`, `destroy` | requests arrive while an earlier one awaits; old transports report late | one transport runs, it is the one shown, none runs unwanted |
| mock portal, `mock/mockPortal.ts` | `running`, timers | `start`, `stop`, `triggerPass` | timers after a stop | as the controller |
| portal store, `store/portalStore.ts` | connection, car, passes, best speed | `setConnection`, `dispatch`, `reset` | events from overlapping transports; dedupe of passes | a pass counts once |
| persistence bridge, `store/persistence/initPersistence.ts` 373-497 | last uid, serial, pass, connection; session id and epoch | one subscriber on the store | `startSession` answers after its connection is over | a session per connection, ended with it |
| SQLite sessions, `store/persistence/sqliteSessionRepository.ts` | tables `sessions`, `passes` | `startSession`, `endSession`, `addPass`, `clear` | a transaction that other calls may enter; crashes | summaries agree with rows |
| persistence bootstrap, `initPersistence.ts` 202-372, `sqliteDb.ts` | repositories, sinks, migration version | open, migrate, hydrate, register sinks | what a user does before hydration; fallback to memory | nothing a user did is lost |
| garage and its bridge, `store/garageStore.ts`, `initPersistence.ts` 373-497, the car and race repositories | the mirror of the cars, the table, the best lap | detections, late serials, speeds, names, results | serial and uid come in any order; writes may be rejected, rolled back or cut off | mirror and table agree; a serial is never another car's |
| identity, `store/identityStore.ts`, `catalog/*`, `app/identify.tsx` | links, picks, the community seed, the picker | pick, undo, search, filters | tags share castings; filters outlive the mode they were set in | what is confirmed is what is listed; undo restores |
| settings, `store/settingsStore.ts`, `app/settings.tsx` | settings, the draft of a name | setters, commit, reset | hydrated after the screen was opened | a stored name survives a draft nobody typed |
| race engine and session, `race/raceEngine.ts`, `race/useRaceSession.ts`, `store/raceStore.ts` | phase, lanes, results | arm, countdown, gates, abort, bank | effects against timers; banking once | one result per race |
| race night and tournament, `race/raceNight.ts`, `race/tournament.ts` | lineup, bracket | add, remove, rotate, report | ids reused; byes | a bracket ends with one champion |
| achievements, `achievements/*`, `store/achievementsStore.ts` | unlocked set, the queue of banners | evaluate aggregates, announce, expire | answers out of order; a banner's timer against the TV stage | what was earned is unlocked; banners clear |
| MPID protocol, `packages/protocol/src/mpid/*`, `ble/mpidBle.ts` | keys, counters, reassembly buffer | handshake, encrypt, feed | framing, wrapping counters | every frame decoded once |
| wire decoders, `packages/protocol/src/*.ts` | none | pure functions | byte layouts | as their test vectors |
| history screens, `app/(tabs)/history.tsx`, `app/history/[id].tsx`, `history/sparkCache.ts` | the list, a detail, the cache of lines | focus, read, clear | two reads that are no snapshot; answers after the focus is gone | what is shown together belongs together |
| the other screens | functions of the stores | | | what is offered is possible |
| theme, platform drivers, build | style tables, audio, haptics, key-value drivers | | | |
| Python tools, docs site, assets | none in the application | | | |

How they interact. The screens call the controller. The controller owns one transport and hears its
phase through a callback. A transport writes connection and events to the portal store directly. The
bridge subscribes to the store, synchronously, and fires repository promises without waiting for
them. The stores of garage, settings and identity write through sinks. The achievements ask the
repositories for aggregates. The race hook reads the portal store's passes and writes the race store; the Race
screen runs races for a bracket. Every store is read with `useSyncExternalStore`, so a change is rendered
and its effects have run before the next event.

`PROJECT.json` lists every hazard of this code that a test would hardly reach, at its line, with the
property that covers it or the reason that none does yet.

## 2. The modules

| module | what it models | the code |
|---|---|---|
| `BlePortal` | the inside of the BLE transport, an action per callback or continuation | `ble/blePortal.ts`, `ble/retryPolicy.ts` |
| `PortalController` | the queue of operations, the generation, the slot, both transports from outside | `portal/controller.ts`, `transport/active.ts`, `mock/mockPortal.ts` |
| `MockPortal` | the inside of the mock: its timers and its loop | `mock/mockPortal.ts` |
| `SessionLog` | abstract: what History promises | `store/persistence/sessionRepository.ts` |
| `PortalHistory` | the store, the bridge and the repository's promises | `store/portalStore.ts`, `store/persistence/initPersistence.ts` |
| `SqliteSessions` | the repository's statements and its transaction | `store/persistence/sqliteSessionRepository.ts` |
| `Garage` | a car from the portal's events to its row and back | `store/garageStore.ts`, `initPersistence.ts`, `sqliteCarRepository.ts`, `sqliteRaceRepository.ts`, `race/records.ts` |
| `Bootstrap` | opening, migrating, hydrating, wiring, and what follows | `initPersistence.ts`, `sqliteDb.ts`, `persistenceStatusStore.ts`, `achievementsStore.ts` |
| `Race` | abstract: what a race is to whoever starts it | |
| `RaceSession` | engine, store, hook and the speeds shown; implements `Race` | `race/raceEngine.ts`, `race/useRaceSession.ts`, `store/raceStore.ts` |
| `Tournament` | the bracket, as functions from bracket to bracket | `race/tournament.ts` |
| `RaceNight` | lineup, heats and bracket of the Race screen, over `Race` | `app/(tabs)/race.tsx`, `race/raceNight.ts` |
| `Wire`, `PortalMessages` | Base64, varints, protobuf fields; what the bytes mean | `packages/protocol/src/*.ts`, `mpid/protobuf.ts`, `mpid/mattelId.ts` |
| `MpidSession` | packets, reassembly, counters, handshakes | `packages/protocol/src/mpid/session.ts`, `ble/mpidBle.ts` |
| `Identity` | links, picks, seed, the picker and its search | `store/identityStore.ts`, `catalog/*`, `app/identify.tsx` |
| `Trophies` | goals, the trophy case, the banner | `achievements/*` |
| `HistoryScreens` | list, detail, Clear and the spark cache | `app/(tabs)/history.tsx`, `app/history/[id].tsx`, `history/sparkCache.ts` |
| `SettingsScreen` | the settings screen over a store hydrated late | `app/settings.tsx`, `store/settingsStore.ts` |
| `RaceView`, `PortalView`, `HistoryView`, `GarageView` | what the screens show or offer, as functions of the stores | the components and presentation modules |
| `Views` | the views' properties, as assumptions over bounded inputs | |
| `MC*` | instances for TLC | |
| `BlePortalProofs`, `PortalProofs`, `GarageProofs`, `BootstrapProofs`, `RaceSessionProofs`, `RaceNightProofs`, `ScreensProofs`, `MpidSessionProofs` | theorems; `PortalProofs` has those of `PortalController` and of `PortalHistory` | |

**BlePortal.** An action is what the thread does between two awaits. The closure variables of
`createBlePortal` are the variables of the module (`started`, `scanning`, `connecting`,
`device # null`, the subscriptions, `attempts`, `retryTimer`, what `onPhase` and `setConnection` said
last). `Flows` are executions of `attemptReconnectOrScan` and the `subscribeToPortal` it leads to; each
has a program counter (which native call it awaits) and its locals (services left to enumerate, what
was found). The native side is a radio state, a link (`down`, `opening`, `up`), a disconnect event not
delivered yet and the portal's firmware (legacy telemetry, MPID, or gated). The handlers:
`HandleState` (adapter), `BeginScan` / `ScanFinds` / `ScanErrors` / `ScanTimesOut` /
`ScanStartRejects`, `ConnectResolves` / `DiscoverResolves` / `ServicesResolve` / `CharsResolve` /
`CharsReject`, `MpidResolves` / `MpidFails`, `FlowFails` (the catch), `LockCancels` / `LockReturns` (the
`await stop(); phase("locked")` path), `DropDelivered` (`onDisconnected`), `RetryFires`, `Start`,
`Stop` and their continuations. Left out: log lines, `readFirmware` (best effort, changes no state),
`autoReconnect = false` (the application never passes it), adapter states the handler ignores. The
MPID handshake is one await that resolves or fails. Its monitors are attached before that await
(`ble/mpidBle.ts:117-119`) and belong to the execution (`mpidSubs`) until it resolves: a stop or a drop meanwhile
does not reach them. The adapter listener (`stateSub`) is another thing a stopped transport may hold, when the stop came during
`start`'s permission prompt (`ble/blePortal.ts:575`).

**PortalController.** Operations are requests in a queue; the one in progress is suspended only at
`await transport.stop()` or `await transport.start()`, which is what `op` names. A transport is a
number with a mode and the generation its callbacks captured. `late` holds BLE transports that may
still have an execution suspended from before a stop, and so may still report (`BleReports`). Which of
them really does is chosen freely, so whatever `BlePortal` can report is covered. A mock reports only from timers
that its `stop` clears. `reported` is the connection that the portal store shows.

**PortalHistory.** The subscriber runs inside the store's update, so a store update and what the
bridge does about it is one step. Each repository call is a pending promise that settles, or is
rejected, in a step of its own and in any order; the answer of `startSession` is delivered by yet
another step, which is where the epoch is compared. The process can end between any two steps
(`Crash`): the tables stay, everything else is gone. Sessions are named by the connection they were
started for, which is what the properties need to tell apart.

**SessionLog** says what all that is for: a session belongs to one connection, a pass is recorded at
most once, in the session of the connection it was crossed in, and no session ends while its
connection lasts. `PortalHistory!Log` is the refinement mapping.

**SqliteSessions.** All calls share a connection and expo-sqlite's `withTransactionAsync` (external) is
not exclusive, so `BEGIN`, `UPDATE`, `INSERT`, `COMMIT` and `ROLLBACK` are actions between which other
calls run. The counters `pass_count` and `best_mph` are represented by the set of calls a summary
includes: both are determined by it. Calls overlap freely: a `BEGIN` inside somebody's transaction fails, and the
`ROLLBACK` that answers it ends that transaction. `mixed` records which calls met another one or a clear,
`torn` the rows that a clear removed before the process ended.

**Garage.** A dispatch to the portal store and what the subscribed bridge does about it are one step;
the statement each write issues waits in a queue and settles in a step of its own, or is rejected. The
mirror (`garage`) changes at once, the table when the statement is served. The shared connection's
transaction, which only History's `addPass` opens, is here as far as it matters to the cars: a
write that is served inside it is undone with it. `before` is what `BEGIN` found. The process may end
between any two steps, and the next start hydrates the mirror from the table. `arrivals`, `fastest`
and `banked` record what really happened, `lost` the cars with a write that failed and `mixed` those
that met while a removal was not told; the properties compare the code's state with them. The 250 ms
dedupe of speeds is left open: an echo may or may not count. `Race` joins in at `claim`, the record that the
result screen announces.

**Bootstrap.** `initPersistence` is a program counter over what it awaits: open, a statement per
migration, the stamp, a hydration per domain in the order of `initializeRepositories`. A domain's content
is one number. Changes arrive at any time: before a domain's sink is registered they reach the store only,
afterwards also the repository, whose writes settle in order. A failure of a domain puts that domain in
memory, a failure to open or migrate puts all of them there. The aggregates asked for are answered in any
order, and each answer is applied to the achievements when it is delivered.

**RaceSession** is one task of the JavaScript thread with its effects per action: `CountdownTick` of the
interval, a dispatch of one or more passes, `stop`, `abort`, a disconnection, which clears the store's passes,
a restart, which reads the board back from the results. `since` is the history the laps are
compared with. **Race** is what is left of all that for a screen: announced, counted down, raced, then a total or
none. `RaceSession!Abstract` is the refinement mapping, and **RaceNight** is built on an instance of `Race`, so what it
assumes of a race is what `RaceSession` was checked to do.

**Tournament** is written as the code is, functions from a bracket to a bracket; a match is named by its
round and place instead of by the string that spells them. **RaceNight** adds the screen's handlers; each
is guarded by what the screen offers in the phase. `Size` counts the places of a round up as `nextPowerOfTwo`
does, by doubling, and the loops over byes and over a removed racer's matches are recursive functions, which the
proofs can unfold. `MCRaceNight` checks the seeding on its own for every field of 3 to 17 racers.

**Wire**, **PortalMessages** and **MpidSession** work on bytes. A varint is its groups of seven bits (numbers
above 2^31 are out of TLC's range), a float its four bytes. Receiver and sender are those of `session.ts`
with their state machine, driven byte by byte in a recursive function; the bytes are cut into
indications anywhere, indications may be lost, and a handshake may be replaced by another while
the monitor of the earlier one still listens. The CRC is ideal: on the wire it is what it was computed of, veiled by
the cipher's bytes like any other, and it equals another one only if both are of the same bytes under the same key and counter.
With the code's eight bits, one damaged packet in 256 gets through, and no property here speaks of that one; nor is
a CRC ever taken for a preamble. The key agreement is the session's number. The cipher is `Keystream(key, iv, i)`, a
constant: the run takes one with small values, the proofs any one that gives bytes.

**Identity**, **Trophies**, **HistoryScreens**, **SettingsScreen** and **MockPortal** share no state.
`Screens` holds them with `SqliteSessions` in one specification that moves one of them, chosen at
the start (`MCScreens` gives its constants their values): every state of each is reached and no product of two. `Hits` says which fields of the
catalogue a query matches and how, instead of spelling texts; the scores and the order are the code's.

**HistoryScreens.** A queue holds the statements that were issued and not served: `BEGIN`, `UPDATE`, `INSERT`,
`COMMIT` and `ROLLBACK` of every `addPass`, each issued when the one before it answered, the list's read, the two reads of a detail, a
line's read, and the two deletes of a clear. Serving one is a step, with what its answer makes the screen do; any of them
may be rejected (`BEGIN`, `COMMIT` and `ROLLBACK` fail by what is open only), and a call of `addPass` may be issued while another is under way. A detail stays
mounted, with its header and passes, while the Garage is in front of it (`Away`), and reads again when it comes back; a read that
is rejected empties the passes and leaves the header (`app/history/[id].tsx:64`). `asOf` and `whole` record what the tables
held at the last complete reload, `cleared` the sessions a clear removed, and `spoilt` that an `addPass`
met another or left something half done.

**The views** (`RaceView`, `PortalView`, `HistoryView`, `GarageView`) are functions from the stores' content
to what a screen shows or offers, without wording and layout. `Views` states what they must satisfy as assumptions,
which TLC evaluates over every small input: one status at a time, a fault always with a way out, lap
lists that end with the newest lap, groups that partition the history, plates of their own, records that are the first.

## 3. The runs

| run | configuration | shows |
|---|---|---|
| `ble_safety` | 2 flows, 2 retries, 2 off states, 2 services, symmetry on flows | `DisarmedWhenStopped`, `ScanHasDeadline`, `GatedNeverConnected`, `BudgetRefundedBySuccess` |
| `ble_liveness` | as above, 1 off state, 1 retry, no symmetry, `Unattended` | `BusyResolves` |
| `controller` | a radio, 4 transports, 2 waiting requests | `OneTransport`, `DemoHasNoPhase`, `DescribesTransport`, `SlotPassesThroughFree`, `StartsOnlyWhenWanted` |
| `history` | 2 connections, 2 passes, `FairSpec` | `OpenSessionsAccounted`, `ImplementsSessionLog`, `SessionsEnd` |
| `garage` | 2 cars with symmetry, 1 speed, 1 lap, 1 name, 2 arrivals, 1 pass, 3 writes, 2 starts | `MirrorOnDisk`, `GarageIsTrue`, `SerialIsOwn` |
| `bootstrap` | 2 goals, 3 changes, 2 starts, files of every version | `ShownIsKept`, `EarnedIsUnlocked`, `SchemaReady` |
| `race_session` | 1 player, 1 car or none, races of 2 laps, 2 speeds, a buffer of 2 passes, a board of 1, times to 2, 4 crossings, 2 races | `LapsAreCrossings`, `BoardIsBest`, `SpeedsAreTrue`, `SavedOnce`, `ImplementsRace` |
| `race_night` | 4 racer ids, 2 times | `BracketGoesOn`, `HeatIsCredited`, `LosersAreOut`, `OneChampion`, `EveryHeatCounts`; the seeding |
| `mpid` | 2 sessions, 3 frames of 2 kinds, indications of 11 bytes and what is left over | `ReceiverIsBounded`, `EventsAreTrue`, `Resynchronises`; the codecs |
| `screens` | 3 calls and 2 sessions of the tables; 2 sessions, 3 passes, 4 changes of screen and 4 waiting statements of the history; the other instances in `MCScreens` | `DriftNeedsOverlap`, `PickIsOffered`, `UndoRestores`, `BannersClear`, `ShownTogether`, `ClearedIsGone`, `OnlyEditsRename`, `StartsAfresh`; the views |
| `ble_reconnect_paused`, `garage_records` | | one disagreement each between a sentence of the repository and its code, section 6 |

Why the bounds are enough. Two flows are the smallest number in which one execution overtakes another,
which is where every surprise of this transport comes from; a third would have to be started while two are
suspended, by the same handlers in the same states. Two retries tell "budget left", "last
one" and "exhausted" apart. Two services are the useful one and another. Four transports allow a live
transport to be replaced by a mock, by another live one and once more while the first still reports.
Two waiting requests behind one in progress give every pair of operations an order. Two connections
and two passes let a late answer meet a newer connection and a pass meet the wrong session. Three
`addPass` calls let one hold the transaction while one fails and one has committed, and one keep to itself before or after two that do not.

In `garage`, two cars are what a serial can be confused between, two arrivals let one
replace the other or come back, three writes are a car, its serial and something between them or after
them, and two starts put a crash and a hydration in the middle. In `bootstrap`, two goals on different
metrics let two answers overtake each other, and three changes fall on both sides of a sink's
registration and of a crash. In `race_session`, a buffer and a board smaller than what passes
through them are evicted from; two races give the second one the leftovers of the first; a second car is "none", the pass
without a car. In `race_night`, four racers make a bracket of two rounds and three make one with a bye, and an id freed by a removal is
taken again. In `mpid`, eleven bytes end inside headers and bodies and span the end of one packet and the start of the next, three frames are one before, one in
and one after a loss, and two sessions give a frame the wrong key. In `screens`, each instance is the
smallest with every alternative: two tags of one casting, three goals two of which are reached together, a cache
of two lines for two sessions of three passes, a stored row with an option that is not on offer and a calibration out
of range, the least and the most jitter.

Bounds in guards: `MaxRetries` is the code's `maxRetries`; `MAX_PASSES`, `MAX_LEADERBOARD` and `MAX_ENTRIES` are the code's
sizes, made small; `Flows` limits suspended executions (a handler that would start another one is not
taken); `MaxTransports` and `MaxQueue` limit what is asked of the controller; `MaxConnections`, `MaxPasses`,
`MaxSessions`, `Calls`, `MaxArrivals`, `MaxWrites`, `MaxStarts`, `MaxChanges`, `MaxClock`, `MaxCrossings`, `MaxRaces`,
`MaxRacers`, `MaxFrames`, `MaxFocus`, `MaxApplied`, `MaxPending` (statements waiting when one more is asked for) and `MaxSeen` limit what happens outside.

Deadlock is checked in `ble_safety`, `controller` and `history`. In `ble_liveness` the environment is silent and the
system is meant to come to rest; in the other runs it stops where the bounds leave nothing to
happen.

What the abstractions leave open. SQLite statements on the shared connection settle in the order they
were issued (expo-sqlite serves one at a time). Time stamps and the orders they give are left out of `Garage`;
`clock` of `RaceSession` is any unit. Where the code relies on React running a change's effects before the
next event, so do the models; where it does not (timers, promises, native callbacks) every order is taken.

### Fairness

`BlePortal!Unattended` assumes that a native call settles one way or the other (react-native-ble-plx
rejects pending calls when a link is lost or cancelled), that an armed timer fires and that a raised
event is delivered. It assumes nothing of the portal or the adapter: a scan need not find the one, the
other may change at any time. It excludes `stop`, because the question is what happens when nobody
interferes. `BusyResolves` states its own condition, that no two attempts to reach the portal overlap:
without it the property fails (section 6, number 4), with it TLC finds no other way to stay busy.
`PortalHistory!Settling` assumes that a promise of the repository settles, fulfilled or rejected, and
that its continuation runs. `Screens!AppSpec` assumes of the screens only that a banner's armed timer fires
(`Trophies!Expire`). Users, adapter changes, crashes and passes are never fair.

## 4. What is proved

Every safety invariant, action property and refinement that a passing run checks is a theorem for every value of the
constants. `PROJECT.json` lists each theorem with the property it states.

**Assumptions.** The constants are what the modules' ASSUMEs say, and TLC evaluates each in the run of its
module. They hold of the code as follows.

* Bounds are naturals; `MaxRetries` is the code's `maxRetries`. `"telemetry"` is a service and `OffStates` are adapter states.
* A time, a speed, a lap or a name is not the value that stands for "none" (`ValuesAssumption`, `TimesAssumption`).
* A buffer and a board have room for one (`SizesAssumption`), and a buffer for the two passes that one task
  may bring (`BatchAssumption`): `MAX_PASSES` is 20 in `store/portalStore.ts:34`.
* The goals are finitely many and have different ids (`GoalsAssumption`, `GoalsFit`): `achievements/catalog.ts` lists them.
* `CatalogueFits`: a tag is not a casting's key, and no key or year is "none". `SettingsFit`: a name that was
  trimmed is trimmed, and the stored ones are. `HistoryFits`: "none" is not a number.
* `GapsFit`: a gap of the mock is longer than its connect. In the code 3200 ms less a jitter of 600 against a connect
  of 600 (`mock/mockPortal.ts`).

* A packet's counter and a session's number fit a byte (`BoundsAssumption` of `MpidSession`): the code has four bytes for the counter, of
  which the model leaves three at zero. The keystream gives bytes (`KeystreamAssumption`), as AES does.

**Induction over data.** What recursion along a queue, a batch or a round comes to is proved in one of two
ways. Where the recursion is over a number, a claim that fails somewhere fails at a least number, which exists because
the order of finite subsets is well founded (`FS_StrictSubsetOrderingWellFounded`; lemmas `Least`, `Upward`, `Onward`). Where a fold
runs over a queue that changes, the invariant says that a trace exists, the values along the queue; a write that is
appended extends the trace and one that settles shortens it.

* **BlePortalProofs**: `TypeCorrect`, `StoppedIsDisarmed`, `ScanEnds`, `GatedStaysUnconnected`,
  `BudgetRefund`. None of the invariants is inductive alone: type correctness of
  the transport's state, `Disarmed` and `ScanHasDeadline` are preserved together (`Safe`),
  with a lemma per handler and a step per action. That a gated portal is never shown connected needs
  more than what is shown: `GatedSilent` adds that no attempt has `seen` anything on it or is reading
  its MPID, and `FirmwareFixed` that a portal does not change firmware. `BudgetOK` is inductive
  by itself, and the refund property rests on it.
* **PortalProofs**, of the controller: `ControllerTypes`, `OneAtATime`, `DemoIsQuiet`, `StateDescribesTransport`,
  `SlotIsFreed`, `WantedStarts`, that is every property of run `controller`. The invariant: `SlotOK` (exactly the holder of the slot runs, and it is
  the controller's transport), `WantedOK` (the slot is free while something is being replaced or
  restarted, after a manual disconnect and after the end), `HeldOK` (the transport is of the mode
  shown unless it is being replaced) and `HeardOK` (every generation is at most the current one, and
  only the held transport has the current one). `HeardOK` is why incrementing the generation twice, before
  and after the await, matters: in between nobody is heard.
* **PortalProofs**, of the history: `TypeCorrect`, `Accounted` and `Implements`, the refinement of `SessionLog`.
  The heart is `EpochOK`: among the `openSession` calls under way, the one whose epoch is current is
  exactly the one that the live connection made. From it the answer is bound only to its own
  connection, so passes go to the right session and no session of a live connection is ended. Every
  step is mapped to a step of `SessionLog` or a stutter by a lemma of its own.
* **GarageProofs**: `OwnSerial`, `OnDisk`, `TrueGarage`. A serial travels from the store to the mirror, from there into a write,
  the table and what a transaction would bring back; the invariant says of each that it holds its own car's
  serial or none, or a car that was mixed up (`StoreOK`, `CarsFit`, `WritesFit`, `TableFits`).
  `StoreOK` is where the argument comes in: unless a removal was not told, the store shows the car that
  is on the portal or none, and a serial that is there before its car is that car's. The other two say what the writes that
  still wait will make of the table: of each car that was not lost, what the mirror shows and what was banked (`Leads`), and of
  every car no more detections than it has arrived (`Room`). `Told` puts both together for a car, and an open transaction's `before` has no
  more of it than the table (`BeforeOK`), so a rollback can only lose.
* **BootstrapProofs**: `TypeCorrect`, `EveryTableIsThere`, `EarnedBadges`, `DurableMeansKept`. That a file has the tables of its version (`VersionOK`) makes the
  steps that are left enough, and that all of them are done before the version is stamped
  (`StampOK`) makes it safe to skip them at every later start. While a badge is due, an aggregate that
  was asked for after the race is still to be delivered (`AskedAgain`), in whatever order they come. From a domain's
  hydration on, its file and the writes that wait come to what its store shows: the last of them for a value, all of them for rows
  (`OnItsWay`). A badge is written once, so the file and the writes have the time the store shows (`FirstTime`, `BadgesTrue`) and between them
  every badge shown (`BadgesComing`).
* **RaceSessionProofs**: `Measured`, `BankedOnce`, `RunsARace`, `TrueSpeeds`, `BestOfAll`, that is every property of run
  `race_session`. `PhaseOK` says what the race is while it runs: its laps are the times between the car's passes since GO,
  one pass ahead of them, and when it is finished the first laps up to the target with their sum. It needs the buffer to number
  its passes downwards (`PortalOK`), the race to have seen all of them before the next task (`SeenOK`), and the passes to be in the order of time
  (`SinceOK`). The speeds are looked up later, in a buffer that passes are evicted from: `Tracked` says that it is the newest
  of the passes since GO and only then older ones. `BoardOK` says that the board is the first places of all
  stored results; that the places are a ranking, all different and filled, is `PlacesFilled`. `RunsARace` maps every step to a step of `Race` or a stutter.
* **RaceNightProofs**: `TypeCorrect`, `Credited`, `GoesOn`, `LosersOut`, `OneChampionOnly`, `HeatsCount`, that is every property of run
  `race_night`. `HeatIsCredited` is inductive by itself: every handler that changes bracket or
  times announces whom the bracket names next, and the lineup, which is read again at "Continue", is edited
  only where no bracket is played. The rest needs `BInv`. `Sound` says of the bracket that a match is filled from the two
  before it (`Fed`), nobody is twice in a round (`OncePerRound`) or later than where it lost (`CameThrough`), all start in
  the first round (`Entered`) and the final crowns (`Crowned`); `DecideKeeps` that deciding any match keeps it, whether a bye or a heat
  does. To it come that no bye is left (`Resolved`), that the times are those of the matches (`Timed`) and that the racers of a bracket
  are in the lineup, once each (`LineupOK`). `Created` is that `createTournament` makes such a bracket for any number of racers:
  the seeds are a permutation in which the two of a match add up to the size plus one (`SeedsAre`), so each match has a racer.
* **ScreensProofs**: `TypeCorrect`, `TransactionKeepsSummary`, `Offered`, `Restored`, `Together`, `Gone`, `Renamed`, `Afresh`. Each machine of `Screens` has an
  invariant of its own; a step of `AppNext` is a step of that machine or leaves it alone.
    - The tables (`Inv`). `TypeCorrect`: a summary or an end never outlives its session's row, with or
      without overlaps. `TransactionKeepsSummary`: a pass whose call met no other call and no clear is counted where it is listed in
      whatever is committed, although other calls did overlap and rolled each other back. Such a call has the transaction for
      itself from `BEGIN` on, has left no trace before its statements, and what `BEGIN` found has none of its pass
      (`CallOK`), so commit, rollback and crash all agree. That it can open one needs `HolderOK`: a transaction that somebody left
      open has somebody under way who will close it.
    - The picker (`IInv`). `UndoOK` says that while a pick can be undone with nothing changed since, what was shown before is
      what the tags would show if the pick's one entry were put back; `OwnKeys` that a tag not yet
      linked was never named.
    - The history (`HInv`). The queue of statements tells what the answers will be. Some of it holds whatever happens to the
      recording (`Always`): a detail's two reads are next to each other in the queue (`InPairs`), so what the first was answered is
      what the second will find (`HalfRead`), and what a rollback would bring back is a database too, with no session that was cleared
      by then (`HeldOK`). The rest only until an `addPass` meets another or leaves something half done
      (`Unspoilt`): the pass that is being recorded has its row behind its count (`Counted`), and a line is read behind the
      rows it needs (`Lines`).
    - The settings (`SInv`): a field that nobody edits shows the stored name. The mock (`MInv`): its connect comes
      before everything else of a start (`Connecting`).

* **MpidSessionProofs**: `TypeCorrect`, `ReceiverBounded`, `EventsTrue`, `BackInStep`. First the codecs, for every counter and session: a varint is read as it
  was written and `parseFields` gives back the fields of a message (`Advanced` a field at a time), so what the portal says is
  dispatched as it means; and what a key and counter encrypt, the same key and counter decrypt. Then the receivers. `Fits` says that one is
  ready, holds the start of a header, or holds a header of a frame with a part of its body: eight bytes whose CRC is right are the header
  of a frame, since a CRC on the wire is one that a sender put there (`Types`), so a length is never more than the largest
  packet's (`ReceiverBounded`). For the events, `Streams` says that the wire is the last bytes of what was sent, that every
  byte is one of its packet at its place, and that packets of a session come after its key. `TellsSo` says that what was
  dispatched are events of packets that have arrived, in their order: a body comes out only with its packet's last byte
  (`Hears`), and under another session's key its CRC fails. As no two packets mean the same event (`FromOne`), each is dispatched once.
  That the receiver recovers (`BackInStep`) is `Following`, about the session whose keys the portal has. At each byte of the stream (`Synced`) the
  receiver has exactly what there is of the packet under way (`Follows`), or that packet began before `clean` and what the receiver holds
  is over by then (`Catching`): a stray start that is `l` bytes long ends within `MaxFrame - l` more, since no length is
  believed beyond the largest packet. In a quiet body a receiver that is ready stays so, and the next preamble finds it ready (`Begins`). The
  invariant has to speak of packets that are not `Due` yet, and of the end of the stream, where the next packet will begin.

**Only model-checked.** Liveness (`BusyResolves`, `SessionsEnd`, `BannersClear`): fairness is beyond the prover. And what `Views` and the
instances `MCRaceNight` and `MCMpidSession` state as assumptions over bounded inputs: the views, the
seeding's pairs, the legacy decoders, Base64 and malformed messages.

The type invariants that are theorems are not repeated in the runs. `TypeOK` of
the other modules says what the variables hold.


## 5. What is not modelled

* Layout, styles, theme, gestures, animation, wording, sounds and haptics; drivers of the platform (key-value
  storage, audio) and the build's plugins: no state that a property could be about. The views keep
  what a screen shows or offers and leave out how.
* Python reference tools, the catalogue's data, the site, assets: outside the application or generated.
* The router: when a screen is mounted, beyond the screens' own focus. A visit to the Garage from a detail, which stays
  mounted below it, is `HistoryScreens!Away`.
* A native call that never settles. The code has no deadline for it, and every later operation of the
  controller waits for it; the models let every await settle.
* A factory of transports that throws (the controller would be left without a transport), and
  branches that the queue makes unreachable (`if (this.destroyed) return` after the await in
  `replaceTransport`).
* The wrap of the 32-bit transmit counter of an MPID session, out of reach of any run; the curve, the key derivation
  and AES, which are external; the one damaged packet in 256 that a CRC of eight bits lets through.
* The durability of fulfilled calls in `SqliteSessions`: the module shows a row written by `startSession`
  inside another call's transaction undone by its rollback, `MirrorOnDisk` speaks of it for cars, no property does for sessions.

## 6. Disagreements between documents and code

Each is shown by a counterexample. The second column names the run, or the configuration to run by hand
(`MCBlePortal_Sentences.cfg` takes its three one at a time).

| | shown by | what |
|---|---|---|
| 1 | `MCBlePortal_Sentences`: `IdleAfterStop` | a stop during the enumeration of characteristics does not end the execution; its `catch { continue }` goes on and reports phases on a stopped transport, contrary to the comment at `ble/blePortal.ts:365` |
| 2 | run `ble_reconnect_paused`: `ReconnectStaysPaused` | a user who disconnects while a retry awaits `manager.devices` is connected anyway, contrary to the confirmation in `components/usePortalStatusAction.ts:27` |
| 3 | `MCBlePortal_Sentences`: `DropIsNotLocked` | a link lost during enumeration or handshake ends in "locked" rather than in a retry, contrary to `docs/adr/0011-phase-1-ble-transport.md:82` |
| 4 | `MCBlePortal_Sentences`: `ReconnectOnlyAfterDrop` | a scan that the adapter's return began overlaps a pending retry; when its deadline fires, the connection that the retry made is reported lost (`ble/types.ts:62`). The retry that follows returns at once because `device` is set, so the transport stays in "reconnecting", a phase in which the status pill offers no action |
| 5 | `MCPortalHistory_OpenMeansConnected` | a process that ends while connected leaves its session open for good, contrary to `store/persistence/sessionRepository.ts:20` |
| 6 | `MCSqliteSessions_SummaryAgrees` (module `SqliteSessions`) | a clear or a second `addPass` inside the transaction leaves an orphan row or a summary that drifts, contrary to `store/persistence/sqliteSessionRepository.ts:77` |
| 7 | run `garage_records`: `RecordsAreReal` | nothing changes a car's best lap in the garage store after the start of the application, so every race after a fast one is still compared with the best from before: a slower lap is stamped a new record, contrary to `docs/design/redline-v1/SPEC.md:419-424` |
| 8 | `MCMpidSession_ResyncSafe` | after a loss, a preamble's value inside a body is taken for a header and, with its CRC failing, as many bytes as a header has are thrown away, a real preamble among them (`mpid/session.ts:153-155`): the packet after the loss may be lost too, contrary to "resync-safe" (2-3) |
| 9 | `MCRaceNight_ResultsLeadOn` | when a bracket has its champion and was not reset, a casual or solo race that follows it ends in results whose primary action is still the bracket's; with no match left that handler returns at once, so the button does nothing (`app/(tabs)/race.tsx:227-228`, contrary to `docs/design/redline-v1/SPEC.md:440`) |
| 10 | `MCScreens_PickRenders` | a detection that links the tag to its casting after a pick under the tag's own key hides the pick, contrary to `catalog/useCarIdentity.ts:6-9` |
| 11 | `MCScreens_AnnouncedOnce` | the banner's key holds the length of the queue, so an unlock that joins the queue mounts the banner in front again, contrary to `TrophyUnlockBanner.tsx:3-4` |

Smaller observations, without a run: a detail whose reload is rejected shows its old header, and the count in it, over an empty list
(`app/history/[id].tsx:64`); a clear served inside an `addPass` transaction is undone by its rollback, although the list
was emptied; a line drawn while a failing `addPass` had counted its pass stays in the cache under that
count; a drop delivered after `disconnect` but before the disconnect
listener is replaced leaves `connecting` set; the locked path's late `phase("locked")` may land on a
transport that was started again; an adapter that is switched off while connected and on again does
not lead to a scan, because `device` is still set; an execution that began on a stopped transport (1
above) and fails there returns without clearing `connecting`, so the next `start` never scans; a locked
portal without passes gets FindPortal's hint that it connects on its own, without the fault's text. The
detail screen of a car initialises its draft of the name when it is mounted (`app/garage/[uid].tsx:62`): if the garage
was not hydrated by then the draft is empty, and leaving the field untouched clears the stored name. `Views!StaleDraft`
says so of the two functions; when the screen can be mounted that early is the router's, which is not modelled.

## 7. Plan

Done: the core (transport, controller, history, tables), garage, bootstrap, races, brackets, protocol, identity,
trophies, screens and views; and theorems for all the safety properties of the runs. Left, in this order:

1. `PortalTransport`: an abstract contract of a transport as the controller uses it (`StartTransport`,
   `StopTransport`, `BleReports`), shown to be implemented by `BlePortal` and `MockPortal`, so that the
   composition is checked and not argued.
2. Durability of fulfilled calls in `SqliteSessions`.
