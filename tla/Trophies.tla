------------------------------- MODULE Trophies -------------------------------
(***************************************************************************)
(* The trophies as the user sees them: the engine that resolves every goal  *)
(* against the stats (achievements/engine.ts, catalog.ts), the case         *)
(* (trophyPresentation.ts, TrophyCase.tsx), and the banner that announces   *)
(* each unlock in turn (TrophyUnlockBanner.tsx).                            *)
(*                                                                         *)
(* React renders the new queue before the next event is handled: a change   *)
(* of the queue or of the route and the mounting of the banner it calls     *)
(* for are one step.  What is drawn while a banner slides is left out.      *)
(***************************************************************************)
EXTENDS Integers, Sequences, SequencesExt

CONSTANTS
  Catalogue,    \* the goals in order: [id, category, metric, threshold, compare]
  Snapshots,    \* the stats that may be applied: metric -> a number, or None
  MaxApplied,   \* bound on snapshots applied
  None

Goals      == ToSet(Catalogue)
GoalIds    == {g.id : g \in Goals}
EmptyStats == [m \in {g.metric : g \in Goals} |->
                 IF \E g \in Goals : g.metric = m /\ g.compare = "lte" THEN None ELSE 0]

(* What a catalogue of goals must be. *)
GoalsFit ==
  /\ \A i, j \in DOMAIN Catalogue : Catalogue[i].id = Catalogue[j].id => i = j
  /\ \A s \in Snapshots : DOMAIN s = DOMAIN EmptyStats
  /\ MaxApplied \in Nat

VARIABLES
  unlocked, stats, hydrated,      \* the achievements store; unlocked: id -> time, 0 for none
  queue, mounted, armed, onTv,    \* the banner: its key, whether its timer runs; the TV stage is open
  applied,                        \* bound
  earned, gone, announced         \* history: unlocked while hydrated; left the queue; times announced

store       == <<unlocked, stats, hydrated>>
banner      == <<queue, mounted, armed, onTv>>
trophyVars  == <<store, banner, applied, earned, gone, announced>>

-----------------------------------------------------------------------------
(* engine.ts *)
IsMet(value, g) ==
  value # None /\ IF g.compare = "lte" THEN value <= g.threshold ELSE value >= g.threshold

Clamp01(percent) == IF percent <= 0 THEN 0 ELSE IF percent >= 100 THEN 100 ELSE percent

\* progressFor, in whole percents.
ProgressFor(value, g) ==
  IF value = None THEN 0
  ELSE IF g.threshold <= 0 THEN (IF value > 0 THEN 100 ELSE 0)
  ELSE Clamp01(IF g.compare = "lte"
               THEN (IF value = 0 THEN 100 ELSE (100 * g.threshold) \div value)
               ELSE (100 * value) \div g.threshold)

Evaluate(s, u) ==
  [i \in DOMAIN Catalogue |->
     LET g == Catalogue[i]
         met == u[g.id] # 0 \/ IsMet(s[g.metric], g)
     IN  [goal |-> g, value |-> s[g.metric], unlocked |-> met, unlockedAt |-> u[g.id],
          progress |-> IF met THEN 100 ELSE ProgressFor(s[g.metric], g)]]

NewlyUnlocked(s, u) == SelectSeq(Catalogue, LAMBDA g : u[g.id] = 0 /\ IsMet(s[g.metric], g))

UnlockedCount(u) == Len(SelectSeq(Catalogue, LAMBDA g : u[g.id] # 0))

(* trophyPresentation.ts *)
TrophyGroups(views) ==
  [c \in {g.category : g \in Goals} |->
     LET items == SelectSeq(views, LAMBDA v : v.goal.category = c)
     IN  [items |-> items, unlocked |-> Len(SelectSeq(items, LAMBDA v : v.unlocked))]]

LatestUnlock(views) ==
  FoldLeft(LAMBDA latest, v :
             IF v.unlockedAt # 0 /\ (latest = None \/ v.unlockedAt >= latest.unlockedAt) THEN v ELSE latest,
           None, views)

UnlockedSince(before, after) ==
  SelectSeq([i \in DOMAIN Catalogue |-> Catalogue[i].id],
            LAMBDA id : hydrated /\ after[id] # 0 /\ before[id] = 0)

-----------------------------------------------------------------------------
Init ==
  /\ unlocked = [id \in GoalIds |-> 0] /\ stats = EmptyStats /\ hydrated = FALSE
  /\ queue = <<>> /\ mounted = None /\ armed = FALSE /\ onTv = FALSE
  /\ applied = 0
  /\ earned = <<>> /\ gone = <<>> /\ announced = [id \in GoalIds |-> 0]

(* The banner React mounts for a queue: a new key is a new banner, which
   announces itself and starts a timer; `running` is the timer of the old one. *)
KeyNone(q) == <<"banner">>
Key(q) == <<q[1], Len(q)>>

Render(q, tv, running) ==
  LET wanted == IF q = <<>> \/ tv THEN None ELSE Key(q)
      fresh  == wanted # None /\ wanted # mounted
  IN  /\ queue' = q /\ onTv' = tv /\ mounted' = wanted
      /\ armed' = (wanted # None /\ (fresh \/ running))
      /\ announced' = IF fresh /\ announced[q[1]] < 2 THEN [announced EXCEPT ![q[1]] = @ + 1] ELSE announced

(* hydrate: the unlocks on disk replace the store's; not a celebration. *)
Hydrate(kept) ==
  /\ ~hydrated /\ hydrated' = TRUE
  /\ unlocked' = [id \in GoalIds |-> IF id \in kept THEN 1 ELSE 0]
  /\ UNCHANGED <<stats, banner, applied, earned, gone, announced>>

ApplyStats(s) ==
  LET fresh == NewlyUnlocked(s, unlocked)
      stamp == [id \in GoalIds |-> IF \E i \in DOMAIN fresh : fresh[i].id = id
                                   THEN applied + 2 ELSE unlocked[id]]
      since == UnlockedSince(unlocked, stamp)
  IN  /\ applied < MaxApplied /\ applied' = applied + 1
      /\ stats' = s /\ unlocked' = stamp
      /\ earned' = earned \o since
      /\ Render(queue \o since, onTv, armed)
      /\ UNCHANGED <<hydrated, gone>>

(* onDone: the timer of the mounted banner, or a press on it. *)
Done(running) ==
  /\ gone' = Append(gone, queue[1])
  /\ Render(Tail(queue), onTv, running)
  /\ UNCHANGED <<store, applied, earned>>

Expire == mounted # None /\ armed /\ Done(FALSE)
Press  == mounted # None /\ Done(armed)

Navigate(tv) ==
  /\ onTv # tv
  /\ Render(queue, tv, armed)
  /\ UNCHANGED <<store, applied, earned, gone>>

Next ==
  \/ \E kept \in SUBSET GoalIds : Hydrate(kept)
  \/ \E s \in Snapshots : ApplyStats(s)
  \/ Expire \/ Press
  \/ \E tv \in BOOLEAN : Navigate(tv)

Spec == Init /\ [][Next]_trophyVars /\ WF_trophyVars(Expire)

-----------------------------------------------------------------------------
(***************************************************************************)
(* Every trophy unlocked while the app runs is announced, once its turn     *)
(* comes, in the order of unlocking and before it leaves the queue:         *)
(* unlocks that arrive while a banner is up, presses, timers and visits to  *)
(* the TV stage, which shows none, lose none of them                        *)
(* (TrophyUnlockBanner.tsx:29-43, 59-72).                                   *)
(***************************************************************************)
NoneSkipped ==
  /\ earned = gone \o queue
  /\ \A i \in DOMAIN gone : announced[gone[i]] > 0

(***************************************************************************)
(* Off the TV stage the banners clear themselves: each gets a timer of its  *)
(* own (TrophyUnlockBanner.tsx:40-42, 68).                                  *)
(***************************************************************************)
BannersClear == <>[](~onTv) => []<>(queue = <<>>)

(***************************************************************************)
(* "shows one banner per new unlock" (TrophyUnlockBanner.tsx:3-4): no       *)
(* unlock is announced twice.                                               *)
(***************************************************************************)
AnnouncedOnce == \A id \in GoalIds : announced[id] <= 1
=============================================================================
