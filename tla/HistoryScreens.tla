---------------------------- MODULE HistoryScreens ----------------------------
(***************************************************************************)
(* The History screens: the list with its Clear (app/(tabs)/history.tsx,    *)
(* HistoryBoard.tsx), a session's detail (app/history/[id].tsx), and the    *)
(* cache of sparklines the tickets fill (history/sparkCache.ts), reading a  *)
(* database that passes are being recorded in.                              *)
(*                                                                         *)
(* One connection serves the statements in the order they are issued, and   *)
(* the answer to one is handled before the next is served; a screen that    *)
(* lost the focus ignores its answers, the cache does not.  Any statement   *)
(* may be rejected; BEGIN, COMMIT and ROLLBACK fail by what is open only.   *)
(* Speeds are left out: a line is known by how many passes it was drawn     *)
(* from.                                                                    *)
(***************************************************************************)
EXTENDS Naturals, Sequences, SequencesExt

CONSTANTS
  MaxSessions, MaxPasses,   \* bounds on sessions started and passes recorded
  MaxFocus, MaxPending,     \* bounds on changes of screen, and on statements waiting when one more is issued
  MAX_ENTRIES,              \* of the spark cache
  None

VARIABLES
  ready,           \* getSessionRepository() is not null
  table,           \* the database: id -> [count, rows]; None counts: no such session
  made,            \* sqlite_sequence: the last session id
  held,            \* what the open transaction's BEGIN found, or None
  current, issued, \* the session passes are recorded for; calls of addPass
  queue,           \* statements issued and not served
  focus, visit,    \* the screen in front, and which visit of it this is
  list,            \* the list's tickets [id, count], or None before the first read
  detail, half,    \* the detail's state, or None when it is not mounted; its first answer
  cache,           \* the spark cache, oldest entry first: [id, count, rows]
  spoilt, cleared  \* history variables: an addPass met another or left something
                   \* half done; the sessions a clear removed

tables      == <<table, made, held, cleared>>
shows       == <<list, detail, half, cache>>
historyVars == <<ready, tables, current, issued, queue, focus, visit, shows, spoilt>>

(* What the bounds must be; None is no answer, no ticket and no table row. *)
HistoryFits ==
  /\ MaxSessions \in Nat /\ MAX_ENTRIES \in Nat \ {0}
  /\ None \notin Nat

Ids     == 1 .. MaxSessions
InTable == {i \in Ids : table[i].count # None}
List    == 0
Away    == MaxSessions + 1
Screens == {List, Away} \cup Ids               \* an id: the detail of that session
Summary == {[id |-> i, count |-> table[i].count] : i \in InTable}
Rows(i) == table[i].rows
Absent  == [count |-> None, rows |-> 0]
Unread  == [count |-> None, rows |-> None]

MayIssue == Len(queue) < MaxPending

\* The key of a line: the session and its pass count.
IsFor(e, i, n) == e.id = i /\ e.count = n
Cached(i, n) == \E e \in ToSet(cache) : IsFor(e, i, n)

Init ==
  /\ ready = FALSE /\ table = [i \in Ids |-> Absent] /\ made = 0 /\ held = None
  /\ current = 0 /\ issued = 0 /\ queue = <<>>
  /\ focus = Away /\ visit = 0
  /\ list = None /\ detail = None /\ half = None /\ cache = <<>>
  /\ spoilt = FALSE /\ cleared = {}

(* The bootstrap finishes. *)
Open ==
  /\ ~ready /\ ready' = TRUE
  /\ UNCHANGED <<tables, current, issued, queue, focus, visit, shows, spoilt>>

(* The portal connects: startSession. *)
StartSession ==
  /\ ready /\ made < MaxSessions
  /\ made' = made + 1 /\ current' = made'
  /\ table' = [table EXCEPT ![made'].count = 0]
  /\ UNCHANGED <<ready, held, cleared, issued, queue, focus, visit, shows, spoilt>>

\* The statements of addPass; each is issued when the one before it answered.
Recording == {"begin", "count", "row", "commit", "rollback"}

(* A pass: addPass waits for no other call. *)
AddPass ==
  /\ MayIssue /\ current > 0 /\ issued < MaxPasses /\ issued' = issued + 1
  /\ queue' = Append(queue, [op |-> "begin", id |-> current, n |-> 0, visit |-> 0])
  /\ spoilt' = (spoilt \/ \E s \in ToSet(queue) : s.op \in Recording)
  /\ UNCHANGED <<ready, tables, current, focus, visit, shows>>

-----------------------------------------------------------------------------
Ask(op, i, n) == [op |-> op, id |-> i, n |-> n, visit |-> visit']

(* useFocusEffect(reload) of the screen that comes to the front. *)
Reads(s) ==
  IF s = Away THEN <<>>
  ELSE IF s = List THEN <<Ask("list", 0, 0)>>
  ELSE <<Ask("header", s, 0), Ask("passes", s, 0)>>

(* A ticket pushes the detail, a pass of it the Garage's, which goes back to *)
(* the detail as it was; back to the list the detail is gone.  A ticket was  *)
(* read from the repository, so the detail always finds one.                 *)
Focus(s) ==
  /\ MayIssue /\ visit < MaxFocus /\ focus # s
  /\ \/ /\ s \in Ids /\ focus = List /\ list # None /\ \E t \in list : t.id = s
        /\ detail' = [id |-> s, count |-> None, passes |-> None, asOf |-> Unread, whole |-> TRUE]
     \/ /\ s \in Ids /\ focus = Away /\ detail # None /\ detail.id = s
        /\ detail' = detail
     \/ /\ s = Away /\ focus \in Ids /\ detail.passes \notin {None, 0}
        /\ detail' = detail
     \/ /\ s = List /\ (focus = Away => detail = None)
        /\ detail' = None
     \/ /\ s = Away /\ focus = List
        /\ detail' = None
  /\ focus' = s /\ visit' = visit + 1 /\ half' = None
  /\ queue' = IF ready THEN queue \o Reads(s) ELSE queue
  /\ list' = IF s = List /\ ~ready THEN {} ELSE list
  /\ UNCHANGED <<ready, tables, current, issued, cache, spoilt>>

(* confirmClear, once the alert is answered. *)
Clear ==
  /\ MayIssue /\ focus = List /\ ready /\ list # None /\ list # {}
  /\ ~\E s \in ToSet(queue) : s.op = "clear"
  /\ queue' = Append(queue, [op |-> "clear", id |-> 0, n |-> 0, visit |-> 0])
  /\ UNCHANGED <<ready, tables, current, issued, focus, visit, shows, spoilt>>

-----------------------------------------------------------------------------
(* What serving the first statement does, and what its answer does: first   *)
(* the transaction of addPass.                                              *)
Rest == Tail(queue)

Then(s, op) == queue' = Append(Rest, [s EXCEPT !.op = op])

Found == [table |-> table, made |-> made, cleared |-> cleared]

\* BEGIN within a transaction is an error.
Begin(s) ==
  /\ IF held = None THEN held' = Found /\ Then(s, "count")
                    ELSE held' = held /\ Then(s, "rollback")
  /\ UNCHANGED <<table, made, cleared, shows, spoilt>>

\* No row changed, as of a session that was cleared, or an error, is thrown.
Count(s) ==
  /\ \/ /\ table[s.id].count # None
        /\ table' = [table EXCEPT ![s.id].count = @ + 1] /\ Then(s, "row")
     \/ table' = table /\ Then(s, "rollback")
  /\ UNCHANGED <<made, held, cleared, shows, spoilt>>

\* No key of another table holds the row back: it may be an orphan.
Row(s) ==
  /\ \/ /\ table' = [table EXCEPT ![s.id].rows = @ + 1] /\ Then(s, "commit")
        /\ spoilt' = spoilt
     \/ /\ table' = table /\ Then(s, "rollback")
        /\ spoilt' = TRUE
  /\ UNCHANGED <<made, held, cleared, shows>>

\* COMMIT without a transaction is an error.
Commit(s) ==
  /\ held' = None
  /\ IF held # None THEN queue' = Rest ELSE Then(s, "rollback")
  /\ UNCHANGED <<table, made, cleared, shows, spoilt>>

\* ROLLBACK ends whichever transaction is open.
Rollback ==
  /\ queue' = Rest /\ held' = None
  /\ IF held = None
     THEN UNCHANGED <<table, made, cleared, spoilt>>
     ELSE /\ table' = held.table /\ made' = held.made /\ cleared' = held.cleared
          /\ spoilt' = (spoilt \/ held # Found)
  /\ UNCHANGED shows

-----------------------------------------------------------------------------
(* The screens' reads, and the clear.                                       *)

\* `active`: the visit that asked has not ended.
Always(s) == TRUE
Active(s) == s.visit = visit

(* The tickets that appear, or whose count changed, look for their line.    *)
Sparks(tickets) ==
  LET wanted == {t \in tickets : /\ t.count >= 2 /\ ~Cached(t.id, t.count)
                                 /\ list = None \/ t \notin list}
  IN  [i \in DOMAIN SetToSeq(wanted) |->
         LET t == SetToSeq(wanted)[i] IN [op |-> "spark", id |-> t.id, n |-> t.count, visit |-> 0]]

\* A list that cannot be read is shown empty.
Listed(s) ==
  /\ IF Active(s)
     THEN \/ list' = Summary /\ queue' = Rest \o Sparks(Summary)
          \/ list' = {} /\ queue' = Rest
     ELSE list' = list /\ queue' = Rest
  /\ UNCHANGED <<tables, detail, half, cache, spoilt>>

\* catch: only the passes are given up; the header stays what it was.
Fails == detail' = [detail EXCEPT !.passes = 0, !.whole = FALSE]

(* Promise.all: the header's answer waits for the passes', or fails for both. *)
(* A screen that is gone takes neither.  `asOf`, for the properties, is what  *)
(* the tables said of its session at the header's answer.                     *)
Header(s) ==
  /\ IF ~Active(s) \/ detail = None THEN UNCHANGED <<detail, half>>
     ELSE \/ /\ half' = [count |-> table[s.id].count, asOf |-> table[detail.id]]
             /\ detail' = detail
          \/ /\ half' = [count |-> None, asOf |-> None]
             /\ Fails
  /\ queue' = Rest
  /\ UNCHANGED <<tables, list, cache, spoilt>>

Passes(s) ==
  /\ IF ~Active(s) \/ half = None THEN UNCHANGED <<detail, half>>
     ELSE /\ half' = None
          /\ \/ half.asOf = None /\ detail' = detail
             \/ half.asOf # None /\ Fails
             \/ /\ half.asOf # None
                /\ detail' = [detail EXCEPT !.count = half.count, !.passes = Rows(s.id),
                                            !.asOf = half.asOf, !.whole = TRUE]
  /\ queue' = Rest
  /\ UNCHANGED <<tables, list, cache, spoilt>>

(* An entry is evicted, oldest first, for the one the answer brings. *)
Insert(e) ==
  LET kept == IF Len(cache) >= MAX_ENTRIES THEN Tail(cache) ELSE cache
      at   == SelectInSeq(kept, LAMBDA k : IsFor(k, e.id, e.count))
  IN  IF at # 0 THEN [kept EXCEPT ![at] = e] ELSE Append(kept, e)

Sparked(s) ==
  /\ \/ cache' = Insert([id |-> s.id, count |-> s.n, rows |-> Rows(s.id)])
     \/ cache' = cache
  /\ queue' = Rest
  /\ UNCHANGED <<tables, list, detail, half, spoilt>>

KeepsList == list' = list
ClearsList == list' = {}

\* Two statements: the first may stay done when the second is rejected.
Cleared ==
  /\ \/ /\ table' = [i \in Ids |-> Absent] /\ cleared' = cleared \cup InTable
        /\ cache' = <<>> /\ ClearsList
        /\ spoilt' = spoilt
     \/ UNCHANGED <<table, cleared, cache, list, spoilt>>
     \/ /\ table' = [i \in Ids |-> [table[i] EXCEPT !.rows = 0]]
        /\ spoilt' = TRUE
        /\ UNCHANGED <<cleared, cache, list>>
  /\ queue' = Rest
  /\ UNCHANGED <<made, held, detail, half>>

Serve ==
  /\ queue # <<>>
  /\ LET s == Head(queue) IN
       \/ s.op = "begin" /\ Begin(s)
       \/ s.op = "count" /\ Count(s)
       \/ s.op = "row" /\ Row(s)
       \/ s.op = "commit" /\ Commit(s)
       \/ s.op = "rollback" /\ Rollback
       \/ s.op = "list" /\ Listed(s)
       \/ s.op = "header" /\ Header(s)
       \/ s.op = "passes" /\ Passes(s)
       \/ s.op = "spark" /\ Sparked(s)
       \/ s.op = "clear" /\ Cleared
  /\ UNCHANGED <<ready, current, issued, focus, visit>>

Next ==
  \/ Open \/ StartSession \/ AddPass
  \/ \E s \in Screens : Focus(s)
  \/ Clear \/ Serve

Spec == Init /\ [][Next]_historyVars

-----------------------------------------------------------------------------
(***************************************************************************)
(* What a complete reload shows is one snapshot of the session the detail   *)
(* is mounted for, although it is two reads with any number of passes,      *)
(* clears and rollbacks being served around them: the header's count and    *)
(* the passes listed under it are both what the tables held then; and while *)
(* no addPass met another or left something half done, the count is that of *)
(* the passes listed, but for one that is being recorded.  A reload that    *)
(* was rejected has emptied the list below whatever header there was        *)
(* ([id].tsx:50-70, sqliteSessionRepository.ts:76-122).                     *)
(***************************************************************************)
DetailAgrees ==
  detail # None =>
    /\ focus \in {detail.id, Away}
    /\ IF detail.whole THEN detail.asOf = [count |-> detail.count, rows |-> detail.passes]
                       ELSE detail.passes = 0
    /\ detail.whole /\ ~spoilt /\ detail.count # None =>
         detail.count \in {detail.passes, detail.passes + 1}

(***************************************************************************)
(* The line on a ticket was drawn from all the passes the ticket counts,    *)
(* however the load of the line and new passes interleave, while no addPass *)
(* met another or left something half done (sparkCache.ts:3-5, 18-42).      *)
(***************************************************************************)
SparkIsComplete ==
  list # None /\ ~spoilt =>
    \A t \in list : \A e \in ToSet(cache) : IsFor(e, t.id, t.count) => e.rows >= t.count

(***************************************************************************)
(* Once history is cleared, the list shows no session the clear removed:    *)
(* what was read before it is answered before it, and a rollback that       *)
(* brings the session back brings it back to the tables                     *)
(* (history.tsx:39-77).                                                     *)
(***************************************************************************)
ClearedIsGone == list # None => \A t \in list : t.id \notin cleared
=============================================================================
