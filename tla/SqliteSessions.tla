---------------------------- MODULE SqliteSessions ----------------------------
(***************************************************************************)
(* SqliteSessionRepository                                                  *)
(* (apps/mobile/src/store/persistence/sqliteSessionRepository.ts), one      *)
(* statement at a time.  All calls go over one connection, and              *)
(* withTransactionAsync of expo-sqlite (external) is not exclusive: it      *)
(* awaits BEGIN, the task and COMMIT one after the other, answers any       *)
(* failure with ROLLBACK, and leaves the connection to other calls in       *)
(* between.                                                                 *)
(*                                                                         *)
(* A pass row and its share in pass_count and best_mph are both named by    *)
(* the call of addPass that made them.                                      *)
(***************************************************************************)
EXTENDS Naturals

CONSTANTS
  Calls,         \* identities of addPass calls
  MaxSessions    \* bound on sessions started

ASSUME ConstantsAssumption == MaxSessions \in Nat

VARIABLES
  last,                            \* sqlite_sequence: the last session id
  stored, ended, counted, rows,    \* the tables; counted: what the summaries include
  saved,                           \* what BEGIN found, to roll back to
  pc, target,                      \* addPass: the statement awaited, its session
  torn,                            \* history variable: rows a broken-off clear removed
  mixed                            \* history variable: calls another call or a clear came upon

calls == <<pc, target>>
vars  == <<last, stored, ended, counted, rows, saved, calls, torn, mixed>>

Sessions == 1 .. MaxSessions
Entries  == Calls \X Sessions
Content  == [last : 0 .. MaxSessions, stored : SUBSET Sessions, ended : SUBSET Sessions,
             counted : SUBSET Entries, rows : SUBSET Entries]
\* What a session counts, and its end, are columns of its row.
Tables   == {t \in Content : t.ended \subseteq t.stored /\ t.counted \subseteq Calls \X t.stored}
Now      == [last |-> last, stored |-> stored, ended |-> ended, counted |-> counted, rows |-> rows]
NoTransaction == [open |-> FALSE]

\* The variables keep their types, those of the tables a rollback would bring
\* back included: a summary or an end never outlives its session's row.
TypeOK ==
  /\ Now \in Tables
  /\ saved = NoTransaction \/ saved \in [open : {TRUE}, was : Tables]
  /\ pc \in [Calls -> {"none", "begin", "update", "insert", "commit", "rollback", "settled"}]
  /\ target \in [Calls -> Sessions]
  /\ torn \subseteq Entries /\ mixed \subseteq Calls

Init ==
  /\ last = 0 /\ stored = {} /\ ended = {} /\ counted = {} /\ rows = {}
  /\ saved = NoTransaction
  /\ pc = [c \in Calls |-> "none"] /\ target \in [Calls -> Sessions]
  /\ torn = {} /\ mixed = {}

-----------------------------------------------------------------------------
(* Statements.                                                              *)

InTransaction == saved # NoTransaction

TablesBecome(t) ==
  /\ last' = t.last /\ stored' = t.stored /\ ended' = t.ended
  /\ counted' = t.counted /\ rows' = t.rows

StartSession ==
  /\ last < MaxSessions
  /\ last' = last + 1
  /\ stored' = stored \cup {last'}
  /\ UNCHANGED <<ended, counted, rows, saved, calls, torn, mixed>>

\* Mutant: the end of a session that is gone brings its row back.
EndSessionUpserts(s) ==
  /\ s \in (1 .. last) \ ended
  /\ ended' = ended \cup {s}
  /\ UNCHANGED <<last, stored, counted, rows, saved, calls, torn, mixed>>

\* A session that is gone has no row to update.
EndSession(s) ==
  /\ s \in stored \ ended
  /\ ended' = ended \cup {s}
  /\ UNCHANGED <<last, stored, counted, rows, saved, calls, torn, mixed>>

\* The calls of addPass under way.
Active == {c \in Calls : pc[c] \notin {"none", "settled"}}

\* One execAsync with two statements; nothing of this connection runs between them.
Clear ==
  /\ stored' = {} /\ ended' = {} /\ counted' = {} /\ rows' = {}
  /\ mixed' = mixed \cup Active
  /\ UNCHANGED <<last, saved, calls, torn>>

-----------------------------------------------------------------------------
(* addPass: withTransactionAsync around two statements.                     *)

\* The bridge names a session that was started, cleared since or not.
AddPass(c) ==
  /\ pc[c] = "none" /\ target[c] \in 1 .. last
  /\ pc' = [pc EXCEPT ![c] = "begin"]
  /\ mixed' = IF Active = {} THEN mixed ELSE mixed \cup Active \cup {c}
  /\ UNCHANGED <<last, stored, ended, counted, rows, saved, target, torn>>

\* BEGIN within a transaction is an error.
BeginTransaction(c) ==
  /\ pc[c] = "begin"
  /\ IF InTransaction
       THEN pc' = [pc EXCEPT ![c] = "rollback"] /\ UNCHANGED saved
       ELSE pc' = [pc EXCEPT ![c] = "update"] /\ saved' = [open |-> TRUE, was |-> Now]
  /\ UNCHANGED <<last, stored, ended, counted, rows, target, torn, mixed>>

\* Mutant: the number of rows changed is not looked at.
UpdateSummaryUnchecked(c) ==
  /\ pc[c] = "update"
  /\ pc' = [pc EXCEPT ![c] = "insert"]
  /\ counted' = IF target[c] \in stored THEN counted \cup {<<c, target[c]>>} ELSE counted
  /\ UNCHANGED <<last, stored, ended, rows, saved, target, torn, mixed>>

\* The task's first statement; no row changed, or an error, is thrown.
UpdateSummary(c) ==
  /\ pc[c] = "update"
  /\ \/ /\ target[c] \in stored
        /\ counted' = counted \cup {<<c, target[c]>>}
        /\ pc' = [pc EXCEPT ![c] = "insert"]
     \/ /\ pc' = [pc EXCEPT ![c] = "rollback"]
        /\ UNCHANGED counted
  /\ UNCHANGED <<last, stored, ended, rows, saved, target, torn, mixed>>

InsertPass(c) ==
  /\ pc[c] = "insert"
  /\ \/ /\ rows' = rows \cup {<<c, target[c]>>}
        /\ pc' = [pc EXCEPT ![c] = "commit"]
     \/ /\ pc' = [pc EXCEPT ![c] = "rollback"]
        /\ UNCHANGED rows
  /\ UNCHANGED <<last, stored, ended, counted, saved, target, torn, mixed>>

\* COMMIT without a transaction is an error.
Commit(c) ==
  /\ pc[c] = "commit"
  /\ pc' = [pc EXCEPT ![c] = IF InTransaction THEN "settled" ELSE "rollback"]
  /\ saved' = NoTransaction
  /\ UNCHANGED <<last, stored, ended, counted, rows, target, torn, mixed>>

\* catch: without a transaction ROLLBACK is an error as well; the call rejects.
Rollback(c) ==
  /\ pc[c] = "rollback"
  /\ pc' = [pc EXCEPT ![c] = "settled"]
  /\ saved' = NoTransaction
  /\ IF InTransaction THEN TablesBecome(saved.was) ELSE TablesBecome(Now)
  /\ UNCHANGED <<target, torn, mixed>>

-----------------------------------------------------------------------------
\* The process ends: what was not committed is gone.
Crash ==
  /\ TablesBecome(IF InTransaction THEN saved.was ELSE Now)
  /\ saved' = NoTransaction
  /\ pc' = [c \in Calls |-> IF pc[c] = "none" THEN "none" ELSE "settled"]
  /\ UNCHANGED <<target, torn, mixed>>

\* Outside a transaction each statement of clear() is committed by itself.
CrashInClear ==
  /\ ~InTransaction
  /\ rows' = {} /\ torn' = torn \cup rows /\ mixed' = mixed \cup Active
  /\ pc' = [c \in Calls |-> IF pc[c] = "none" THEN "none" ELSE "settled"]
  /\ UNCHANGED <<last, stored, ended, counted, saved, target>>

Next ==
  \/ StartSession \/ Clear \/ Crash \/ CrashInClear
  \/ \E s \in Sessions : EndSession(s)
  \/ \E c \in Calls :
       \/ AddPass(c) \/ BeginTransaction(c) \/ UpdateSummary(c)
       \/ InsertPass(c) \/ Commit(c) \/ Rollback(c)

Spec == Init /\ [][Next]_vars
-----------------------------------------------------------------------------
(* Properties.                                                              *)

\* What the database would hold if the process ended now.
Committed == IF InTransaction THEN saved.was ELSE Now

\* A pass whose call met neither another addPass nor a clear is counted where
\* it is listed, and listed in a stored session only, in whatever is committed:
\* with errors, crashes, sessions coming and going, and other calls that did
\* overlap rolling each other back before it and after it.  A clear that a
\* crash broke off is set apart (sqliteSessionRepository.ts:76-102).
DriftNeedsOverlap ==
  \A c \in Calls \ mixed :
    LET a == <<c, target[c]>>
    IN  /\ a \in Committed.counted \ torn <=> a \in Committed.rows
        /\ a \in Committed.rows => target[c] \in Committed.stored

\* "One transaction so the passes row and the session summary never drift, and
\* so a pass for a missing session writes nothing instead of an orphan row":
\* the comment at lines 77-79, of every call.  Overlapping calls break it.
SummaryAgrees ==
  ~InTransaction => /\ counted \ torn = rows
                    /\ \A a \in rows : a[2] \in stored
=============================================================================
