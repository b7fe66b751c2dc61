---------------------------- MODULE PortalHistory ----------------------------
(***************************************************************************)
(* The bridge from the portal store to History: setConnection and dispatch  *)
(* of apps/mobile/src/store/portalStore.ts, and the subscription that       *)
(* wirePortalBridges (store/persistence/initPersistence.ts) installs on it. *)
(*                                                                         *)
(* The subscriber runs inside the store update, so a store update and what  *)
(* the bridge does about it are one step.  The repository's calls are       *)
(* promises: a call is settled, and the answer of startSession delivered,   *)
(* in steps of their own, in any order (the SessionRepository interface     *)
(* promises none), and a call may be rejected.  A call is taken to do what  *)
(* its contract says, at once, as InMemorySessionRepository does it, on     *)
(* tables that outlive the process; SqliteSessions is about the statements. *)
(*                                                                         *)
(* Connections are numbered (`era`), and the row that startSession inserts  *)
(* is named by the connection it was called for: the code compares session  *)
(* ids and does nothing else with them.  0 stands for null.  A pass is      *)
(* numbered for good; passCounter starts again with the application, but    *)
(* its values are compared within one run only.                             *)
(***************************************************************************)
EXTENDS Naturals

CONSTANTS MaxConnections, MaxPasses     \* bounds on what happens outside

ASSUME BoundsAssumption == MaxConnections \in Nat /\ MaxPasses \in Nat

VARIABLES
  connection, head, passes,     \* the portal store; head: the newest pass it lists
  era, crossed,                 \* history variables: connections so far, <<pass, connection>>
  wired, lastConnection, lastPassId, epoch, sessionId,    \* wirePortalBridges
  starting, answers,            \* startSession: calls not settled, results not delivered
  ending, adding, clearing,     \* endSession, addPass, clear: calls not settled
  opened, sessions, ended, rows,  \* the tables; opened: sessions ever inserted
  forsaken                      \* history variable: rows whose end was lost

portal == <<connection, head, passes, era, crossed>>
bridge == <<wired, lastConnection, lastPassId, epoch, sessionId>>
calls  == <<starting, answers, ending, adding, clearing>>
tables == <<opened, sessions, ended, rows>>
vars   == <<portal, bridge, calls, tables, forsaken>>

Connections == {"disconnected", "connecting", "connected"}
Eras   == 1 .. era
Starts == [epoch : Nat, era : Eras]

\* The variables keep their types, and a pass row always has its session row:
\* the contract of addPass writes nothing for a session that was cleared.
TypeOK ==
  /\ connection \in Connections /\ lastConnection \in Connections
  /\ era \in 0 .. MaxConnections /\ passes \in 0 .. MaxPasses
  /\ head \in 0 .. passes /\ lastPassId \in 0 .. passes
  /\ crossed \subseteq (1 .. passes) \X Eras
  /\ wired \in BOOLEAN /\ clearing \in BOOLEAN
  /\ epoch \in Nat /\ sessionId \in 0 .. era
  /\ starting \subseteq Starts /\ answers \subseteq Starts
  /\ ending \subseteq Eras
  /\ adding \subseteq (1 .. passes) \X Eras
  /\ opened \subseteq Eras /\ sessions \subseteq opened
  /\ ended \subseteq sessions /\ forsaken \subseteq Eras
  /\ rows \subseteq (1 .. passes) \X sessions

Init ==
  /\ connection = "disconnected" /\ head = 0 /\ passes = 0
  /\ era = 0 /\ crossed = {}
  /\ wired = FALSE /\ lastConnection = "disconnected" /\ lastPassId = 0
  /\ epoch = 0 /\ sessionId = 0
  /\ starting = {} /\ answers = {} /\ ending = {} /\ adding = {} /\ clearing = FALSE
  /\ opened = {} /\ sessions = {} /\ ended = {} /\ rows = {}
  /\ forsaken = {}

-----------------------------------------------------------------------------
(* The bridge.  Its operators take the new values of what the store holds.  *)

Opens(c)  == c = "connected" /\ lastConnection # "connected"
Closes(c) == c # "connected" /\ lastConnection = "connected"

\* Mutant: closeSession does not invalidate an openSession under way.
ObserveWithoutEpoch(c, p) ==
  LET bound   == IF Closes(c) THEN 0 ELSE sessionId
      crosses == p # 0 /\ p # lastPassId
  IN  /\ lastConnection' = c
      /\ epoch' = IF Opens(c) THEN epoch + 1 ELSE epoch
      /\ starting' = IF Opens(c)
                       THEN starting \cup {[epoch |-> epoch', era |-> era']} ELSE starting
      /\ sessionId' = bound
      /\ ending' = IF Closes(c) /\ sessionId # 0 THEN ending \cup {sessionId} ELSE ending
      /\ lastPassId' = IF crosses THEN p ELSE lastPassId
      /\ adding' = IF crosses /\ bound # 0 THEN adding \cup {<<p, bound>>} ELSE adding
      /\ UNCHANGED <<wired, answers, clearing>>

\* The subscriber on a store that now holds connection c and newest pass p;
\* assigns bridge and calls.  The connection is looked at before the pass.
Observe(c, p) ==
  LET bound   == IF Closes(c) THEN 0 ELSE sessionId
      crosses == p # 0 /\ p # lastPassId
  IN  /\ lastConnection' = c
      /\ epoch' = IF Opens(c) \/ Closes(c) THEN epoch + 1 ELSE epoch
      /\ starting' = IF Opens(c)
                       THEN starting \cup {[epoch |-> epoch', era |-> era']} ELSE starting
      /\ sessionId' = bound
      /\ ending' = IF Closes(c) /\ sessionId # 0 THEN ending \cup {sessionId} ELSE ending
      /\ lastPassId' = IF crosses THEN p ELSE lastPassId
      /\ adding' = IF crosses /\ bound # 0 THEN adding \cup {<<p, bound>>} ELSE adding
      /\ UNCHANGED <<wired, answers, clearing>>

\* A store update reaches the bridge once the application has wired it.
Notify(c, p) ==
  \/ wired /\ Observe(c, p)
  \/ ~wired /\ UNCHANGED <<bridge, calls>>

-----------------------------------------------------------------------------
(* The portal store.                                                        *)

SetConnection(c) ==
  /\ connection' = c
  /\ head' = IF c = "disconnected" THEN 0 ELSE head
  /\ IF c = "connected" /\ connection # "connected"
       THEN era < MaxConnections /\ era' = era + 1
       ELSE era' = era
  /\ Notify(c, head')
  /\ UNCHANGED <<passes, crossed, tables, forsaken>>

\* A speed event that the store accepts as a pass.
Cross ==
  /\ passes < MaxPasses
  /\ passes' = passes + 1
  /\ head' = passes'
  /\ crossed' = IF connection = "connected" THEN crossed \cup {<<passes', era>>} ELSE crossed
  /\ Notify(connection, passes')
  /\ UNCHANGED <<connection, era, tables, forsaken>>

\* Any other event: a car, a serial, a status, a reading that is no new pass.
OtherEvent ==
  /\ Notify(connection, head)
  /\ UNCHANGED <<portal, tables, forsaken>>

-----------------------------------------------------------------------------
(* The application's start, and its end at any moment.                      *)

\* wirePortalBridges seeds itself from the store as it is.
Wire ==
  /\ ~wired
  /\ wired' = TRUE
  /\ lastConnection' = connection /\ lastPassId' = head
  /\ IF connection = "connected"
       THEN /\ epoch' = epoch + 1
            /\ starting' = starting \cup {[epoch |-> epoch', era |-> era]}
       ELSE UNCHANGED <<epoch, starting>>
  /\ UNCHANGED <<sessionId, answers, ending, adding, clearing, portal, tables, forsaken>>

\* What the process held is gone; the tables stay, and nothing in the next run
\* goes through the rows that have no end time.
Crash ==
  /\ connection' = "disconnected" /\ head' = 0
  /\ wired' = FALSE /\ lastConnection' = "disconnected" /\ lastPassId' = 0
  /\ epoch' = 0 /\ sessionId' = 0
  /\ starting' = {} /\ answers' = {} /\ ending' = {} /\ adding' = {} /\ clearing' = FALSE
  /\ forsaken' = forsaken \cup (sessions \ ended)
  /\ UNCHANGED <<passes, era, crossed, tables>>

-----------------------------------------------------------------------------
(* The repository.                                                          *)

\* startSession inserts the row, or rejects.
StartSettles(s) ==
  /\ s \in starting
  /\ starting' = starting \ {s}
  /\ \/ /\ opened' = opened \cup {s.era} /\ sessions' = sessions \cup {s.era}
        /\ answers' = answers \cup {s}
     \/ UNCHANGED <<opened, sessions, answers>>
  /\ UNCHANGED <<portal, bridge, ending, adding, clearing, ended, rows, forsaken>>

\* Mutant: a late answer is bound like a timely one.
AnswerAlwaysBinds(s) ==
  /\ s \in answers
  /\ answers' = answers \ {s}
  /\ sessionId' = s.era
  /\ UNCHANGED <<portal, wired, lastConnection, lastPassId, epoch, starting, ending, adding, clearing, tables, forsaken>>

\* Mutant: a late answer is ignored, and its row stays open.
AnswerDropsOrphan(s) ==
  /\ s \in answers
  /\ answers' = answers \ {s}
  /\ sessionId' = IF s.epoch = epoch THEN s.era ELSE sessionId
  /\ UNCHANGED <<portal, wired, lastConnection, lastPassId, epoch, starting, ending, adding, clearing, tables, forsaken>>

\* The `then` of openSession.
AnswerDelivered(s) ==
  /\ s \in answers
  /\ answers' = answers \ {s}
  /\ \/ /\ s.epoch = epoch
        /\ sessionId' = s.era
        /\ UNCHANGED ending
     \/ /\ s.epoch # epoch
        /\ ending' = ending \cup {s.era}
        /\ UNCHANGED sessionId
  /\ UNCHANGED <<portal, wired, lastConnection, lastPassId, epoch, starting, adding, clearing, tables, forsaken>>

\* endSession updates the row if there is one; nothing retries a rejected call.
EndSettles(e) ==
  /\ e \in ending
  /\ ending' = ending \ {e}
  /\ \/ /\ ended' = ended \cup ({e} \cap sessions)
        /\ UNCHANGED forsaken
     \/ /\ forsaken' = forsaken \cup {e}
        /\ UNCHANGED ended
  /\ UNCHANGED <<portal, bridge, starting, answers, adding, clearing, opened, sessions, rows>>

\* Mutant: the pass is inserted without asking for its session.
AddOrphan(a) ==
  /\ a \in adding
  /\ adding' = adding \ {a}
  /\ rows' = rows \cup {a}
  /\ UNCHANGED <<portal, bridge, starting, answers, ending, clearing, opened, sessions, ended, forsaken>>

\* addPass throws when the session is not there.
AddSettles(a) ==
  /\ a \in adding
  /\ adding' = adding \ {a}
  /\ \/ a[2] \in sessions /\ rows' = rows \cup {a}
     \/ UNCHANGED rows
  /\ UNCHANGED <<portal, bridge, starting, answers, ending, clearing, opened, sessions, ended, forsaken>>

\* The History screen clears the history, connected or not.
AskClear ==
  /\ wired /\ ~clearing
  /\ clearing' = TRUE
  /\ UNCHANGED <<portal, bridge, starting, answers, ending, adding, tables, forsaken>>

ClearSettles ==
  /\ clearing
  /\ clearing' = FALSE
  /\ \/ sessions' = {} /\ ended' = {} /\ rows' = {}
     \/ UNCHANGED <<sessions, ended, rows>>
  /\ UNCHANGED <<portal, bridge, starting, answers, ending, adding, opened, forsaken>>

-----------------------------------------------------------------------------
Store == (\E c \in Connections : SetConnection(c)) \/ Cross \/ OtherEvent

Repository ==
  \/ \E s \in starting : StartSettles(s)
  \/ \E s \in answers : AnswerDelivered(s)
  \/ \E e \in ending : EndSettles(e)
  \/ \E a \in adding : AddSettles(a)
  \/ ClearSettles

Next == Store \/ Wire \/ Crash \/ AskClear \/ Repository

Spec == Init /\ [][Next]_vars
-----------------------------------------------------------------------------
(* Properties.                                                              *)

Log == INSTANCE SessionLog WITH
  Passes <- 1 .. MaxPasses, connected <- connection = "connected", stored <- sessions

\* Whatever the order in which the repository answers, rejects, is cleared, or
\* the application dies: a pass goes to the session of its own connection and
\* goes there once, and no session is ended while its connection lasts.
ImplementsSessionLog == Log!Spec

\* No open row is forgotten: it is the session of the connection that is up, or
\* its answer or its end is under way, or its end was lost with a rejected call
\* or with the process (openSession, closeSession and the epoch between them).
OpenSessionsAccounted ==
  \A e \in sessions \ ended :
    \/ e = sessionId /\ e = era /\ connection = "connected"
    \/ \E s \in answers : s.era = e
    \/ e \in ending \cup forsaken

\* A promise settles, fulfilled or rejected, and its continuation runs.
Settling ==
  /\ \A e \in 1 .. MaxConnections :
       /\ WF_vars(\E s \in starting : s.era = e /\ StartSettles(s))
       /\ WF_vars(\E s \in answers : s.era = e /\ AnswerDelivered(s))
       /\ WF_vars(EndSettles(e))
FairSpec == Spec /\ Settling

\* Once its connection is over a session does get its end time, unless it is
\* cleared or the one call that would set it fails.
SessionsEnd ==
  \A e \in 1 .. MaxConnections :
    e \in sessions /\ ~(connection = "connected" /\ e = era)
      ~> e \notin sessions \/ e \in ended \cup forsaken

\* "endedAt: null while the session is still open (portal connected)": when
\* nothing is under way, a row without an end time is the live connection's.
OpenMeansConnected ==
  starting = {} /\ answers = {} /\ ending = {} =>
    \A e \in sessions \ ended : connection = "connected" /\ e = era
=============================================================================
