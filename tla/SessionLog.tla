------------------------------ MODULE SessionLog ------------------------------
(***************************************************************************)
(* What History promises (sessionRepository.ts): a session spans one        *)
(* connection of the portal, and a pass is recorded in the session of the   *)
(* connection during which the car crossed, at most once.                   *)
(*                                                                         *)
(* A session is named by the number of the connection it belongs to.  It    *)
(* may be stored late and ended late, but never ended while its connection  *)
(* lasts, and clearing the history takes it away for good.                  *)
(***************************************************************************)
EXTENDS Naturals

CONSTANT Passes   \* identities of crossings

VARIABLES
  connected,   \* the portal is connected
  era,         \* connections so far
  crossed,     \* <<pass, connection>>: what happened on the track
  opened,      \* sessions ever stored
  stored,      \* sessions in the list
  ended,       \* those with an end time
  rows         \* <<pass, session>>: passes recorded

track   == <<connected, era, crossed>>
history == <<opened, stored, ended, rows>>

Init ==
  /\ connected = FALSE /\ era = 0 /\ crossed = {}
  /\ opened = {} /\ stored = {} /\ ended = {} /\ rows = {}

Connect ==
  /\ ~connected
  /\ connected' = TRUE /\ era' = era + 1
  /\ UNCHANGED <<crossed, history>>

Disconnect ==
  /\ connected
  /\ connected' = FALSE
  /\ UNCHANGED <<era, crossed, history>>

Cross ==
  /\ connected
  /\ \E p \in Passes : /\ \A c \in crossed : c[1] # p
                       /\ crossed' = crossed \cup {<<p, era>>}
  /\ UNCHANGED <<connected, era, history>>

Open ==
  /\ \E e \in (1 .. era) \ opened :
       opened' = opened \cup {e} /\ stored' = stored \cup {e}
  /\ UNCHANGED <<track, ended, rows>>

End ==
  /\ \E e \in stored \ ended :
       /\ connected => e # era
       /\ ended' = ended \cup {e}
  /\ UNCHANGED <<track, opened, stored, rows>>

Record ==
  /\ \E c \in crossed \ rows : c[2] \in stored /\ rows' = rows \cup {c}
  /\ UNCHANGED <<track, opened, stored, ended>>

Clear ==
  /\ stored' = {} /\ ended' = {} /\ rows' = {}
  /\ UNCHANGED <<track, opened>>

Next == Connect \/ Disconnect \/ Cross \/ Open \/ End \/ Record \/ Clear

Spec == Init /\ [][Next]_<<track, history>>
=============================================================================
