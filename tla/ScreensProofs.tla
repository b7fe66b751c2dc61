---------------------------- MODULE ScreensProofs ----------------------------
(***************************************************************************)
(* Proofs about the screens: the picker, the history, the settings and the  *)
(* mock portal.  Each has an invariant of its own, kept by the steps of its *)
(* machine and by a stutter of it; a step of AppNext is one or the other.   *)
(*                                                                         *)
(*   Inv   the tables: a call that met no other holds the transaction, its  *)
(*         statements alone say what is there of its pass, and what BEGIN   *)
(*         found has none of it (CallOK), so every way out agrees; an open  *)
(*         transaction always has a call that will close it (HolderOK)      *)
(*   IInv  the picker: what can be undone is what is remembered of the pick *)
(*         (UndoOK), of a tag that is linked (UndoNames)                    *)
(*   HInv  the history: the queue of statements says what the answers will  *)
(*         be.  Whatever happens to the recording (Always), a detail's two  *)
(*         reads are next to each other (InPairs), so the first tells what  *)
(*         the second will find (HalfRead), and what a rollback brings back *)
(*         has no session that was cleared before (HeldOK).  While no       *)
(*         addPass met another or left something half done (Unspoilt), one  *)
(*         pass is being recorded, its row behind its count (Counted),      *)
(*         before every line that needs it (Lines)                          *)
(*   SInv  the settings: a field nobody edits shows the stored name         *)
(*   MInv  the mock: its connect comes before anything else (Connecting)    *)
(***************************************************************************)
EXTENDS Screens, Sequences, FiniteSetTheorems, TLAPS

-----------------------------------------------------------------------------
(* The tables.  They keep their shape whatever runs between two statements. *)

Inside(c) == pc[c] \in {"update", "insert", "commit", "rollback"}

\* Whoever opened the transaction closes it, if nobody else did.
HolderOK == InTransaction => \E c \in Calls : Inside(c)

Absent(a, t) == a \notin t.counted /\ a \notin t.rows

Agree(a, t) ==
  /\ a \in t.counted \ torn <=> a \in t.rows
  /\ a \in t.rows => a[2] \in t.stored

\* A call that meets no other has the transaction for itself; it left no trace
\* before its statements, and what BEGIN found has none of it.
CallOK(c) ==
  LET a == <<c, target[c]>>
  IN  /\ c \in Active => \A d \in Active : d = c
      /\ Inside(c) => InTransaction
      /\ pc[c] \in {"none", "begin", "update"} => Absent(a, Now)
      /\ pc[c] # "settled" => a \notin torn /\ (InTransaction => Absent(a, saved.was))
      /\ pc[c] = "insert" => a \in counted /\ a \notin rows /\ target[c] \in stored
      /\ pc[c] = "commit" => a \in counted /\ a \in rows /\ target[c] \in stored
      /\ pc[c] = "settled" => Agree(a, Now) /\ (InTransaction => Agree(a, saved.was))

Inv == TypeOK /\ HolderOK /\ \A c \in Calls \ mixed : CallOK(c)

-----------------------------------------------------------------------------
(* Types.                                                                   *)

\* The tables in one record, and one by one.
LEMMA InTables ==
  ASSUME NEW l, NEW st, NEW en, NEW k, NEW r
  PROVE  [last |-> l, stored |-> st, ended |-> en, counted |-> k, rows |-> r] \in Tables
           <=> /\ l \in 0 .. MaxSessions /\ st \subseteq Sessions /\ en \subseteq st
               /\ k \subseteq Entries /\ k \subseteq Calls \X st /\ r \subseteq Entries
<1>1. st \subseteq Sessions /\ en \subseteq st => en \subseteq Sessions
  OBVIOUS
<1>. QED  BY <1>1 DEF Tables, Content

LEMMA BecomeTables ==
  ASSUME NEW t \in Tables, TablesBecome(t)
  PROVE  Now' = t
<1>1. t = [last |-> t.last, stored |-> t.stored, ended |-> t.ended,
           counted |-> t.counted, rows |-> t.rows]
  BY DEF Tables, Content
<1>. QED  BY <1>1 DEF TablesBecome, Now

LEMMA InitTypeOK == Init => TypeOK
<1>. SUFFICES ASSUME Init PROVE TypeOK
  OBVIOUS
<1>1. Now \in Tables
  BY InTables, ConstantsAssumption DEF Init, Now
<1>. QED  BY <1>1 DEF Init, TypeOK

LEMMA StepTypeOK == TypeOK /\ [Next]_vars => TypeOK'
<1>. SUFFICES ASSUME TypeOK, [Next]_vars PROVE TypeOK'
  OBVIOUS
<1>. USE DEF TypeOK
<1>0. /\ last \in 0 .. MaxSessions /\ stored \subseteq Sessions /\ ended \subseteq stored
      /\ counted \subseteq Entries /\ counted \subseteq Calls \X stored /\ rows \subseteq Entries
  BY InTables DEF Now
<1>1. ASSUME StartSession PROVE TypeOK'
  <2>1. last' \in 0 .. MaxSessions /\ stored' \subseteq Sessions /\ stored \subseteq stored'
    BY <1>0, <1>1, ConstantsAssumption DEF StartSession, Sessions
  <2>2. Now' \in Tables
    BY <1>0, <1>1, <2>1, InTables DEF StartSession, Now
  <2>. QED  BY <1>1, <2>2 DEF StartSession, calls
<1>2. ASSUME NEW s \in Sessions, EndSession(s) PROVE TypeOK'
  <2>1. Now' \in Tables
    BY <1>0, <1>2, InTables DEF EndSession, Now
  <2>. QED  BY <1>2, <2>1 DEF EndSession, calls
<1>3. ASSUME Clear PROVE TypeOK'
  <2>1. Now' \in Tables
    BY <1>0, <1>3, InTables DEF Clear, Now
  <2>. QED  BY <1>3, <2>1 DEF Clear, calls, Active
<1>4. ASSUME CrashInClear PROVE TypeOK'
  <2>1. Now' \in Tables /\ torn' \subseteq Entries
    BY <1>0, <1>4, InTables DEF CrashInClear, Now
  <2>. QED  BY <1>4, <2>1 DEF CrashInClear, Active
<1>5. ASSUME TablesBecome(IF InTransaction THEN saved.was ELSE Now)
      PROVE  Now' \in Tables
  <2>1. InTransaction => saved.was \in Tables
    BY DEF InTransaction
  <2>2. (IF InTransaction THEN saved.was ELSE Now) \in Tables
    BY <2>1
  <2>. QED  BY <1>5, <2>2, BecomeTables
<1>6. ASSUME Crash PROVE TypeOK'
  BY <1>5, <1>6 DEF Crash
<1>7. ASSUME NEW c \in Calls, AddPass(c) PROVE TypeOK'
  <2>1. Now' = Now
    BY <1>7 DEF AddPass, Now
  <2>2. mixed' \subseteq Calls
    BY <1>7 DEF AddPass, Active
  <2>. QED  BY <1>7, <2>1, <2>2 DEF AddPass
<1>8. ASSUME NEW c \in Calls, BeginTransaction(c) PROVE TypeOK'
  <2>1. Now' = Now
    BY <1>8 DEF BeginTransaction, Now
  <2>2. saved' = saved \/ saved' \in [open : {TRUE}, was : Tables]
    <3>1. saved' = saved \/ saved' = [open |-> TRUE, was |-> Now]
      BY <1>8 DEF BeginTransaction
    <3>2. [open |-> TRUE, was |-> Now] \in [open : {TRUE}, was : Tables]
      OBVIOUS
    <3>. QED  BY <3>1, <3>2
  <2>3. pc' = [pc EXCEPT ![c] = "rollback"] \/ pc' = [pc EXCEPT ![c] = "update"]
    BY <1>8 DEF BeginTransaction
  <2>4. UNCHANGED <<target, torn, mixed>>
    BY <1>8 DEF BeginTransaction
  <2>. QED  BY <2>1, <2>2, <2>3, <2>4
<1>9. ASSUME NEW c \in Calls, UpdateSummary(c) PROVE TypeOK'
  <2>1. counted' \subseteq Entries /\ counted' \subseteq Calls \X stored
    BY <1>0, <1>9 DEF UpdateSummary, Entries
  <2>2. Now' \in Tables
    BY <1>0, <1>9, <2>1, InTables DEF UpdateSummary, Now
  <2>. QED  BY <1>9, <2>2 DEF UpdateSummary
<1>10. ASSUME NEW c \in Calls, InsertPass(c) PROVE TypeOK'
  <2>1. rows' \subseteq Entries
    BY <1>0, <1>10 DEF InsertPass, Entries
  <2>2. Now' \in Tables
    BY <1>0, <1>10, <2>1, InTables DEF InsertPass, Now
  <2>. QED  BY <1>10, <2>2 DEF InsertPass
<1>11. ASSUME NEW c \in Calls, Commit(c) PROVE TypeOK'
  <2>1. Now' = Now
    BY <1>11 DEF Commit, Now
  <2>. QED  BY <1>11, <2>1 DEF Commit
<1>12. ASSUME NEW c \in Calls, Rollback(c) PROVE TypeOK'
  BY <1>5, <1>12 DEF Rollback
<1>13. CASE UNCHANGED vars
  BY <1>13 DEF vars, calls, Now
<1>. QED
  BY <1>1, <1>2, <1>3, <1>4, <1>6, <1>7, <1>8, <1>9, <1>10, <1>11, <1>12, <1>13 DEF Next

\* Whatever the two-statement transactions, errors and crashes do to each
\* other, no summary and no end outlives its session (addPass, clear, ROLLBACK).
THEOREM TypeCorrect == Spec => []TypeOK
BY InitTypeOK, StepTypeOK, PTL DEF Spec

-----------------------------------------------------------------------------
(* Rows and summaries of the calls that met no other.                       *)

LEMMA InitInv == Init => Inv
<1>. SUFFICES ASSUME Init PROVE Inv
  OBVIOUS
<1>1. TypeOK
  BY InitTypeOK
<1>2. ASSUME NEW c \in Calls PROVE CallOK(c)
  BY DEF Init, CallOK, Active, Inside, InTransaction, Absent, Now
<1>. QED
  BY <1>1, <1>2 DEF Init, Inv, HolderOK, InTransaction

\* What a call that is not under way knows, when another call makes a step:
\* each table holds of it what some table held before.
LEMMA Bystander ==
  ASSUME NEW c \in Calls, CallOK(c), pc[c] \in {"none", "settled"}, pc'[c] = pc[c],
         target'[c] = target[c], torn' = torn,
         NEW t, NEW u,
         pc[c] = "none" => Absent(<<c, target[c]>>, t) /\ Absent(<<c, target[c]>>, u),
         pc[c] = "settled" => Agree(<<c, target[c]>>, t) /\ Agree(<<c, target[c]>>, u),
         Now' = t, InTransaction' => saved'.was = u
  PROVE  CallOK(c)'
<1>1. PICK a : a = <<c, target[c]>>
  OBVIOUS
<1>2. pc'[c] = "none" => Absent(a, Now)' /\ a \notin torn' /\ (InTransaction' => Absent(a, saved.was)')
  BY <1>1 DEF Absent, CallOK
<1>3. pc'[c] = "settled" => Agree(a, Now)' /\ (InTransaction' => Agree(a, saved.was)')
  BY <1>1 DEF Agree
<1>. QED
  BY <1>1, <1>2, <1>3 DEF CallOK, Active, Inside

LEMMA StepInv ==
  ASSUME Inv, [Next]_vars
  PROVE  Inv'
<1>. USE DEF Inv
<1>0. TypeOK /\ TypeOK'
  BY StepTypeOK
<1>. DEFINE was == IF InTransaction THEN saved.was ELSE Now
\* What a bystander finds in both tables.
<1>a. ASSUME NEW c \in Calls \ mixed, pc[c] \in {"none", "settled"}
      PROVE  /\ pc[c] = "none" => Absent(<<c, target[c]>>, Now) /\ Absent(<<c, target[c]>>, was)
             /\ pc[c] = "settled" => Agree(<<c, target[c]>>, Now) /\ Agree(<<c, target[c]>>, was)
  BY <1>a DEF CallOK
<1>b. InTransaction => saved.was = was
  OBVIOUS
<1>. HIDE DEF was
<1>1. ASSUME StartSession PROVE Inv'
  <2>1. UNCHANGED <<counted, rows, saved, pc, target, torn, mixed>> /\ stored \subseteq stored'
    BY <1>1 DEF StartSession, calls
  <2>2. ASSUME NEW c \in Calls \ mixed PROVE CallOK(c)'
    BY <2>1 DEF CallOK, Active, Inside, InTransaction, Absent, Agree, Now
  <2>. QED
    BY <1>0, <2>1, <2>2 DEF HolderOK, Inside, InTransaction
<1>2. ASSUME NEW s \in Sessions, EndSession(s) PROVE Inv'
  <2>1. UNCHANGED <<counted, rows, stored, saved, pc, target, torn, mixed>>
    BY <1>2 DEF EndSession, calls
  <2>2. ASSUME NEW c \in Calls \ mixed PROVE CallOK(c)'
    BY <2>1 DEF CallOK, Active, Inside, InTransaction, Absent, Agree, Now
  <2>. QED
    BY <1>0, <2>1, <2>2 DEF HolderOK, Inside, InTransaction
<1>3. ASSUME Clear PROVE Inv'
  <2>1. /\ UNCHANGED <<saved, pc, target, torn>> /\ mixed' = mixed \cup Active
        /\ counted' = {} /\ rows' = {}
    BY <1>3 DEF Clear, calls
  <2>2. ASSUME NEW c \in Calls \ mixed' PROVE CallOK(c)'
    <3>1. c \notin mixed /\ c \notin Active /\ pc[c] \in {"none", "settled"}
      BY <2>1, <2>2 DEF Active
    <3>2. Absent(<<c, target[c]>>, Now') /\ Agree(<<c, target[c]>>, Now')
      BY <2>1 DEF Absent, Agree, Now
    <3>3. InTransaction' => saved'.was = was
      BY <1>b, <2>1 DEF InTransaction
    <3>. QED
      BY <1>a, <2>1, <3>1, <3>2, <3>3, Bystander
  <2>. QED
    BY <1>0, <2>1, <2>2 DEF HolderOK, Inside, InTransaction
<1>4. ASSUME CrashInClear PROVE Inv'
  <2>1. /\ UNCHANGED <<counted, saved, stored, target>> /\ ~InTransaction
        /\ rows' = {} /\ torn' = torn \cup rows /\ mixed' = mixed \cup Active
        /\ pc' = [c \in Calls |-> IF pc[c] = "none" THEN "none" ELSE "settled"]
    BY <1>4 DEF CrashInClear
  <2>2. ASSUME NEW c \in Calls \ mixed' PROVE CallOK(c)'
    <3>1. c \notin mixed /\ pc[c] \in {"none", "settled"} /\ pc'[c] = pc[c]
      BY <2>1, <2>2 DEF Active
    <3>2. PICK a : a = <<c, target[c]>>
      OBVIOUS
    <3>3. /\ pc[c] = "none" => a \notin counted /\ a \notin rows /\ a \notin torn
          /\ pc[c] = "settled" => (a \in counted \ torn <=> a \in rows)
      BY <3>1, <3>2 DEF CallOK, Absent, Agree, Now
    <3>4. pc[c] = "none" => Absent(a, Now') /\ a \notin torn'
      BY <2>1, <3>3 DEF Absent, Now
    <3>5. pc[c] = "settled" => Agree(a, Now)'
      BY <2>1, <3>3 DEF Agree, Now
    <3>. QED
      BY <2>1, <3>1, <3>2, <3>4, <3>5 DEF CallOK, Active, Inside, InTransaction
  <2>. QED
    BY <1>0, <2>1, <2>2 DEF HolderOK, InTransaction
<1>5. ASSUME Crash PROVE Inv'
  <2>1. /\ UNCHANGED <<torn, target, mixed>> /\ saved' = NoTransaction /\ ~InTransaction'
        /\ pc' = [c \in Calls |-> IF pc[c] = "none" THEN "none" ELSE "settled"]
    BY <1>5 DEF Crash, InTransaction
  <2>2. Now' = was
    <3>1. was \in Tables
      BY <1>0 DEF TypeOK, InTransaction, was
    <3>. QED
      BY <1>5, <3>1, BecomeTables DEF Crash, was
  <2>3. ASSUME NEW c \in Calls \ mixed PROVE CallOK(c)'
    <3>1. PICK a : a = <<c, target[c]>>
      OBVIOUS
    <3>2. pc[c] = "none" => Absent(a, was) /\ a \notin torn
      BY <1>a, <3>1 DEF CallOK
    <3>3. pc[c] # "none" => Agree(a, was)
      <4>1. CASE pc[c] = "settled"
        BY <1>a, <3>1, <4>1
      <4>2. CASE pc[c] \notin {"none", "settled"} /\ InTransaction
        BY <1>b, <3>1, <4>2 DEF CallOK, Absent, Agree
      <4>3. CASE pc[c] \notin {"none", "settled"} /\ ~InTransaction
        <5>1. pc[c] = "begin" /\ was = Now
          BY <1>0, <4>3 DEF CallOK, Inside, TypeOK, was
        <5>. QED
          BY <3>1, <5>1 DEF CallOK, Absent, Agree
      <4>. QED
        BY <4>1, <4>2, <4>3
    <3>4. pc'[c] = (IF pc[c] = "none" THEN "none" ELSE "settled")
      BY <2>1
    <3>5. pc[c] = "none" => Absent(a, Now)'
      BY <2>2, <3>2 DEF Absent
    <3>6. pc[c] # "none" => Agree(a, Now)'
      BY <2>1, <2>2, <3>3 DEF Agree
    <3>. QED
      BY <2>1, <3>1, <3>2, <3>4, <3>5, <3>6 DEF CallOK, Active, Inside
  <2>. QED
    BY <1>0, <2>1, <2>3 DEF HolderOK
<1>6. ASSUME NEW d \in Calls, AddPass(d) PROVE Inv'
  <2>1. /\ UNCHANGED <<counted, rows, stored, saved, target, torn>> /\ Now' = Now
        /\ pc[d] = "none" /\ pc' = [pc EXCEPT ![d] = "begin"]
        /\ mixed \subseteq mixed' /\ (Active # {} => Active \subseteq mixed' /\ d \in mixed')
    BY <1>6 DEF AddPass, Now
  <2>2. ASSUME NEW c \in Calls \ mixed' PROVE CallOK(c)'
    <3>1. c \notin mixed /\ c \notin Active /\ pc[c] \in {"none", "settled"}
      BY <2>1, <2>2 DEF Active
    <3>2. InTransaction' = InTransaction
      BY <2>1 DEF InTransaction
    <3>3. CASE c # d
      <4>1. pc'[c] = pc[c]
        BY <1>0, <2>1, <3>3 DEF TypeOK
      <4>2. InTransaction' => saved'.was = was
        BY <1>b, <2>1, <3>2
      <4>. QED
        BY <1>a, <2>1, <3>1, <4>1, <4>2, Bystander
    <3>4. CASE c = d
      <4>1. Active = {}
        BY <2>1, <2>2, <3>4
      <4>2. Active' = {c}
        BY <1>0, <2>1, <3>4, <4>1 DEF TypeOK, Active
      <4>3. pc'[c] = "begin"
        BY <1>0, <2>1, <3>4 DEF TypeOK
      <4>4. /\ Absent(<<c, target[c]>>, Now) /\ <<c, target[c]>> \notin torn
            /\ InTransaction => Absent(<<c, target[c]>>, saved.was)
        BY <2>1, <3>1, <3>4 DEF CallOK
      <4>. QED
        BY <2>1, <3>2, <4>2, <4>3, <4>4 DEF CallOK, Inside, Absent
    <3>. QED
      BY <3>3, <3>4
  <2>3. HolderOK'
    BY <1>0, <2>1 DEF TypeOK, HolderOK, Inside, InTransaction
  <2>. QED
    BY <1>0, <2>2, <2>3
\* A call's step, for the calls that have not met it, begun or over.
<1>c. ASSUME NEW d \in Calls, d \in Active, NEW c \in Calls \ mixed, c # d
      PROVE  pc[c] \in {"none", "settled"}
  BY <1>c DEF CallOK, Active
<1>7. ASSUME NEW d \in Calls, BeginTransaction(d) PROVE Inv'
  <2>1. pc[d] = "begin" /\ UNCHANGED <<counted, rows, stored, target, torn, mixed>> /\ Now' = Now
    BY <1>7 DEF BeginTransaction, Now
  <2>2. \/ InTransaction /\ pc' = [pc EXCEPT ![d] = "rollback"] /\ saved' = saved
        \/ ~InTransaction /\ pc' = [pc EXCEPT ![d] = "update"] /\ saved' = [open |-> TRUE, was |-> Now]
    BY <1>7 DEF BeginTransaction
  <2>3. InTransaction' /\ saved'.was = was
    BY <1>b, <2>2 DEF InTransaction, NoTransaction, was
  <2>4. pc'[d] \in {"rollback", "update"} /\ \A c \in Calls : c # d => pc'[c] = pc[c]
    BY <1>0, <2>2 DEF TypeOK
  <2>5. ASSUME NEW c \in Calls \ mixed, c # d PROVE CallOK(c)'
    <3>1. pc[c] \in {"none", "settled"}
      BY <1>c, <2>1, <2>5 DEF Active
    <3>. QED
      BY <1>a, <2>1, <2>3, <2>4, <2>5, <3>1, Bystander
  <2>6. ASSUME d \notin mixed PROVE CallOK(d)'
    <3>1. d \in Active /\ CallOK(d)
      BY <2>1, <2>6 DEF Active
    <3>2. ~InTransaction
      BY <2>1, <3>1 DEF CallOK, HolderOK, Active, Inside
    <3>3. pc'[d] = "update" /\ was = Now
      BY <1>0, <2>2, <3>2 DEF TypeOK, was
    <3>4. \A c \in Active' : c = d
      BY <2>4, <3>1 DEF CallOK, Active
    <3>5. PICK a : a = <<d, target[d]>>
      OBVIOUS
    <3>6. Absent(a, Now) /\ a \notin torn
      BY <2>1, <3>1, <3>5 DEF CallOK
    <3>7. Absent(a, Now)' /\ Absent(a, saved.was)' /\ a \notin torn'
      BY <2>1, <2>3, <3>3, <3>6 DEF Absent
    <3>. QED
      BY <2>1, <2>3, <3>3, <3>4, <3>5, <3>7 DEF CallOK, Inside
  <2>. QED
    BY <1>0, <2>1, <2>4, <2>5, <2>6 DEF HolderOK, Inside
<1>8. ASSUME NEW d \in Calls, UpdateSummary(d) PROVE Inv'
  <2>1. pc[d] = "update" /\ UNCHANGED <<rows, stored, saved, target, torn, mixed>>
    BY <1>8 DEF UpdateSummary
  <2>2. PICK e : e = <<d, target[d]>>
    OBVIOUS
  <2>3. \/ pc' = [pc EXCEPT ![d] = "insert"] /\ target[d] \in stored /\ counted' = counted \cup {e}
        \/ pc' = [pc EXCEPT ![d] = "rollback"] /\ counted' = counted
    BY <1>8, <2>2 DEF UpdateSummary
  <2>4. pc'[d] \in {"insert", "rollback"} /\ \A c \in Calls : c # d => pc'[c] = pc[c]
    BY <1>0, <2>3 DEF TypeOK
  <2>5. InTransaction' = InTransaction
    BY <2>1 DEF InTransaction
  <2>6. ASSUME NEW c \in Calls \ mixed, c # d PROVE CallOK(c)'
    <3>1. pc[c] \in {"none", "settled"}
      BY <1>c, <2>1, <2>6 DEF Active
    <3>2. PICK a : a = <<c, target[c]>>
      OBVIOUS
    <3>3. a # e
      BY <2>2, <2>6, <3>2
    <3>4. a \in counted' <=> a \in counted
      BY <2>3, <3>3
    <3>5. (Absent(a, Now) => Absent(a, Now')) /\ (Agree(a, Now) => Agree(a, Now'))
      BY <2>1, <3>4 DEF Absent, Agree, Now
    <3>6. InTransaction' => saved'.was = was
      BY <1>b, <2>1, <2>5
    <3>. QED
      BY <1>a, <2>1, <2>4, <2>6, <3>1, <3>2, <3>5, <3>6, Bystander
  <2>7. ASSUME d \notin mixed PROVE CallOK(d)'
    <3>1. d \in Active /\ CallOK(d)
      BY <2>1, <2>7 DEF Active
    <3>2. InTransaction /\ e \notin torn /\ Absent(e, saved.was) /\ e \notin rows
      BY <2>1, <2>2, <3>1 DEF CallOK, Inside, Absent, Now
    <3>3. \A c \in Active' : c = d
      BY <2>4, <3>1 DEF CallOK, Active
    <3>4. pc'[d] = "insert" => e \in counted' /\ target[d] \in stored
      BY <1>0, <2>3 DEF TypeOK
    <3>5. Absent(e, saved.was)'
      BY <2>1, <3>2 DEF Absent
    <3>. QED
      BY <2>1, <2>2, <2>4, <2>5, <3>2, <3>3, <3>4, <3>5 DEF CallOK, Inside
  <2>. QED
    BY <1>0, <2>1, <2>4, <2>6, <2>7 DEF HolderOK, Inside
<1>9. ASSUME NEW d \in Calls, InsertPass(d) PROVE Inv'
  <2>1. pc[d] = "insert" /\ UNCHANGED <<counted, stored, saved, target, torn, mixed>>
    BY <1>9 DEF InsertPass
  <2>2. PICK e : e = <<d, target[d]>>
    OBVIOUS
  <2>3. \/ pc' = [pc EXCEPT ![d] = "commit"] /\ rows' = rows \cup {e}
        \/ pc' = [pc EXCEPT ![d] = "rollback"] /\ rows' = rows
    BY <1>9, <2>2 DEF InsertPass
  <2>4. pc'[d] \in {"commit", "rollback"} /\ \A c \in Calls : c # d => pc'[c] = pc[c]
    BY <1>0, <2>3 DEF TypeOK
  <2>5. InTransaction' = InTransaction
    BY <2>1 DEF InTransaction
  <2>6. ASSUME NEW c \in Calls \ mixed, c # d PROVE CallOK(c)'
    <3>1. pc[c] \in {"none", "settled"}
      BY <1>c, <2>1, <2>6 DEF Active
    <3>2. PICK a : a = <<c, target[c]>>
      OBVIOUS
    <3>3. a # e
      BY <2>2, <2>6, <3>2
    <3>4. a \in rows' <=> a \in rows
      BY <2>3, <3>3
    <3>5. (Absent(a, Now) => Absent(a, Now')) /\ (Agree(a, Now) => Agree(a, Now'))
      BY <2>1, <3>4 DEF Absent, Agree, Now
    <3>6. InTransaction' => saved'.was = was
      BY <1>b, <2>1, <2>5
    <3>. QED
      BY <1>a, <2>1, <2>4, <2>6, <3>1, <3>2, <3>5, <3>6, Bystander
  <2>7. ASSUME d \notin mixed PROVE CallOK(d)'
    <3>1. d \in Active /\ CallOK(d)
      BY <2>1, <2>7 DEF Active
    <3>2. /\ InTransaction /\ e \notin torn /\ Absent(e, saved.was)
          /\ e \in counted /\ target[d] \in stored
      BY <2>1, <2>2, <3>1 DEF CallOK, Inside
    <3>3. \A c \in Active' : c = d
      BY <2>4, <3>1 DEF CallOK, Active
    <3>4. pc'[d] = "commit" => e \in rows'
      BY <1>0, <2>3 DEF TypeOK
    <3>5. Absent(e, saved.was)'
      BY <2>1, <3>2 DEF Absent
    <3>. QED
      BY <2>1, <2>2, <2>4, <2>5, <3>2, <3>3, <3>4, <3>5 DEF CallOK, Inside
  <2>. QED
    BY <1>0, <2>1, <2>4, <2>6, <2>7 DEF HolderOK, Inside
\* The two ways out: no transaction is left, and no trace but an agreeing one.
<1>d. ASSUME NEW d \in Calls, d \in Active, UNCHANGED <<target, torn, mixed>>, ~InTransaction',
             pc'[d] \in {"settled", "rollback"}, pc' = [pc EXCEPT ![d] = pc'[d]],
             NEW t, Now' = t, t = Now \/ t = was,
             d \notin mixed => pc'[d] = "settled" /\ Agree(<<d, target[d]>>, t)
      PROVE  Inv'
  <2>1. \A c \in Calls : c # d => pc'[c] = pc[c]
    BY <1>0, <1>d DEF TypeOK
  <2>2. ASSUME NEW c \in Calls \ mixed, c # d PROVE CallOK(c)'
    <3>1. pc[c] \in {"none", "settled"}
      BY <1>c, <1>d, <2>2
    <3>2. /\ pc[c] = "none" => Absent(<<c, target[c]>>, t)
          /\ pc[c] = "settled" => Agree(<<c, target[c]>>, t)
      BY <1>a, <1>d, <2>2, <3>1
    <3>. QED
      BY <1>d, <2>1, <2>2, <3>1, <3>2, Bystander
  <2>3. ASSUME d \notin mixed PROVE CallOK(d)'
    <3>1. Agree(<<d, target[d]>>, Now)'
      BY <1>d, <2>3 DEF Agree
    <3>. QED
      BY <1>d, <2>3, <3>1 DEF CallOK, Active, Inside
  <2>. QED
    BY <1>0, <1>d, <2>2, <2>3 DEF HolderOK
<1>10. ASSUME NEW d \in Calls, Commit(d) PROVE Inv'
  <2>1. /\ pc[d] = "commit" /\ UNCHANGED <<counted, rows, stored, target, torn, mixed>>
        /\ Now' = Now /\ ~InTransaction'
        /\ pc' = [pc EXCEPT ![d] = IF InTransaction THEN "settled" ELSE "rollback"]
    BY <1>10 DEF Commit, Now, InTransaction
  <2>2. pc'[d] = (IF InTransaction THEN "settled" ELSE "rollback")
    BY <1>0, <2>1 DEF TypeOK
  <2>3. d \in Active
    BY <2>1 DEF Active
  <2>4. ASSUME d \notin mixed PROVE pc'[d] = "settled" /\ Agree(<<d, target[d]>>, Now)
    <3>1. CallOK(d)
      BY <2>4
    <3>. QED
      BY <2>1, <2>2, <3>1 DEF CallOK, Inside, Agree, Now
  <2>5. pc' = [pc EXCEPT ![d] = pc'[d]] /\ pc'[d] \in {"settled", "rollback"}
    BY <2>1, <2>2
  <2>. QED
    BY <1>d, <2>1, <2>3, <2>4, <2>5
<1>11. ASSUME NEW d \in Calls, Rollback(d) PROVE Inv'
  <2>1. /\ pc[d] = "rollback" /\ UNCHANGED <<target, torn, mixed>> /\ ~InTransaction'
        /\ pc' = [pc EXCEPT ![d] = "settled"]
    BY <1>11 DEF Rollback, InTransaction
  <2>2. Now' = was
    <3>1. was \in Tables
      BY <1>0 DEF TypeOK, InTransaction, was
    <3>2. TablesBecome(was)
      BY <1>11 DEF Rollback, was
    <3>. QED
      BY <3>1, <3>2, BecomeTables
  <2>3. d \in Active /\ pc'[d] = "settled"
    BY <1>0, <2>1 DEF TypeOK, Active
  <2>4. ASSUME d \notin mixed PROVE Agree(<<d, target[d]>>, was)
    <3>1. CallOK(d)
      BY <2>4
    <3>2. InTransaction /\ Absent(<<d, target[d]>>, saved.was)
      BY <2>1, <3>1 DEF CallOK, Inside
    <3>. QED
      BY <1>b, <3>2 DEF Absent, Agree
  <2>. QED
    BY <1>d, <2>1, <2>2, <2>3, <2>4
<1>12. CASE UNCHANGED vars
  <2>1. UNCHANGED <<stored, counted, rows, saved, pc, target, torn, mixed>>
    BY <1>12 DEF vars, calls
  <2>2. ASSUME NEW c \in Calls \ mixed PROVE CallOK(c)'
    BY <2>1 DEF CallOK, Active, Inside, InTransaction, Absent, Agree, Now
  <2>. QED
    BY <1>0, <2>1, <2>2 DEF HolderOK, Inside, InTransaction
<1>. QED
  BY <1>1, <1>2, <1>3, <1>4, <1>5, <1>6, <1>7, <1>8, <1>9, <1>10, <1>11, <1>12 DEF Next

\* Between transactions a call that met no other has not begun, or is over.
LEMMA InvAgrees == Inv => DriftNeedsOverlap
<1>. SUFFICES ASSUME Inv, NEW c \in Calls \ mixed
              PROVE  /\ <<c, target[c]>> \in Committed.counted \ torn <=> <<c, target[c]>> \in Committed.rows
                     /\ <<c, target[c]>> \in Committed.rows => target[c] \in Committed.stored
  BY DEF DriftNeedsOverlap
<1>1. CallOK(c) /\ TypeOK
  BY DEF Inv
<1>2. Absent(<<c, target[c]>>, Committed) \/ Agree(<<c, target[c]>>, Committed)
  <2>1. CASE InTransaction
    BY <1>1, <2>1 DEF CallOK, Committed
  <2>2. CASE ~InTransaction
    <3>1. pc[c] \in {"none", "begin", "settled"} /\ Committed = Now
      BY <1>1, <2>2 DEF CallOK, Inside, TypeOK, Committed
    <3>. QED
      BY <1>1, <3>1 DEF CallOK
  <2>. QED
    BY <2>1, <2>2
<1>. QED
  BY <1>2 DEF Absent, Agree

\* For any number of passes and sessions, whatever fails or ends in between, and
\* however other calls overlap and roll each other back: a call of addPass that
\* met neither another one nor a clear leaves in what is committed its pass
\* counted and listed, in a stored session, or neither of the two.
THEOREM TransactionKeepsSummary == Spec => []DriftNeedsOverlap
<1>1. Inv /\ [Next]_vars => Inv'
  BY StepInv
<1>. QED  BY <1>1, InitInv, InvAgrees, PTL DEF Spec

-----------------------------------------------------------------------------
(* The picker.                                                              *)

Typed ==
  /\ links \in [Id!Uids -> Id!Keys \cup {None}]
  /\ identifications \in [Id!Keys -> Id!Cars \cup {None}]
  /\ seed \in [Id!Keys -> Id!Cars \cup {None}]
  /\ picker \in Id!Pickers \cup {None}

OwnKeys ==
  \A u \in Id!Uids :
    /\ links[u] \in {None, u, CastingOf[u]}
    /\ links[u] = None => identifications[u] = None
    /\ seed[u] = None

\* What the tags would show if the user's picks were `ids`.
ShownWith(ids) ==
  [u \in Id!Uids |-> IF links[u] = None THEN None
                  ELSE IF ids[links[u]] # None THEN ids[links[u]] ELSE seed[links[u]]]

UndoOK ==
  before # None =>
    /\ picker # None /\ picker.undo # None
    /\ before = ShownWith(Id!Undone(picker.undo))

\* What can be undone is of a tag that is linked.
UndoNames ==
  picker # None /\ picker.undo # None =>
    \A u \in Id!Uids : links[u] = None => picker.undo.key # u

IInv == Typed /\ Id!PickIsOffered /\ OwnKeys /\ UndoOK /\ UndoNames

-----------------------------------------------------------------------------
LEMMA KeyFacts ==
  ASSUME Id!CatalogueFits
  PROVE  /\ Id!Uids \subseteq Id!Keys /\ Castings \subseteq Id!Keys
         /\ \A u \in Id!Uids : u # None /\ CastingOf[u] \in Castings /\ CastingOf[u] # None
         /\ \A u \in Id!Uids : u \notin Castings
         /\ NoQuery \in Queries
  BY DEF Id!CatalogueFits, Id!Keys, Id!Uids

LEMMA Waving == ASSUME NEW y PROVE Id!AvailableWaves(y) \subseteq Id!Waves
  BY DEF Id!AvailableWaves, Id!Waves

\* The picker may change as long as what it can undo is the same.
LEMMA UndoKept ==
  ASSUME UndoOK, UNCHANGED <<links, identifications, seed, before>>,
         picker' # None, picker'.undo = picker.undo
  PROVE  UndoOK'
  <1>1. ShownWith(Id!Undone(picker.undo))' = ShownWith(Id!Undone(picker.undo))
    BY DEF ShownWith, Id!Undone
  <1> QED
    BY <1>1 DEF UndoOK

LEMMA Initially == ASSUME Id!CatalogueFits, Id!Init PROVE IInv
  BY KeyFacts DEF Id!Init, IInv, Typed, Id!PickIsOffered, OwnKeys, UndoOK, UndoNames

LEMMA Filtering ==
  ASSUME Id!CatalogueFits, IInv, NEW p \in Id!Pickers, Id!Filter(p), p.undo = picker.undo,
         p.wave # None => p.wave \in Id!AvailableWaves(p.year)
  PROVE  IInv'
  <1>0. picker' = [p EXCEPT !.candidate = None] /\ picker # None
    BY DEF Id!Filter
  <1>1. picker' \in Id!Pickers /\ picker'.undo = p.undo /\ picker'.candidate = None
        /\ picker'.wave = p.wave /\ picker'.year = p.year /\ picker' # None
    BY <1>0 DEF Id!Pickers, Id!CatalogueFits
  <1>2. Typed'
    BY <1>1 DEF IInv, Typed, Id!Filter
  <1>3. Id!PickIsOffered'
    BY <1>1 DEF Id!PickIsOffered, Id!AvailableWaves
  <1>4. OwnKeys'
    BY DEF IInv, OwnKeys, Id!Filter
  <1>5. UndoOK'
    BY <1>1, UndoKept DEF IInv, Id!Filter
  <1>6. UndoNames'
    BY <1>0, <1>1 DEF IInv, UndoNames, Id!Filter
  <1> QED
    BY <1>2, <1>3, <1>4, <1>5, <1>6 DEF IInv

\* Choosing a car keeps the results it is among.
LEMMA Choosing ==
  ASSUME Id!CatalogueFits, IInv, picker # None, NEW c \in Id!Results(picker), Id!Choose(c)
  PROVE  IInv'
  <1>0. picker \in Id!Pickers /\ c \in Id!Cars /\ picker' = [picker EXCEPT !.candidate = c]
    BY DEF IInv, Typed, Id!Results, Id!Choose
  <1>1. /\ picker' \in Id!Pickers /\ picker' # None /\ picker'.undo = picker.undo
        /\ picker'.candidate = c /\ picker'.wave = picker.wave /\ picker'.year = picker.year
        /\ picker'.mode = picker.mode /\ picker'.query = picker.query
    BY <1>0 DEF Id!Pickers, Id!CatalogueFits
  <1>2. Typed'
    BY <1>1 DEF IInv, Typed, Id!Choose
  <1>3. Id!Results(picker') = Id!Results(picker)
    BY <1>1 DEF Id!Results, Id!Rank
  <1>4. Id!PickIsOffered'
    <2>1. Id!Results(picker)' = Id!Results(picker')
      BY DEF Id!Results, Id!Rank
    <2> QED
      BY <1>1, <1>3, <2>1 DEF IInv, Id!PickIsOffered, Id!AvailableWaves
  <1>5. OwnKeys'
    BY DEF IInv, OwnKeys, Id!Choose
  <1>6. UndoOK'
    BY <1>1, UndoKept DEF IInv, Id!Choose
  <1>7. UndoNames'
    BY <1>1 DEF IInv, UndoNames, Id!Choose
  <1> QED
    BY <1>2, <1>4, <1>5, <1>6, <1>7 DEF IInv

\* A pick: what it replaces is put back by Undone.
LEMMA Picking ==
  ASSUME Id!CatalogueFits, IInv, Id!Confirm
  PROVE  IInv'
  <1> DEFINE u   == picker.uid
             key == IF links[u] = None THEN u ELSE links[u]
             new == [key |-> key, previous |-> identifications[key], car |-> picker.candidate]
  <1>0. /\ picker # None /\ picker.candidate # None
        /\ links' = [links EXCEPT ![u] = key]
        /\ identifications' = [identifications EXCEPT ![key] = picker.candidate]
        /\ picker' = [picker EXCEPT !.candidate = None, !.undo = new]
        /\ before' = Id!Shown /\ seed' = seed
    BY DEF Id!Confirm
  <1>1. picker \in Id!Pickers /\ u \in Id!Uids /\ picker.candidate \in Id!Cars
    BY <1>0 DEF IInv, Typed, Id!Pickers
  <1>2. key \in Id!Keys /\ key # None /\ links[u] \in {None, key} /\ key \in {u, CastingOf[u]}
    BY <1>1, KeyFacts DEF IInv, Typed, OwnKeys
  <1>3. new \in Id!Undos /\ new # None
    BY <1>1, <1>2 DEF IInv, Typed, Id!Undos, Id!CatalogueFits
  <1> HIDE DEF new, key
  <1>4. /\ picker' \in Id!Pickers /\ picker' # None /\ picker'.undo = new /\ picker'.candidate = None
        /\ picker'.wave = picker.wave /\ picker'.year = picker.year
    BY <1>0, <1>1, <1>3 DEF Id!Pickers, Id!CatalogueFits
  <1>5. Typed'
    BY <1>0, <1>1, <1>2, <1>4 DEF IInv, Typed
  <1>6. Id!PickIsOffered'
    BY <1>0, <1>4 DEF IInv, Id!PickIsOffered, Id!AvailableWaves
  <1>7. OwnKeys'
    <2> SUFFICES ASSUME NEW v \in Id!Uids
                 PROVE  /\ links'[v] \in {None, v, CastingOf[v]}
                        /\ links'[v] = None => identifications'[v] = None
                        /\ seed'[v] = None
      BY DEF OwnKeys
    <2>1. links'[v] = IF v = u THEN key ELSE links[v]
      BY <1>0, <1>1 DEF IInv, Typed
    <2>2. v # u => v # key
      BY <1>1, <1>2, KeyFacts
    <2>3. v \in Id!Keys
      BY KeyFacts
    <2>4. v # u => identifications'[v] = identifications[v]
      BY <1>0, <2>2, <2>3 DEF IInv, Typed
    <2> QED
      BY <1>0, <1>2, <2>1, <2>4 DEF IInv, OwnKeys
  <1>8. ShownWith(Id!Undone(picker.undo))' = Id!Shown
    <2>1. Id!Undone(picker.undo)' = [identifications' EXCEPT ![key] = identifications[key]]
      BY <1>4 DEF Id!Undone, new
    <2>2. Id!Undone(picker.undo)' = identifications
      BY <1>0, <1>2, <2>1 DEF IInv, Typed
    <2>3. ShownWith(Id!Undone(picker.undo))' =
            [v \in Id!Uids |-> IF links'[v] = None THEN None
                            ELSE IF identifications[links'[v]] # None THEN identifications[links'[v]]
                            ELSE seed'[links'[v]]]
      BY <2>2 DEF ShownWith
    <2>4. ASSUME NEW v \in Id!Uids
          PROVE  (IF links'[v] = None THEN None
                  ELSE IF identifications[links'[v]] # None THEN identifications[links'[v]]
                  ELSE seed'[links'[v]]) = Id!CatalogIdFor(v)
      <3>1. links'[v] = IF v = u THEN key ELSE links[v]
        BY <1>0, <1>1 DEF IInv, Typed
      <3>2. CASE v = u /\ links[u] = None
        BY <1>0, <1>1, <1>2, <3>1, <3>2, KeyFacts DEF IInv, OwnKeys, Id!CatalogIdFor, key
      <3>3. CASE v # u \/ links[u] # None
        BY <1>0, <1>2, <3>1, <3>3 DEF Id!CatalogIdFor
      <3> QED
        BY <3>2, <3>3
    <2> QED
      BY <2>3, <2>4 DEF Id!Shown
  <1>9. UndoOK'
    BY <1>0, <1>3, <1>4, <1>8 DEF UndoOK
  <1>10. UndoNames'
    <2>1. ASSUME NEW v \in Id!Uids, links'[v] = None PROVE key # v
      <3>1. links'[v] = IF v = u THEN key ELSE links[v]
        BY <1>0, <1>1 DEF IInv, Typed
      <3> QED
        BY <1>1, <1>2, <2>1, <3>1, KeyFacts
    <2> QED
      BY <1>4, <2>1 DEF UndoNames, new
  <1> QED
    BY <1>5, <1>6, <1>7, <1>9, <1>10 DEF IInv

LEMMA Undoing ==
  ASSUME Id!CatalogueFits, IInv, Id!UndoPick
  PROVE  IInv'
  <1>0. /\ picker \in Id!Pickers /\ picker # None /\ picker.candidate = None
        /\ picker.undo \in Id!Undos
        /\ identifications' = [identifications EXCEPT ![picker.undo.key] = picker.undo.previous]
        /\ picker' = [picker EXCEPT !.undo = None]
        /\ before' = None /\ links' = links /\ seed' = seed
    BY DEF Id!UndoPick, Id!Undone, IInv, Typed, Id!Pickers
  <1>1. /\ picker' \in Id!Pickers /\ picker'.candidate = None
        /\ picker'.wave = picker.wave /\ picker'.year = picker.year
    BY <1>0 DEF Id!Pickers
  <1>2. Typed'
    BY <1>0, <1>1 DEF IInv, Typed, Id!Undos
  <1>3. Id!PickIsOffered'
    BY <1>0, <1>1 DEF IInv, Id!PickIsOffered, Id!AvailableWaves
  <1>4. UndoOK'
    BY <1>0 DEF UndoOK
  <1>5. OwnKeys'
    <2>1. ASSUME NEW v \in Id!Uids, links[v] = None PROVE identifications'[v] = None
      <3>1. v \in Id!Keys /\ picker.undo.key # v
        BY <1>0, <2>1, KeyFacts DEF IInv, UndoNames, Id!Undos, Id!CatalogueFits
      <3> QED
        BY <1>0, <2>1, <3>1 DEF IInv, Typed, OwnKeys
    <2> QED
      BY <1>0, <2>1 DEF IInv, OwnKeys
  <1>6. UndoNames'
    BY <1>0 DEF UndoNames, Id!Pickers
  <1> QED
    BY <1>2, <1>3, <1>4, <1>5, <1>6 DEF IInv

-----------------------------------------------------------------------------
\* The actions that do not come from the picker.
LEMMA Elsewhere ==
  ASSUME Id!CatalogueFits, IInv
  PROVE  /\ Id!LoadSeed => IInv'
         /\ \A u \in Id!Uids : Id!LinkCar(u) => IInv'
         /\ \A u \in Id!Uids : Id!Open(u) => IInv'
         /\ Id!Close => IInv'
         /\ UNCHANGED pickerVars => IInv'
  <1>1. ASSUME Id!LoadSeed PROVE IInv'
    <2>1. Typed' /\ OwnKeys'
      <3>1. seed' \in [Id!Keys -> Id!Cars \cup {None}] /\ \A u \in Id!Uids : seed'[u] = None
        BY <1>1, KeyFacts DEF Id!LoadSeed, Id!Sanitised
      <3> QED
        BY <1>1, <3>1 DEF Id!LoadSeed, IInv, Typed, OwnKeys
    <2> QED
      BY <1>1, <2>1 DEF Id!LoadSeed, IInv, Id!PickIsOffered, Id!Results, Id!Rank, Id!AvailableWaves, UndoOK, UndoNames
  <1>2. ASSUME NEW u \in Id!Uids, Id!LinkCar(u) PROVE IInv'
    <2>1. links' \in [Id!Uids -> Id!Keys \cup {None}] /\ \A v \in Id!Uids : links'[v] = IF v = u THEN CastingOf[u] ELSE links[v]
      BY <1>2, KeyFacts DEF Id!LinkCar, IInv, Typed
    <2>2. Typed' /\ OwnKeys' /\ UndoNames'
      BY <1>2, <2>1, KeyFacts DEF Id!LinkCar, IInv, Typed, OwnKeys, UndoNames
    <2> QED
      BY <1>2, <2>2 DEF Id!LinkCar, IInv, Id!PickIsOffered, Id!Results, Id!Rank, Id!AvailableWaves, UndoOK
  <1>3. ASSUME NEW u \in Id!Uids, Id!Open(u) PROVE IInv'
    <2>1. picker' \in Id!Pickers /\ picker'.candidate = None /\ picker'.wave = None /\ picker'.undo = None
      BY <1>3, KeyFacts DEF Id!Open, Id!Pickers
    <2> QED
      BY <1>3, <2>1 DEF Id!Open, IInv, Typed, OwnKeys, Id!PickIsOffered, UndoOK, UndoNames
  <1>4. ASSUME Id!Close PROVE IInv'
    BY <1>4 DEF Id!Close, IInv, Typed, OwnKeys, Id!PickIsOffered, UndoOK, UndoNames
  <1>5. ASSUME UNCHANGED pickerVars PROVE IInv'
    <2>1. Typed' /\ OwnKeys' /\ UndoNames'
      BY <1>5 DEF pickerVars, IInv, Typed, OwnKeys, UndoNames
    <2>2. Id!PickIsOffered'
      BY <1>5 DEF pickerVars, IInv, Id!PickIsOffered, Id!Results, Id!Rank, Id!AvailableWaves
    <2>3. UndoOK'
      <3>1. picker # None => UndoOK'
        BY <1>5, UndoKept DEF pickerVars, IInv
      <3> QED
        BY <1>5, <3>1 DEF pickerVars, IInv, UndoOK
    <2> QED
      BY <2>1, <2>2, <2>3 DEF IInv
  <1> QED
    BY <1>1, <1>2, <1>3, <1>4, <1>5

LEMMA Preserved == ASSUME Id!CatalogueFits, IInv, [Id!Next]_pickerVars PROVE IInv'
  <1>1. CASE Id!LoadSeed \/ Id!Close \/ UNCHANGED pickerVars \/ \E u \in Id!Uids : Id!LinkCar(u) \/ Id!Open(u)
    BY <1>1, Elsewhere
  <1>2. CASE Id!Confirm
    BY <1>2, Picking
  <1>3. CASE Id!UndoPick
    BY <1>3, Undoing
  <1>4. ASSUME picker # None, NEW m \in {"catalog", "toyNumber"}, Id!ChooseMode(m) PROVE IInv'
    <2> DEFINE p == IF m = "toyNumber"
                    THEN [picker EXCEPT !.mode = m, !.query = NoQuery, !.year = None, !.wave = None]
                    ELSE [picker EXCEPT !.mode = m, !.query = NoQuery]
    <2>1. picker \in Id!Pickers
      BY <1>4 DEF IInv, Typed
    <2>2. p \in Id!Pickers /\ p.undo = picker.undo /\ (p.wave # None => p.wave = picker.wave /\ p.year = picker.year)
      BY <2>1, KeyFacts DEF Id!Pickers
    <2>3. p.wave # None => p.wave \in Id!AvailableWaves(p.year)
      BY <1>4, <2>2 DEF IInv, Id!PickIsOffered
    <2>4. Id!Filter(p)
      BY <1>4 DEF Id!ChooseMode
    <2> HIDE DEF p
    <2> QED
      BY <2>2, <2>3, <2>4, Filtering
  <1>5. ASSUME picker # None, NEW q \in Queries, Id!Type(q) PROVE IInv'
    <2> DEFINE p == [picker EXCEPT !.query = q]
    <2>1. picker \in Id!Pickers
      BY <1>5 DEF IInv, Typed
    <2>2. p \in Id!Pickers /\ p.undo = picker.undo /\ p.wave = picker.wave /\ p.year = picker.year
      BY <2>1 DEF Id!Pickers
    <2>3. p.wave # None => p.wave \in Id!AvailableWaves(p.year)
      BY <1>5, <2>2 DEF IInv, Id!PickIsOffered
    <2>4. Id!Filter(p)
      BY <1>5 DEF Id!Type
    <2> HIDE DEF p
    <2> QED
      BY <2>2, <2>3, <2>4, Filtering
  <1>6. ASSUME picker # None, NEW y \in Id!Years \cup {None}, Id!PickYear(y) PROVE IInv'
    <2> DEFINE p == [picker EXCEPT !.year = y, !.wave = None]
    <2>1. picker \in Id!Pickers
      BY <1>6 DEF IInv, Typed
    <2>2. p \in Id!Pickers /\ p.undo = picker.undo /\ p.wave = None
      BY <2>1 DEF Id!Pickers
    <2>3. Id!Filter(p)
      BY <1>6 DEF Id!PickYear
    <2> HIDE DEF p
    <2> QED
      BY <2>2, <2>3, Filtering
  <1>7. ASSUME picker # None, NEW w \in Id!AvailableWaves(picker.year) \cup {None}, Id!PickWave(w) PROVE IInv'
    <2> DEFINE p == [picker EXCEPT !.wave = w]
    <2>1. picker \in Id!Pickers /\ w \in Id!Waves \cup {None}
      BY <1>7, Waving DEF IInv, Typed
    <2>2. p \in Id!Pickers /\ p.undo = picker.undo /\ p.wave = w /\ p.year = picker.year
      BY <2>1 DEF Id!Pickers
    <2>3. Id!Filter(p)
      BY <1>7 DEF Id!PickWave
    <2> HIDE DEF p
    <2> QED
      BY <1>7, <2>2, <2>3, Filtering
  <1>8. ASSUME picker # None, NEW c \in Id!Results(picker), Id!Choose(c) PROVE IInv'
    BY <1>8, Choosing
  <1>9. ASSUME picker # None, Id!Cancel PROVE IInv'
    <2>1. picker \in Id!Pickers /\ Id!Filter(picker)
      BY <1>9 DEF IInv, Typed, Id!Cancel
    <2> QED
      BY <1>9, <2>1, Filtering DEF IInv, Id!PickIsOffered
  <1> QED
    BY <1>1, <1>2, <1>3, <1>4, <1>5, <1>6, <1>7, <1>8, <1>9 DEF Id!Next

-----------------------------------------------------------------------------
(* The history: the queue of statements, and what each of them will find.   *)

Statement ==
  [op : History!Recording \cup {"list", "header", "passes", "spark", "clear"},
   id : Nat, n : Nat, visit : Nat]

\* A read of a detail is of an earlier visit, or of the session in front.
Fits(s, f, v) ==
  /\ s \in Statement
  /\ s.op \in History!Recording \cup {"header", "passes", "spark"} => s.id \in History!Ids
  /\ s.op \in {"header", "passes"} => s.visit <= v /\ (s.visit = v => s.id = f)

Recording(s) == s.op \in History!Recording

\* The two reads of a detail are served one after the other.
InPairs(q) ==
  \A i \in DOMAIN q :
    /\ q[i].op = "header" => /\ i + 1 \in DOMAIN q /\ q[i + 1].op = "passes"
                             /\ q[i + 1].id = q[i].id /\ q[i + 1].visit = q[i].visit
    /\ q[i].op = "passes" /\ i # 1 => q[i - 1].op = "header"

InOrder(q, f, v) ==
  /\ q \in Seq(Statement)
  /\ \A i \in DOMAIN q : Fits(q[i], f, v)
  /\ InPairs(q)

\* The first answer waits for the read that is served next, and tells what that
\* read will find.
HalfRead(q, t, h, v) ==
  h # None =>
    /\ q # <<>> /\ q[1].op = "passes" /\ q[1].visit = v
    /\ h.asOf # None => h.count \in Nat \cup {None}
                        /\ h.asOf = [count |-> h.count, rows |-> t[q[1].id].rows]

\* What is in the tables: no session but those made, and none that was cleared.
DB(t, m, c) ==
  /\ t \in [History!Ids -> [count : Nat \cup {None}, rows : Nat]]
  /\ m \in 0 .. MaxSessions /\ c \subseteq 1 .. m
  /\ \A k \in History!Ids : k > m \/ k \in c => t[k].count = None

HeldOK ==
  held # None => DB(held.table, held.made, held.cleared) /\ held.cleared \subseteq cleared

Entry  == [count : Nat \cup {None}, rows : Nat \cup {None}]
Detail == [id : History!Ids, count : Nat \cup {None}, passes : Nat \cup {None},
           asOf : Entry, whole : BOOLEAN]

Shown ==
  half # None \/ detail # None =>
    /\ detail \in Detail /\ focus \in {detail.id, History!Away}
    /\ IF detail.whole THEN detail.asOf = [count |-> detail.count, rows |-> detail.passes]
                       ELSE detail.passes = 0

\* What holds whatever happens to the recording.
Always ==
  /\ focus \in History!Screens /\ visit \in Nat /\ current \in 0 .. MaxSessions
  /\ DB(table, made, cleared) /\ HeldOK
  /\ InOrder(statements, focus, visit)
  /\ HalfRead(statements, table, half, visit)
  /\ Shown /\ History!ClearedIsGone

\* The pass counted for session k, whose row is still to be inserted.
Behind(q, k) == \E i \in DOMAIN q : q[i].op = "row" /\ q[i].id = k

Counted(q, t) ==
  \A k \in History!Ids : t[k].count # None =>
    t[k].count = t[k].rows + (IF Behind(q, k) THEN 1 ELSE 0)

\* A line asked for will be drawn from all its passes: the row of the last one
\* is inserted before.
Lines(q, t) ==
  \A i \in DOMAIN q : q[i].op = "spark" /\ t[q[i].id].count # None =>
    \/ t[q[i].id].rows >= q[i].n
    \/ /\ t[q[i].id].rows + 1 = q[i].n
       /\ \E j \in DOMAIN q : j < i /\ q[j].op = "row" /\ q[j].id = q[i].id

Begun(q, m) == \A i \in DOMAIN q : Recording(q[i]) \/ q[i].op = "spark" => q[i].id \in 1 .. m

\* One pass at a time, counted before its row.
Clean(q, t, m) ==
  /\ \A i, j \in DOMAIN q : Recording(q[i]) /\ Recording(q[j]) => i = j
  /\ Begun(q, m) /\ Counted(q, t) /\ Lines(q, t)

Drawn(c, t, m) ==
  /\ c \in Seq([id : Nat, count : Nat, rows : Nat])
  /\ \A i \in DOMAIN c : c[i].id \in 1 .. m /\ (t[c[i].id].count # None => c[i].rows >= c[i].count)

HalfCount(q, t, h) == h # None /\ h.count # None => t[q[1].id].count = h.count

CountOK ==
  detail # None /\ detail.whole /\ detail.count # None =>
    detail.count \in {detail.passes, detail.passes + 1}

\* What holds as long as no addPass met another or left something half done.
Unspoilt ==
  /\ current = made
  /\ Clean(statements, table, made)
  /\ \A k \in History!Ids : k > made => table[k].rows = 0
  /\ Drawn(cache, table, made)
  /\ HalfCount(statements, table, half) /\ CountOK
  /\ list # None => \A t \in list : t.id \in History!InTable

HInv == Always /\ (~spoilt => Unspoilt)

LEMMA TailOf ==
  ASSUME NEW T, NEW q \in Seq(T), q # <<>>
  PROVE  /\ Tail(q) \in Seq(T) /\ Len(q) \in Nat \ {0} /\ DOMAIN q = 1 .. Len(q)
         /\ DOMAIN Tail(q) = 1 .. Len(q) - 1
         /\ \A i \in DOMAIN Tail(q) : i + 1 \in DOMAIN q /\ Tail(q)[i] = q[i + 1]
         /\ \A i \in DOMAIN q \ {1} : i - 1 \in DOMAIN Tail(q) /\ Tail(q)[i - 1] = q[i]
         /\ 1 \in DOMAIN q /\ Head(q) = q[1]
  <1>1. /\ Tail(q) \in Seq(T) /\ Len(q) \in Nat \ {0} /\ DOMAIN q = 1 .. Len(q)
        /\ DOMAIN Tail(q) = 1 .. Len(q) - 1 /\ Head(q) = q[1]
        /\ \A i \in 1 .. Len(q) - 1 : Tail(q)[i] = q[i + 1]
    OBVIOUS
  <1>2. ASSUME NEW i \in DOMAIN q \ {1}
        PROVE  i - 1 \in DOMAIN Tail(q) /\ Tail(q)[i - 1] = q[i]
    <2>1. i - 1 \in 1 .. Len(q) - 1 /\ (i - 1) + 1 = i
      BY <1>1
    <2> QED
      BY <1>1, <2>1
  <1> QED
    BY <1>1, <1>2

LEMMA JoinOf ==
  ASSUME NEW T, NEW q \in Seq(T), NEW add \in Seq(T)
  PROVE  /\ q \o add \in Seq(T) /\ Len(q) \in Nat
         /\ DOMAIN q = 1 .. Len(q) /\ DOMAIN add = 1 .. Len(add) /\ Len(add) \in Nat
         /\ \A i \in DOMAIN q : i \in DOMAIN (q \o add) /\ (q \o add)[i] = q[i]
         /\ \A j \in DOMAIN add : Len(q) + j \in DOMAIN (q \o add) /\ (q \o add)[Len(q) + j] = add[j]
         /\ \A k \in DOMAIN (q \o add) : k \notin DOMAIN q => k - Len(q) \in DOMAIN add /\ k = Len(q) + (k - Len(q))
         /\ DOMAIN (q \o add) \subseteq Nat
  <1>1. /\ q \o add \in Seq(T) /\ DOMAIN (q \o add) = 1 .. Len(q) + Len(add)
        /\ Len(q) \in Nat /\ Len(add) \in Nat /\ DOMAIN q = 1 .. Len(q) /\ DOMAIN add = 1 .. Len(add)
        /\ \A i \in 1 .. Len(q) + Len(add) : (q \o add)[i] = IF i <= Len(q) THEN q[i] ELSE add[i - Len(q)]
    OBVIOUS
  <1>2. \A j \in DOMAIN add : Len(q) + j \in DOMAIN (q \o add) /\ (q \o add)[Len(q) + j] = add[j]
    <2> TAKE j \in DOMAIN add
    <2>1. Len(q) + j \in 1 .. Len(q) + Len(add) /\ ~(Len(q) + j <= Len(q)) /\ (Len(q) + j) - Len(q) = j
      BY <1>1
    <2> QED
      BY <1>1, <2>1
  <1> QED
    BY <1>1, <1>2

LEMMA TailInPairs ==
  ASSUME NEW q \in Seq(Statement), q # <<>>, InPairs(q)
  PROVE  InPairs(Tail(q))
  <1> DEFINE r == Tail(q)
  <1>1. /\ DOMAIN q = 1 .. Len(q) /\ Len(q) \in Nat /\ DOMAIN r = 1 .. Len(q) - 1
        /\ \A i \in DOMAIN r : i + 1 \in DOMAIN q /\ r[i] = q[i + 1]
        /\ \A i \in DOMAIN q \ {1} : i - 1 \in DOMAIN r /\ r[i - 1] = q[i]
    BY TailOf
  <1> HIDE DEF r
  <1> SUFFICES ASSUME NEW i \in DOMAIN r
               PROVE  /\ r[i].op = "header" => /\ i + 1 \in DOMAIN r /\ r[i + 1].op = "passes"
                                               /\ r[i + 1].id = r[i].id /\ r[i + 1].visit = r[i].visit
                      /\ r[i].op = "passes" /\ i # 1 => r[i - 1].op = "header"
    BY DEF InPairs, r
  <1>2. i \in Nat \ {0} /\ i + 1 \in DOMAIN q /\ r[i] = q[i + 1] /\ (i + 1) - 1 = i
    BY <1>1
  <1>3. ASSUME r[i].op = "header"
        PROVE  i + 1 \in DOMAIN r /\ r[i + 1] = q[(i + 1) + 1] /\ (i + 1) + 1 \in DOMAIN q
    <2>1. (i + 1) + 1 \in DOMAIN q
      BY <1>2, <1>3 DEF InPairs
    <2>2. i + 1 \in DOMAIN r
      BY <1>1, <1>2, <2>1
    <2> QED
      BY <1>1, <2>1, <2>2
  <1>4. ASSUME r[i].op = "passes", i # 1 PROVE r[i - 1].op = "header"
    <2>1. q[i].op = "header"
      BY <1>2, <1>4 DEF InPairs
    <2>2. i \in DOMAIN q \ {1}
      BY <1>1, <1>2, <1>4
    <2> QED
      BY <1>1, <2>1, <2>2
  <1> QED
    BY <1>2, <1>3, <1>4 DEF InPairs

LEMMA ServedOrder ==
  ASSUME NEW q, NEW f, NEW v, q # <<>>, InOrder(q, f, v)
  PROVE  InOrder(Tail(q), f, v)
  <1>1. q \in Seq(Statement)
    BY DEF InOrder
  <1>2. /\ Tail(q) \in Seq(Statement)
        /\ \A i \in DOMAIN Tail(q) : i + 1 \in DOMAIN q /\ Tail(q)[i] = q[i + 1]
    BY <1>1, TailOf
  <1> QED
    BY <1>1, <1>2, TailInPairs DEF InOrder

\* Statements are put at the end, the reads of a detail in pairs.
LEMMA JoinedOrder ==
  ASSUME NEW q, NEW f, NEW v, NEW add \in Seq(Statement), InOrder(q, f, v), InPairs(add),
         \A i \in DOMAIN add : Fits(add[i], f, v) /\ (i = 1 => add[i].op # "passes")
  PROVE  InOrder(q \o add, f, v)
  <1> DEFINE r == q \o add
             l == Len(q)
  <1>0. q \in Seq(Statement)
    BY DEF InOrder
  <1>1. /\ r \in Seq(Statement) /\ l \in Nat
        /\ DOMAIN q = 1 .. l /\ DOMAIN add = 1 .. Len(add) /\ Len(add) \in Nat
        /\ \A i \in DOMAIN q : i \in DOMAIN r /\ r[i] = q[i]
        /\ \A j \in DOMAIN add : l + j \in DOMAIN r /\ r[l + j] = add[j]
        /\ \A k \in DOMAIN r : k \notin DOMAIN q => k - l \in DOMAIN add /\ k = l + (k - l)
        /\ DOMAIN r \subseteq Nat
    BY <1>0, JoinOf
  <1> HIDE DEF r, l
  <1>2. \A k \in DOMAIN r : \/ k \in DOMAIN q /\ r[k] = q[k]
                            \/ k - l \in DOMAIN add /\ r[k] = add[k - l] /\ k > l
    <2> TAKE k \in DOMAIN r
    <2>1. CASE k \notin DOMAIN q
      <3>1. k - l \in DOMAIN add /\ k = l + (k - l)
        BY <1>1, <2>1
      <3>2. r[l + (k - l)] = add[k - l]
        BY <1>1, <3>1
      <3> QED
        BY <1>1, <3>1, <3>2
    <2> QED
      BY <1>1, <2>1
  <1>3. \A i \in DOMAIN r : Fits(r[i], f, v)
    BY <1>2 DEF InOrder
  <1>4. InPairs(r)
    <2> SUFFICES ASSUME NEW i \in DOMAIN r
                 PROVE  /\ r[i].op = "header" => /\ i + 1 \in DOMAIN r /\ r[i + 1].op = "passes"
                                                 /\ r[i + 1].id = r[i].id /\ r[i + 1].visit = r[i].visit
                        /\ r[i].op = "passes" /\ i # 1 => r[i - 1].op = "header"
      BY DEF InPairs
    <2>1. CASE i \in DOMAIN q
      <3>1. r[i] = q[i] /\ i \in Nat \ {0}
        BY <1>1, <2>1
      <3>2. r[i].op = "header" => i + 1 \in DOMAIN q /\ i + 1 \in DOMAIN r /\ r[i + 1] = q[i + 1]
        BY <1>1, <2>1, <3>1 DEF InOrder, InPairs
      <3>3. i # 1 => i - 1 \in DOMAIN q /\ r[i - 1] = q[i - 1]
        BY <1>1, <2>1
      <3> QED
        BY <2>1, <3>1, <3>2, <3>3 DEF InOrder, InPairs
    <2>2. CASE i \notin DOMAIN q
      <3> DEFINE j == i - l
      <3>1. j \in DOMAIN add /\ r[i] = add[j] /\ i = l + j /\ j \in Nat \ {0}
        BY <1>1, <1>2, <2>2
      <3> HIDE DEF j
      <3>2. r[i].op = "header" => j + 1 \in DOMAIN add /\ i + 1 = l + (j + 1)
        BY <1>1, <3>1 DEF InPairs
      <3>3. r[i].op = "header" => i + 1 \in DOMAIN r /\ r[i + 1] = add[j + 1]
        BY <1>1, <3>2
      <3>4. r[i].op = "passes" => j # 1
        BY <3>1
      <3>5. r[i].op = "passes" => j - 1 \in DOMAIN add /\ i - 1 = l + (j - 1)
        BY <1>1, <3>1, <3>4
      <3>6. r[i].op = "passes" => r[i - 1] = add[j - 1]
        BY <1>1, <3>5
      <3> QED
        BY <3>1, <3>2, <3>3, <3>4, <3>5, <3>6 DEF InPairs
    <2> QED
      BY <2>1, <2>2
  <1> QED
    BY <1>1, <1>3, <1>4 DEF InOrder, r

\* One statement that is no read of a detail is put at the end.
LEMMA OneMore ==
  ASSUME NEW q, NEW f, NEW v, NEW s, InOrder(q, f, v), Fits(s, f, v), s.op \notin {"header", "passes"}
  PROVE  InOrder(Append(q, s), f, v)
  <1>1. q \in Seq(Statement) /\ s \in Statement
    BY DEF InOrder, Fits
  <1>2. Append(q, s) = q \o <<s>> /\ <<s>> \in Seq(Statement)
    BY <1>1
  <1>3. InPairs(<<s>>) /\ \A i \in DOMAIN <<s>> : <<s>>[i] = s
    BY DEF InPairs
  <1> QED
    BY <1>2, <1>3, JoinedOrder

\* The first statement stays the first.
LEMMA HalfJoin ==
  ASSUME NEW q \in Seq(Statement), NEW add \in Seq(Statement), NEW t, NEW h, NEW v,
         HalfRead(q, t, h, v)
  PROVE  HalfRead(q \o add, t, h, v) /\ (HalfCount(q, t, h) => HalfCount(q \o add, t, h))
  <1>1. CASE q = <<>>
    BY <1>1 DEF HalfRead, HalfCount
  <1>2. CASE q # <<>>
    <2>1. (q \o add) # <<>> /\ (q \o add)[1] = q[1]
      BY <1>2
    <2> QED
      BY <2>1 DEF HalfRead, HalfCount
  <1> QED
    BY <1>1, <1>2

LEMMA HalfOne ==
  ASSUME NEW q \in Seq(Statement), NEW s \in Statement, NEW t, NEW h, NEW v,
         HalfRead(q, t, h, v)
  PROVE  HalfRead(Append(q, s), t, h, v) /\ (HalfCount(q, t, h) => HalfCount(Append(q, s), t, h))
  <1>1. Append(q, s) = q \o <<s>> /\ <<s>> \in Seq(Statement)
    OBVIOUS
  <1> QED
    BY <1>1, HalfJoin

\* A statement that inserts no row is taken off.
LEMMA ServedClean ==
  ASSUME NEW q \in Seq(Statement), NEW t, NEW m, q # <<>>, Clean(q, t, m), q[1].op # "row"
  PROVE  Clean(Tail(q), t, m)
  <1>1. /\ Tail(q) \in Seq(Statement) /\ DOMAIN q = 1 .. Len(q) /\ Len(q) \in Nat
        /\ DOMAIN Tail(q) = 1 .. Len(q) - 1
        /\ \A i \in DOMAIN Tail(q) : i + 1 \in DOMAIN q /\ Tail(q)[i] = q[i + 1]
        /\ \A i \in DOMAIN q \ {1} : i - 1 \in DOMAIN Tail(q) /\ Tail(q)[i - 1] = q[i]
    BY TailOf
  <1> DEFINE r == Tail(q)
  <1> HIDE DEF r
  <1>2. \A i, j \in DOMAIN r : Recording(r[i]) /\ Recording(r[j]) => i = j
    BY <1>1 DEF Clean, r
  <1>3. Begun(r, m)
    BY <1>1 DEF Clean, Begun, r
  <1>4. \A k : Behind(r, k) <=> Behind(q, k)
    BY <1>1 DEF Behind, r
  <1>5. Counted(r, t)
    BY <1>4 DEF Clean, Counted
  <1>6. Lines(r, t)
    <2> SUFFICES ASSUME NEW i \in DOMAIN r, r[i].op = "spark", t[r[i].id].count # None
                 PROVE  \/ t[r[i].id].rows >= r[i].n
                        \/ /\ t[r[i].id].rows + 1 = r[i].n
                           /\ \E j \in DOMAIN r : j < i /\ r[j].op = "row" /\ r[j].id = r[i].id
      BY DEF Lines
    <2>1. i \in Nat /\ i + 1 \in DOMAIN q /\ r[i] = q[i + 1]
      BY <1>1 DEF r
    <2>2. CASE t[r[i].id].rows >= r[i].n
      BY <2>2
    <2>3. CASE ~(t[r[i].id].rows >= r[i].n)
      <3>1. PICK j \in DOMAIN q : j < i + 1 /\ q[j].op = "row" /\ q[j].id = r[i].id
        BY <2>1, <2>3 DEF Clean, Lines
      <3>2. j # 1 /\ j - 1 < i /\ j - 1 \in DOMAIN r /\ r[j - 1] = q[j]
        BY <1>1, <2>1, <3>1 DEF r
      <3> QED
        BY <2>1, <2>3, <3>1, <3>2 DEF Clean, Lines
    <2> QED
      BY <2>2, <2>3
  <1> QED
    BY <1>2, <1>3, <1>5, <1>6 DEF Clean, r

\* Reads and lines asked for are put at the end.
LEMMA JoinedClean ==
  ASSUME NEW q \in Seq(Statement), NEW t, NEW m, NEW add \in Seq(Statement), Clean(q, t, m),
         \A i \in DOMAIN add : /\ ~Recording(add[i])
                               /\ add[i].op = "spark" =>
                                    /\ add[i].id \in 1 .. m
                                    /\ t[add[i].id].count # None =>
                                         \/ t[add[i].id].rows >= add[i].n
                                         \/ t[add[i].id].rows + 1 = add[i].n /\ Behind(q, add[i].id)
  PROVE  Clean(q \o add, t, m)
  <1> DEFINE r == q \o add
             l == Len(q)
  <1>1. /\ r \in Seq(Statement) /\ l \in Nat
        /\ DOMAIN q = 1 .. l /\ DOMAIN add = 1 .. Len(add) /\ Len(add) \in Nat
        /\ \A i \in DOMAIN q : i \in DOMAIN r /\ r[i] = q[i]
        /\ \A j \in DOMAIN add : l + j \in DOMAIN r /\ r[l + j] = add[j]
        /\ \A k \in DOMAIN r : k \notin DOMAIN q => k - l \in DOMAIN add /\ k = l + (k - l)
        /\ DOMAIN r \subseteq Nat
    BY JoinOf
  <1> HIDE DEF r, l
  <1>2. \A k \in DOMAIN r : \/ k \in DOMAIN q /\ r[k] = q[k]
                            \/ k - l \in DOMAIN add /\ r[k] = add[k - l] /\ k > l
    <2> TAKE k \in DOMAIN r
    <2>1. CASE k \notin DOMAIN q
      <3>1. k - l \in DOMAIN add /\ k = l + (k - l)
        BY <1>1, <2>1
      <3>2. r[l + (k - l)] = add[k - l]
        BY <1>1, <3>1
      <3> QED
        BY <1>1, <3>1, <3>2
    <2> QED
      BY <1>1, <2>1
  <1>3. \A i, j \in DOMAIN r : Recording(r[i]) /\ Recording(r[j]) => i = j
    <2> SUFFICES ASSUME NEW i \in DOMAIN r, NEW j \in DOMAIN r, Recording(r[i]), Recording(r[j])
                 PROVE  i = j
      OBVIOUS
    <2>1. i \in DOMAIN q /\ r[i] = q[i] /\ j \in DOMAIN q /\ r[j] = q[j]
      BY <1>2
    <2> QED
      BY <2>1 DEF Clean
  <1>4. Begun(r, m)
    BY <1>2 DEF Clean, Begun
  <1>5. \A k : Behind(r, k) <=> Behind(q, k)
    BY <1>1, <1>2 DEF Behind, Recording, History!Recording
  <1>6. Counted(r, t)
    BY <1>5 DEF Clean, Counted
  <1>7. Lines(r, t)
    <2> SUFFICES ASSUME NEW i \in DOMAIN r, r[i].op = "spark", t[r[i].id].count # None
                 PROVE  \/ t[r[i].id].rows >= r[i].n
                        \/ /\ t[r[i].id].rows + 1 = r[i].n
                           /\ \E j \in DOMAIN r : j < i /\ r[j].op = "row" /\ r[j].id = r[i].id
      BY DEF Lines
    <2>1. CASE i \in DOMAIN q
      BY <1>1, <2>1 DEF Clean, Lines
    <2>2. CASE i \notin DOMAIN q
      <3>1. i - l \in DOMAIN add /\ r[i] = add[i - l] /\ i > l
        BY <1>2, <2>2
      <3>2. CASE t[r[i].id].rows >= r[i].n
        BY <3>2
      <3>3. CASE t[r[i].id].rows + 1 = r[i].n /\ Behind(q, r[i].id)
        <4>1. PICK j \in DOMAIN q : q[j].op = "row" /\ q[j].id = r[i].id
          BY <3>3 DEF Behind
        <4>2. j < i /\ j \in DOMAIN r /\ r[j] = q[j]
          BY <1>1, <3>1, <4>1
        <4> QED
          BY <3>3, <4>1, <4>2
      <3> QED
        BY <3>1, <3>2, <3>3
    <2> QED
      BY <2>1, <2>2
  <1> QED
    BY <1>3, <1>4, <1>6, <1>7 DEF Clean, r

\* A pass's statement is put at the end, when no pass has one.
LEMMA RecordingClean ==
  ASSUME NEW q \in Seq(Statement), NEW u, NEW m, NEW s \in Statement,
         Lines(q, u), Begun(q, m), Recording(s), s.id \in 1 .. m, \A i \in DOMAIN q : ~Recording(q[i]),
         \A k \in History!Ids : u[k].count # None =>
           u[k].count = u[k].rows + (IF s.op = "row" /\ s.id = k THEN 1 ELSE 0)
  PROVE  Clean(Append(q, s), u, m)
  <1> DEFINE r == Append(q, s)
             l == Len(q)
  <1>1. /\ r \in Seq(Statement) /\ l \in Nat /\ DOMAIN q = 1 .. l /\ DOMAIN r = 1 .. l + 1
        /\ r[l + 1] = s /\ \A i \in 1 .. l : r[i] = q[i]
    OBVIOUS
  <1> HIDE DEF r, l
  <1>2. \A i \in DOMAIN r : (i = l + 1 /\ r[i] = s) \/ (i \in DOMAIN q /\ r[i] = q[i])
    BY <1>1
  <1>3. \A i, j \in DOMAIN r : Recording(r[i]) /\ Recording(r[j]) => i = j
    BY <1>2
  <1>4. Begun(r, m)
    BY <1>2 DEF Begun
  <1>5. \A k : Behind(r, k) <=> s.op = "row" /\ s.id = k
    BY <1>1, <1>2 DEF Behind, Recording, History!Recording
  <1>6. Counted(r, u)
    BY <1>5 DEF Counted
  <1>7. Lines(r, u)
    <2> SUFFICES ASSUME NEW i \in DOMAIN r, r[i].op = "spark", u[r[i].id].count # None
                 PROVE  u[r[i].id].rows >= r[i].n
      BY DEF Lines
    <2>1. i \in DOMAIN q /\ r[i] = q[i]
      BY <1>2 DEF Recording, History!Recording
    <2>2. \A j \in DOMAIN q : q[j].op # "row"
      BY DEF Recording, History!Recording
    <2> QED
      BY <2>1, <2>2 DEF Lines
  <1> QED
    BY <1>3, <1>4, <1>6, <1>7 DEF Clean, r

\* When the statement in hand is the pass's, no other is.
LEMMA RestIsOthers ==
  ASSUME NEW q \in Seq(Statement), q # <<>>, NEW t, NEW m, Clean(q, t, m), Recording(q[1])
  PROVE  /\ \A i \in DOMAIN Tail(q) : ~Recording(Tail(q)[i])
         /\ Begun(Tail(q), m)
         /\ q[1].op # "row" =>
              /\ Clean(Tail(q), t, m) /\ Lines(Tail(q), t)
              /\ DB(t, m, {}) => \A k \in History!Ids : t[k].count # None => t[k].count = t[k].rows
  <1>1. /\ 1 \in DOMAIN q
        /\ \A i \in DOMAIN Tail(q) : i \in Nat \ {0} /\ i + 1 \in DOMAIN q /\ Tail(q)[i] = q[i + 1]
    BY TailOf
  <1>2. \A i \in DOMAIN Tail(q) : ~Recording(Tail(q)[i])
    BY <1>1 DEF Clean
  <1>3. Begun(Tail(q), m)
    BY <1>1 DEF Clean, Begun
  <1>4. ASSUME q[1].op # "row" PROVE Clean(Tail(q), t, m)
    BY <1>4, ServedClean
  <1>5. \A k : ~Behind(Tail(q), k)
    BY <1>2 DEF Behind, Recording, History!Recording
  <1>6. ASSUME q[1].op # "row", DB(t, m, {}), NEW k \in History!Ids, t[k].count # None
        PROVE  t[k].count = t[k].rows
    <2>1. t[k].count = t[k].rows + (IF Behind(Tail(q), k) THEN 1 ELSE 0) /\ t[k].rows \in Nat
      BY <1>4, <1>6 DEF Clean, Counted, DB
    <2> QED
      BY <1>5, <2>1
  <1> QED
    BY <1>2, <1>3, <1>4, <1>6 DEF Clean

\* The row of the pass in hand is inserted: of the session counted, or an orphan.
LEMMA RowClean ==
  ASSUME NEW q \in Seq(Statement), NEW t, NEW u, NEW m, NEW c, NEW s \in Statement, q # <<>>,
         Clean(q, t, m), q[1].op = "row", DB(t, m, c), q[1].id \in History!Ids,
         u = [t EXCEPT ![q[1].id].rows = @ + 1],
         s.op = "commit", s.id = q[1].id,
         \A i \in DOMAIN q : q[i].op = "spark" => q[i].id \in History!Ids
  PROVE  Clean(Append(Tail(q), s), u, m)
  <1> DEFINE r == Tail(q)
             k == q[1].id
  <1>1. /\ r \in Seq(Statement) /\ 1 \in DOMAIN q
        /\ \A i \in DOMAIN r : i \in Nat \ {0} /\ i + 1 \in DOMAIN q /\ r[i] = q[i + 1]
    BY TailOf
  <1>2. (\A i \in DOMAIN r : ~Recording(r[i])) /\ Begun(r, m) /\ Recording(q[1])
    BY RestIsOthers DEF Recording, History!Recording
  <1>3. k \in 1 .. m
    BY <1>1, <1>2 DEF Clean, Begun
  <1> HIDE DEF r, k
  <1>4. /\ \A j \in History!Ids : j # k => u[j] = t[j]
        /\ u[k] = [count |-> t[k].count, rows |-> t[k].rows + 1]
    BY DEF DB, k
  <1>5. \A i \in DOMAIN q : q[i].op = "row" => i = 1
    BY <1>1, <1>2 DEF Clean, Recording, History!Recording
  <1>6. ASSUME NEW j \in History!Ids, u[j].count # None PROVE u[j].count = u[j].rows
    <2>1. Behind(q, j) <=> j = k
      BY <1>1, <1>5 DEF Behind, k
    <2>2. t[j].count # None /\ t[j].rows \in Nat
      BY <1>4, <1>6 DEF DB
    <2>3. t[j].count = t[j].rows + (IF j = k THEN 1 ELSE 0)
      BY <2>1, <2>2 DEF Clean, Counted
    <2>4. CASE j = k
      BY <1>4, <2>2, <2>3, <2>4
    <2>5. CASE j # k
      <3>1. u[j] = t[j]
        BY <1>4, <2>5
      <3>2. t[j].count = t[j].rows
        BY <2>2, <2>3, <2>5
      <3> QED
        BY <3>1, <3>2
    <2> QED
      BY <2>4, <2>5
  <1>7. Lines(r, u)
    <2> SUFFICES ASSUME NEW i \in DOMAIN r, r[i].op = "spark", u[r[i].id].count # None
                 PROVE  u[r[i].id].rows >= r[i].n
      BY DEF Lines
    <2>0. i + 1 \in DOMAIN q /\ r[i] = q[i + 1]
      BY <1>1
    <2>1. i + 1 \in DOMAIN q /\ r[i] = q[i + 1] /\ r[i] \in Statement
      BY <2>0
    <2>2. r[i].id \in History!Ids /\ r[i].n \in Nat
      BY <2>1 DEF Statement
    <2>3. t[r[i].id].count # None /\ t[r[i].id].rows \in Nat
      BY <1>4, <2>2 DEF DB
    <2>4. \/ t[r[i].id].rows >= r[i].n
          \/ t[r[i].id].rows + 1 = r[i].n /\ r[i].id = k
      BY <1>5, <2>1, <2>3 DEF Clean, Lines, k
    <2>5. CASE r[i].id = k
      <3>1. u[r[i].id].rows = t[r[i].id].rows + 1
        BY <1>4, <2>5
      <3> QED
        BY <2>2, <2>3, <2>4, <3>1
    <2>6. CASE r[i].id # k
      BY <1>4, <2>2, <2>4, <2>6
    <2> QED
      BY <2>5, <2>6
  <1>8. \A j \in History!Ids : u[j].count # None =>
          u[j].count = u[j].rows + (IF s.op = "row" /\ s.id = j THEN 1 ELSE 0)
    <2> SUFFICES ASSUME NEW j \in History!Ids, u[j].count # None
                 PROVE  u[j].count = u[j].rows + 0
      OBVIOUS
    <2>1. u[j].count = u[j].rows
      BY <1>6
    <2>2. u[j].rows \in Nat
      BY <1>4 DEF DB
    <2> QED
      BY <2>1, <2>2
  <1> QED
    BY <1>1, <1>2, <1>3, <1>7, <1>8, RecordingClean DEF r, k, Recording, History!Recording

\* The tickets to draw are finitely many, and each is asked for.
LEMMA Sparking ==
  ASSUME DB(table, made, cleared)
  PROVE  LET add == History!Sparks(History!Summary)
         IN  /\ add \in Seq(Statement)
             /\ \A i \in DOMAIN add :
                  /\ add[i].op = "spark" /\ add[i].id \in 1 .. made /\ add[i].id \in History!Ids
                  /\ table[add[i].id].count # None /\ add[i].n = table[add[i].id].count
  <1> DEFINE wanted == {t \in History!Summary : /\ t.count >= 2 /\ ~History!Cached(t.id, t.count)
                                                /\ list = None \/ t \notin list}
             n == Cardinality(wanted)
             seq == History!SetToSeq(wanted)
  <1>1. \A t \in wanted : /\ t.id \in History!InTable /\ t.id \in 1 .. made /\ t.id \in Nat
                          /\ t.count = table[t.id].count /\ t.count \in Nat
                          /\ t = [id |-> t.id, count |-> table[t.id].count]
    BY HistoryFits DEF History!HistoryFits, History!Summary, History!InTable, History!Ids, DB
  <1>2. IsFiniteSet(wanted)
    <2> HIDE DEF wanted
    <2>1. [t \in wanted |-> t.id] \in Injection(wanted, History!Ids)
      BY <1>1 DEF Injection, IsInjective, History!InTable
    <2>2. IsFiniteSet(History!Ids)
      BY HistoryFits, FS_Interval DEF History!HistoryFits, History!Ids
    <2> QED
      BY <2>1, <2>2, FS_Injection
  <1>3. n \in Nat /\ seq \in [1 .. n -> wanted]
    <2> HIDE DEF wanted
    <2>1. n \in Nat /\ ExistsBijection(1 .. n, wanted)
      BY <1>2, FS_CardinalityType
    <2>2. PICK f \in [1 .. n -> wanted] : IsInjective(f)
      BY <2>1 DEF ExistsBijection, Bijection, Injection
    <2>3. History!Cardinality(wanted) = n
      BY DEF History!Cardinality, Cardinality
    <2> QED
      BY <2>1, <2>2, <2>3 DEF History!SetToSeq, History!IsInjective, IsInjective
  <1> DEFINE add == [i \in DOMAIN seq |->
                       [op |-> "spark", id |-> seq[i].id, n |-> seq[i].count, visit |-> 0]]
  <1>4. History!Sparks(History!Summary) = add
    BY DEF History!Sparks
  <1> HIDE DEF wanted, seq, n
  <1>5. \A i \in 1 .. n : seq[i] \in wanted /\ add[i] \in Statement
    BY <1>1, <1>3 DEF Statement
  <1>6. add \in Seq(Statement) /\ DOMAIN add = 1 .. n
    BY <1>3, <1>5
  <1>7. \A i \in DOMAIN add :
          /\ add[i].op = "spark" /\ add[i].id \in 1 .. made /\ add[i].id \in History!Ids
          /\ table[add[i].id].count # None /\ add[i].n = table[add[i].id].count
    BY <1>1, <1>3, <1>5, <1>6 DEF History!InTable
  <1> HIDE DEF add
  <1> QED
    BY <1>4, <1>6, <1>7

\* What the cache holds after an insertion is the new line or was there before.
LEMMA Inserting ==
  ASSUME Drawn(cache, table, made), NEW e \in [id : Nat, count : Nat, rows : Nat],
         e.id \in 1 .. made, table[e.id].count # None => e.rows >= e.count
  PROVE  Drawn(History!Insert(e), table, made)
  <1> DEFINE T == [id : Nat, count : Nat, rows : Nat]
             kept == IF Len(cache) >= MAX_ENTRIES THEN Tail(cache) ELSE cache
  <1>2. kept \in Seq(T) /\ \A i \in DOMAIN kept : \E j \in DOMAIN cache : kept[i] = cache[j]
    <2>1. CASE Len(cache) >= MAX_ENTRIES
      <3>1. cache # <<>> /\ cache \in Seq(T)
        BY <2>1, HistoryFits DEF Drawn, History!HistoryFits
      <3>2. /\ Tail(cache) \in Seq(T)
            /\ \A i \in DOMAIN Tail(cache) : i + 1 \in DOMAIN cache /\ Tail(cache)[i] = cache[i + 1]
        BY <3>1, TailOf
      <3> QED
        BY <2>1, <3>2
    <2>2. CASE ~(Len(cache) >= MAX_ENTRIES)
      BY <2>2 DEF Drawn
    <2> QED
      BY <2>1, <2>2
  <1> HIDE DEF kept
  <1>3. Drawn(kept, table, made)
    BY <1>2 DEF Drawn
  <1>4. \A at : Drawn([kept EXCEPT ![at] = e], table, made)
    <2> SUFFICES ASSUME NEW at PROVE Drawn([kept EXCEPT ![at] = e], table, made)
      OBVIOUS
    <2>1. [kept EXCEPT ![at] = e] \in Seq(T) /\ DOMAIN [kept EXCEPT ![at] = e] = DOMAIN kept
      <3> DEFINE n == Len(kept)
      <3>0. e \in T
        OBVIOUS
      <3> HIDE DEF T
      <3>1. n \in Nat /\ kept \in [1 .. n -> T]
        BY <1>2
      <3> HIDE DEF n
      <3>2. [kept EXCEPT ![at] = e] \in [1 .. n -> T]
        BY <3>0, <3>1
      <3> QED
        BY <3>1, <3>2
    <2>2. \A i \in DOMAIN kept : [kept EXCEPT ![at] = e][i] = IF i = at THEN e ELSE kept[i]
      BY <1>2
    <2> QED
      BY <1>3, <2>1, <2>2 DEF Drawn
  <1>5. Drawn(Append(kept, e), table, made)
    <2>1. /\ Append(kept, e) \in Seq(T)
          /\ \A i \in DOMAIN Append(kept, e) : Append(kept, e)[i] = e \/ (i \in DOMAIN kept /\ Append(kept, e)[i] = kept[i])
      BY <1>2
    <2> QED
      BY <1>3, <2>1 DEF Drawn
  <1> QED
    BY <1>4, <1>5 DEF History!Insert, kept

LEMMA HistoryInitially == ASSUME History!Init PROVE HInv
  <1>1. DB(table, made, cleared)
    BY HistoryFits DEF History!Init, DB, History!Absent, History!HistoryFits
  <1>2. statements = <<>> /\ cache = <<>>
    BY DEF History!Init
  <1>3. InOrder(statements, focus, visit) /\ Clean(statements, table, made) /\ Drawn(cache, table, made)
    <2>1. Clean(<<>>, table, made)
      <3>1. Begun(<<>>, made) /\ Lines(<<>>, table)
        BY DEF Begun, Lines
      <3>2. Counted(<<>>, table)
        BY DEF Counted, History!Init, History!Absent
      <3> QED
        BY <3>1, <3>2 DEF Clean
    <2>2. InOrder(<<>>, focus, visit) /\ Drawn(<<>>, table, made)
      BY DEF InOrder, InPairs, Drawn
    <2> QED
      BY <1>2, <2>1, <2>2
  <1>4. Always
    BY <1>1, <1>3, HistoryFits
       DEF Always, HeldOK, HalfRead, Shown, History!Init, History!ClearedIsGone, History!HistoryFits,
           History!Screens, History!Away
  <1>5. Unspoilt
    BY <1>3 DEF Unspoilt, HalfCount, CountOK, History!Init, History!Absent
  <1> QED
    BY <1>4, <1>5 DEF HInv

\* What the actions that touch nothing of it leave as it was.
LEMMA HistoryStill ==
  ASSUME HInv,
         UNCHANGED <<table, made, held, current, statements, focus, visit, list, detail, half,
                     cache, spoilt, cleared>>
  PROVE  HInv'
  <1>1. Always'
    BY DEF HInv, Always, HeldOK, Shown, History!ClearedIsGone
  <1>2. Unspoilt' <=> Unspoilt
    BY DEF Unspoilt, CountOK, History!InTable
  <1> QED
    BY <1>1, <1>2 DEF HInv

LEMMA HistoryOpens == ASSUME HInv, History!Open \/ UNCHANGED historyVars PROVE HInv'
  BY HistoryStill DEF History!Open, History!tables, History!shows, historyVars

\* A new session has no pass, no statement and no line.
LEMMA HistoryStarts == ASSUME HInv, History!StartSession PROVE HInv'
  <1>1. /\ made \in 0 .. MaxSessions /\ made' = made + 1 /\ made' \in 0 .. MaxSessions
        /\ made' \in History!Ids /\ made' \in Nat /\ made \in Nat /\ current' = made'
        /\ table' = [table EXCEPT ![made'].count = 0]
        /\ UNCHANGED <<held, cleared, statements, focus, visit, list, detail, half, cache, spoilt>>
    BY HistoryFits
       DEF History!StartSession, History!shows, HInv, Always, DB, History!HistoryFits, History!Ids
  <1>2. /\ \A k \in History!Ids : k # made' => table'[k] = table[k]
        /\ table'[made'] = [count |-> 0, rows |-> table[made'].rows]
        /\ \A k \in History!Ids : table'[k].rows = table[k].rows
    BY <1>1 DEF HInv, Always, DB
  <1>3. DB(table, made, cleared)'
    <2>1. table' \in [History!Ids -> [count : Nat \cup {None}, rows : Nat]]
      BY <1>1 DEF HInv, Always, DB
    <2>2. cleared' \subseteq 1 .. made' /\ made' \notin cleared
      BY <1>1 DEF HInv, Always, DB
    <2>3. \A k \in History!Ids : k > made' \/ k \in cleared => k # made' /\ (k > made \/ k \in cleared)
      BY <1>1, <2>2 DEF History!Ids
    <2> QED
      BY <1>1, <1>2, <2>1, <2>2, <2>3 DEF HInv, Always, DB
  <1>4. HalfRead(statements, table, half, visit)'
    <2>1. ASSUME half # None PROVE statements[1].id \in History!Ids
      <3>1. statements # <<>> /\ statements[1].op = "passes"
        BY <2>1 DEF HInv, Always, HalfRead
      <3>2. 1 \in DOMAIN statements
        BY <3>1, TailOf DEF HInv, Always, InOrder
      <3> QED
        BY <3>1, <3>2 DEF HInv, Always, InOrder, Fits
    <2> QED
      BY <1>1, <1>2, <2>1 DEF HInv, Always, HalfRead
  <1>5. Always'
    <2>1. HeldOK' /\ Shown' /\ History!ClearedIsGone'
      BY <1>1 DEF HInv, Always, HeldOK, Shown, History!ClearedIsGone
    <2>2. InOrder(statements, focus, visit)'
      BY <1>1 DEF HInv, Always
    <2> QED
      BY <1>1, <1>3, <1>4, <2>1, <2>2 DEF HInv, Always
  <1>6. ASSUME ~spoilt PROVE Unspoilt'
    <2>1. Unspoilt /\ table[made'].count = None /\ table[made'].rows = 0
      BY <1>1, <1>6 DEF HInv, Unspoilt, Always, DB
    <2>2. \A k \in 1 .. made : k \in History!Ids /\ k # made' /\ k \in 1 .. made'
      BY <1>1, HistoryFits DEF History!Ids, History!HistoryFits
    <2>3. Begun(statements, made')
      BY <2>1, <2>2 DEF Unspoilt, Clean, Begun
    <2>4. \A i \in DOMAIN statements :
            statements[i].op \in {"row", "spark"} =>
              statements[i].id # made' /\ table'[statements[i].id] = table[statements[i].id]
      BY <1>2, <2>1, <2>2 DEF Unspoilt, Clean, Begun, Recording, History!Recording
    <2>5. Counted(statements, table')
      <3>1. ~Behind(statements, made')
        BY <2>4 DEF Behind
      <3> QED
        BY <1>1, <1>2, <2>1, <3>1 DEF Unspoilt, Clean, Counted
    <2>6. Lines(statements, table')
      BY <2>1, <2>4 DEF Unspoilt, Clean, Lines
    <2>7. Clean(statements, table, made)'
      BY <1>1, <2>1, <2>3, <2>5, <2>6 DEF Unspoilt, Clean
    <2>8. Drawn(cache, table, made)'
      <3>1. \A i \in DOMAIN cache : cache[i].id \in 1 .. made' /\ table'[cache[i].id] = table[cache[i].id]
        BY <1>2, <2>1, <2>2 DEF Unspoilt, Drawn
      <3> QED
        BY <1>1, <2>1, <3>1 DEF Unspoilt, Drawn
    <2>9. \A k \in History!Ids : k > made' => table'[k].rows = 0
      <3>1. \A k \in History!Ids : k > made' => k > made
        BY <1>1 DEF History!Ids
      <3> QED
        BY <1>2, <2>1, <3>1 DEF Unspoilt
    <2>10. HalfCount(statements, table, half)'
      <3>1. ASSUME half # None, half.count # None PROVE table'[statements[1].id].count = half.count
        <4>1. statements # <<>> /\ statements[1].op = "passes"
          BY <3>1 DEF HInv, Always, HalfRead
        <4>2. 1 \in DOMAIN statements
          BY <4>1, TailOf DEF HInv, Always, InOrder
        <4>3. statements[1].id \in History!Ids
          BY <4>1, <4>2 DEF HInv, Always, InOrder, Fits
        <4>4. table[statements[1].id].count = half.count
          BY <2>1, <3>1 DEF Unspoilt, HalfCount
        <4> QED
          BY <1>2, <2>1, <3>1, <4>3, <4>4
      <3> QED
        BY <1>1, <3>1 DEF HalfCount
    <2>11. CountOK' /\ (list # None => \A t \in list : t.id \in History!InTable)'
      <3>1. \A k \in History!InTable : k \in History!InTable'
        BY <1>1, <1>2, HistoryFits DEF History!InTable, History!HistoryFits
      <3> QED
        BY <1>1, <2>1, <3>1 DEF Unspoilt, CountOK
    <2> QED
      BY <1>1, <2>7, <2>8, <2>9, <2>10, <2>11 DEF Unspoilt
  <1> QED
    BY <1>1, <1>5, <1>6 DEF HInv

\* The statement of a pass waits behind the others.
LEMMA HistoryPasses == ASSUME HInv, History!AddPass PROVE HInv'
  <1> DEFINE s == [op |-> "begin", id |-> current, n |-> 0, visit |-> 0]
  <1>1. /\ current > 0 /\ current \in 1 .. MaxSessions /\ statements' = Append(statements, s)
        /\ spoilt' = (spoilt \/ \E x \in History!ToSet(statements) : x.op \in History!Recording)
        /\ UNCHANGED <<table, made, held, cleared, current, focus, visit, list, detail, half, cache>>
    BY HistoryFits DEF History!AddPass, History!tables, History!shows, HInv, Always, History!HistoryFits
  <1>2. s \in Statement /\ Fits(s, focus, visit) /\ Recording(s) /\ s.op = "begin" /\ s.id = current
    BY <1>1, HistoryFits
       DEF Statement, Fits, Recording, History!Recording, History!Ids, History!HistoryFits
  <1> HIDE DEF s
  <1>3. InOrder(statements', focus, visit)
    BY <1>1, <1>2, OneMore DEF HInv, Always
  <1>4. /\ HalfRead(statements', table, half, visit)
        /\ HalfCount(statements, table, half) => HalfCount(statements', table, half)
    BY <1>1, <1>2, HalfOne DEF HInv, Always, InOrder
  <1>5. Always'
    BY <1>1, <1>3, <1>4 DEF HInv, Always, HeldOK, Shown, History!ClearedIsGone
  <1>6. ASSUME ~spoilt' PROVE Unspoilt'
    <2>1. Unspoilt /\ \A i \in DOMAIN statements : ~Recording(statements[i])
      BY <1>1, <1>6 DEF HInv, Recording, History!ToSet
    <2>2. \A k \in History!Ids : table[k].count # None =>
            table[k].count = table[k].rows + (IF s.op = "row" /\ s.id = k THEN 1 ELSE 0)
      BY <1>2, <2>1 DEF Unspoilt, Clean, Counted, Behind, Recording, History!Recording
    <2>3. s.id \in 1 .. made
      BY <1>1, <1>2, <2>1 DEF Unspoilt
    <2>4. Clean(statements', table, made)
      <3>1. Lines(statements, table) /\ Begun(statements, made) /\ statements \in Seq(Statement)
        BY <2>1 DEF Unspoilt, Clean, HInv, Always, InOrder
      <3>2. Clean(Append(statements, s), table, made)
        BY ONLY <1>2, <2>1, <2>2, <2>3, <3>1, RecordingClean
      <3> QED
        BY <1>1, <3>2
    <2> QED
      BY <1>1, <1>4, <2>1, <2>4 DEF Unspoilt, CountOK, History!InTable
  <1> QED
    BY <1>5, <1>6 DEF HInv

LEMMA HistoryClears == ASSUME HInv, History!Clear PROVE HInv'
  <1> DEFINE s == [op |-> "clear", id |-> 0, n |-> 0, visit |-> 0]
  <1>1. /\ statements' = Append(statements, s)
        /\ UNCHANGED <<table, made, held, cleared, current, focus, visit, list, detail, half, cache, spoilt>>
    BY DEF History!Clear, History!tables, History!shows
  <1>2. s \in Statement /\ Fits(s, focus, visit) /\ ~Recording(s) /\ s.op = "clear"
    BY DEF Statement, Fits, Recording, History!Recording
  <1> HIDE DEF s
  <1>3. InOrder(statements', focus, visit) /\ statements \in Seq(Statement)
    BY <1>1, <1>2, OneMore DEF HInv, Always, InOrder
  <1>4. /\ HalfRead(statements', table, half, visit)
        /\ HalfCount(statements, table, half) => HalfCount(statements', table, half)
    BY <1>1, <1>2, <1>3, HalfOne DEF HInv, Always
  <1>5. Always'
    BY <1>1, <1>3, <1>4 DEF HInv, Always, HeldOK, Shown, History!ClearedIsGone
  <1>6. ASSUME ~spoilt' PROVE Unspoilt'
    <2>1. Unspoilt
      BY <1>1, <1>6 DEF HInv
    <2>2. Append(statements, s) = statements \o <<s>> /\ <<s>> \in Seq(Statement)
          /\ \A i \in DOMAIN <<s>> : <<s>>[i] = s
      BY <1>2, <1>3
    <2>3. Clean(statements', table, made)
      BY <1>1, <1>2, <1>3, <2>1, <2>2, JoinedClean DEF Unspoilt
    <2> QED
      BY <1>1, <1>4, <2>1, <2>3 DEF Unspoilt, CountOK, History!InTable
  <1> QED
    BY <1>5, <1>6 DEF HInv

\* The screen in front asks for its reads, and what was asked before is of an
\* earlier visit.
LEMMA HistoryFocuses == ASSUME HInv, NEW s \in History!Screens, History!Focus(s) PROVE HInv'
  <1> DEFINE add == IF ready THEN History!Reads(s) ELSE <<>>
  <1>1. /\ focus' = s /\ visit' = visit + 1 /\ half' = None /\ visit \in Nat
        /\ statements' = statements \o add /\ statements \in Seq(Statement)
        /\ UNCHANGED <<table, made, held, cleared, current, cache, spoilt>>
    <2>1. statements \in Seq(Statement)
      BY DEF HInv, Always, InOrder
    <2>2. statements = statements \o <<>>
      BY <2>1
    <2> QED
      BY <2>1, <2>2 DEF History!Focus, History!tables, HInv, Always
  <1>2. /\ add \in Seq(Statement) /\ InPairs(add)
        /\ \A i \in DOMAIN add : /\ Fits(add[i], s, visit') /\ ~Recording(add[i]) /\ add[i].op # "spark"
                                 /\ i = 1 => add[i].op # "passes"
    <2>1. visit' \in Nat
      BY <1>1
    <2>2. PICK v \in Nat : v = visit'
      BY <2>1
    <2> DEFINE ask(op, i) == [op |-> op, id |-> i, n |-> 0, visit |-> v]
    <2>3. \/ add = <<>>
          \/ add = <<ask("list", 0)>>
          \/ s \in History!Ids /\ add = <<ask("header", s), ask("passes", s)>>
      BY <2>2 DEF History!Reads, History!Ask, History!Screens, History!List
    <2>4. History!Ids \subseteq Nat
      BY HistoryFits DEF History!Ids, History!HistoryFits
    <2> HIDE DEF add
    <2>5. CASE add = <<>>
      BY <2>5 DEF InPairs
    <2>6. CASE add = <<ask("list", 0)>>
      <3> DEFINE a == ask("list", 0)
      <3>1. a \in Statement /\ a.op = "list"
        BY <2>2 DEF Statement
      <3>2. Fits(a, s, visit') /\ ~Recording(a)
        BY <3>1 DEF Fits, Recording, History!Recording
      <3> HIDE DEF a, ask
      <3>3. add = <<a>>
        BY <2>6 DEF a
      <3>4. add \in Seq(Statement) /\ DOMAIN add = {1} /\ add[1] = a
        BY <3>1, <3>3
      <3>5. InPairs(add)
        BY <3>1, <3>4 DEF InPairs
      <3> QED
        BY <3>1, <3>2, <3>4, <3>5
    <2>7. CASE s \in History!Ids /\ add = <<ask("header", s), ask("passes", s)>>
      <3> DEFINE a == ask("header", s)
                 b == ask("passes", s)
      <3>1. /\ a \in Statement /\ a.op = "header" /\ a.id = s /\ a.visit = v
            /\ b \in Statement /\ b.op = "passes" /\ b.id = s /\ b.visit = v
        BY <2>2, <2>4, <2>7 DEF Statement
      <3>2. Fits(a, s, visit') /\ ~Recording(a) /\ Fits(b, s, visit') /\ ~Recording(b)
        BY <2>2, <2>7, <3>1 DEF Fits, Recording, History!Recording
      <3> HIDE DEF a, b, ask
      <3>3. add = <<a, b>>
        BY <2>7 DEF a, b
      <3>4. add \in Seq(Statement) /\ DOMAIN add = {1, 2} /\ add[1] = a /\ add[2] = b
        BY <3>1, <3>3
      <3>5. InPairs(add)
        BY <3>1, <3>4 DEF InPairs
      <3> QED
        BY <3>1, <3>2, <3>4, <3>5
    <2> QED
      BY <2>3, <2>5, <2>6, <2>7
  <1> HIDE DEF add
  <1>3. InOrder(statements, s, visit')
    <2>1. \A i \in DOMAIN statements : Fits(statements[i], s, visit')
      <3> SUFFICES ASSUME NEW i \in DOMAIN statements PROVE Fits(statements[i], s, visit')
        OBVIOUS
      <3>1. Fits(statements[i], focus, visit) /\ statements[i] \in Statement
        BY DEF HInv, Always, InOrder, Fits
      <3>2. statements[i].visit \in Nat
        BY <3>1 DEF Statement
      <3>3. statements[i].visit <= visit => statements[i].visit <= visit' /\ statements[i].visit # visit'
        BY <1>1, <3>2
      <3> QED
        BY <3>1, <3>3 DEF Fits
    <2> QED
      BY <2>1 DEF HInv, Always, InOrder
  <1>4. InOrder(statements', focus', visit')
    BY <1>1, <1>2, <1>3, JoinedOrder
  <1>5. Shown' /\ (CountOK => CountOK')
    <2>1. \/ /\ s \in History!Ids
             /\ detail' = [id |-> s, count |-> None, passes |-> None, asOf |-> History!Unread, whole |-> TRUE]
          \/ detail' = detail /\ (detail # None => s \in {detail.id, History!Away})
          \/ detail' = None
      BY DEF History!Focus
    <2>2. CASE /\ s \in History!Ids
               /\ detail' = [id |-> s, count |-> None, passes |-> None, asOf |-> History!Unread, whole |-> TRUE]
      <3>1. /\ detail' \in Detail /\ detail'.id = s /\ detail'.whole /\ detail'.count = None
            /\ detail'.passes = None /\ detail'.asOf = [count |-> None, rows |-> None]
        BY <2>2 DEF Detail, Entry, History!Unread
      <3> QED
        BY <1>1, <3>1 DEF Shown, CountOK
    <2>3. CASE detail' = detail /\ (detail # None => s \in {detail.id, History!Away})
      BY <1>1, <2>3 DEF HInv, Always, Shown, CountOK
    <2>4. CASE detail' = None
      BY <1>1, <2>4 DEF Shown, CountOK
    <2> QED
      BY <2>1, <2>2, <2>3, <2>4
  <1>6. list' = list \/ list' = {}
    BY DEF History!Focus
  <1>7. Always'
    <2>1. HalfRead(statements, table, half, visit)' /\ HeldOK' /\ DB(table, made, cleared)'
      BY <1>1 DEF HInv, Always, HalfRead, HeldOK
    <2>2. History!ClearedIsGone'
      BY <1>1, <1>6 DEF HInv, Always, History!ClearedIsGone
    <2>3. visit' \in Nat /\ focus' \in History!Screens /\ current' \in 0 .. MaxSessions
      BY <1>1 DEF HInv, Always
    <2> QED
      BY <1>4, <1>5, <2>1, <2>2, <2>3 DEF Always
  <1>8. ASSUME ~spoilt' PROVE Unspoilt'
    <2>1. Unspoilt
      BY <1>1, <1>8 DEF HInv
    <2>2. Clean(statements', table, made)
      BY <1>1, <1>2, <2>1, JoinedClean DEF Unspoilt
    <2>3. HalfCount(statements, table, half)'
      BY <1>1 DEF HalfCount
    <2>4. (list # None => \A t \in list : t.id \in History!InTable)'
      BY <1>1, <1>6, <2>1 DEF Unspoilt, History!InTable
    <2> QED
      BY <1>1, <1>5, <2>1, <2>2, <2>3, <2>4 DEF Unspoilt
  <1> QED
    BY <1>7, <1>8 DEF HInv

Unserved == UNCHANGED <<ready, current, issued, focus, visit>>

\* The statement that is served, and those that wait.
LEMMA AtHand ==
  ASSUME HInv, statements # <<>>
  PROVE  /\ statements \in Seq(Statement) /\ 1 \in DOMAIN statements
         /\ Head(statements) = statements[1] /\ statements[1] \in Statement
         /\ Fits(statements[1], focus, visit) /\ InPairs(statements)
         /\ Tail(statements) \in Seq(Statement) /\ InOrder(Tail(statements), focus, visit)
         /\ \A i \in DOMAIN statements : i \in Nat \ {0} /\ Fits(statements[i], focus, visit)
  <1>1. /\ statements \in Seq(Statement) /\ InOrder(statements, focus, visit)
    BY DEF HInv, Always, InOrder
  <1>2. /\ 1 \in DOMAIN statements /\ Head(statements) = statements[1]
        /\ Tail(statements) \in Seq(Statement) /\ DOMAIN statements = 1 .. Len(statements)
        /\ Len(statements) \in Nat
    BY <1>1, TailOf
  <1>3. InOrder(Tail(statements), focus, visit)
    BY <1>1, ServedOrder
  <1> QED
    BY <1>1, <1>2, <1>3 DEF InOrder

\* No answer is half given while a statement is served that is not the passes'.
LEMMA HalfIdle ==
  ASSUME HInv, statements # <<>>, statements[1].op # "passes"
  PROVE  half = None
  BY DEF HInv, Always, HalfRead

\* A statement of a pass is served: what each session's tables must be like for
\* the rest to stay as it was.
LEMMA Recorded ==
  ASSUME HInv, statements # <<>>, Recording(statements[1]), Unserved, History!shows' = History!shows,
         \/ statements' = Tail(statements)
         \/ \E op \in History!Recording :
              statements' = Append(Tail(statements), [statements[1] EXCEPT !.op = op]),
         DB(table, made, cleared)', HeldOK', cleared' \subseteq cleared,
         ~spoilt' => /\ ~spoilt /\ made' = made /\ Clean(statements', table', made)
                     /\ \A k \in History!Ids : /\ table'[k].count = None <=> table[k].count = None
                                               /\ k > made => table'[k].rows = 0
  PROVE  HInv'
  <1>1. UNCHANGED <<current, focus, visit, list, detail, half, cache>>
    BY DEF Unserved, History!shows
  <1>2. half = None
    BY HalfIdle DEF Recording, History!Recording
  <1>3. InOrder(statements', focus, visit)
    <2>1. CASE statements' = Tail(statements)
      BY <2>1, AtHand
    <2>2. ASSUME NEW op \in History!Recording,
                 statements' = Append(Tail(statements), [statements[1] EXCEPT !.op = op])
          PROVE  InOrder(statements', focus, visit)
      <3> DEFINE next == [statements[1] EXCEPT !.op = op]
      <3>1. /\ next \in Statement /\ next.op = op /\ next.id = statements[1].id
            /\ statements[1].id \in History!Ids
        BY AtHand DEF Statement, Fits, Recording
      <3>2. Fits(next, focus, visit) /\ next.op \notin {"header", "passes"}
        BY <3>1 DEF Fits, History!Recording
      <3> HIDE DEF next
      <3> QED
        BY <2>2, <3>2, AtHand, OneMore DEF next
    <2> QED
      BY <2>1, <2>2
  <1>4. Always'
    <2>1. HalfRead(statements, table, half, visit)' /\ Shown' /\ History!ClearedIsGone'
      BY <1>1, <1>2 DEF HInv, Always, HalfRead, Shown, History!ClearedIsGone
    <2> QED
      BY <1>1, <1>3, <2>1 DEF HInv, Always
  <1>5. ASSUME ~spoilt' PROVE Unspoilt'
    <2>1. Unspoilt /\ made' = made /\ made \in 0 .. MaxSessions
      BY <1>5 DEF HInv, Always, DB
    <2>2. Drawn(cache, table', made)
      <3>1. \A i \in DOMAIN cache : cache[i].id \in History!Ids
        BY <2>1, HistoryFits DEF Unspoilt, Drawn, History!Ids, History!HistoryFits
      <3> QED
        BY <1>5, <2>1, <3>1 DEF Unspoilt, Drawn
    <2>3. History!InTable' = History!InTable
      BY <1>5 DEF History!InTable
    <2>4. HalfCount(statements, table, half)' /\ CountOK'
      BY <1>1, <1>2, <2>1 DEF HalfCount, Unspoilt, CountOK
    <2> QED
      BY <1>1, <1>5, <2>1, <2>2, <2>3, <2>4 DEF Unspoilt
  <1> QED
    BY <1>4, <1>5 DEF HInv

\* The rest of the statements, when the one in hand changes no table.
LEMMA NothingRecorded ==
  ASSUME HInv, statements # <<>>, Recording(statements[1]), statements[1].op # "row", ~spoilt
  PROVE  /\ Clean(Tail(statements), table, made)
         /\ \A k \in History!Ids : k > made => table[k].rows = 0
         /\ \A op \in {"begin", "count", "commit", "rollback"} :
              Clean(Append(Tail(statements), [statements[1] EXCEPT !.op = op]), table, made)
  <1>1. Clean(statements, table, made) /\ statements \in Seq(Statement)
    BY AtHand DEF HInv, Unspoilt
  <1>2. /\ \A i \in DOMAIN Tail(statements) : ~Recording(Tail(statements)[i])
        /\ Begun(Tail(statements), made) /\ Lines(Tail(statements), table)
        /\ Clean(Tail(statements), table, made)
        /\ \A k \in History!Ids : table[k].count # None => table[k].count = table[k].rows
    <2>1. DB(table, made, {})
      BY DEF HInv, Always, DB
    <2> QED
      BY ONLY <1>1, <2>1, RestIsOthers, statements # <<>>, Recording(statements[1]), statements[1].op # "row"
  <1>3. statements[1].id \in 1 .. made
    BY <1>1, AtHand DEF Clean, Begun
  <1>4. ASSUME NEW op \in {"begin", "count", "commit", "rollback"}
        PROVE  Clean(Append(Tail(statements), [statements[1] EXCEPT !.op = op]), table, made)
    <2> DEFINE next == [statements[1] EXCEPT !.op = op]
    <2>1. next \in Statement /\ next.op = op /\ next.id = statements[1].id
      BY AtHand DEF Statement, History!Recording
    <2>2. Recording(next) /\ next.op # "row" /\ next.id \in 1 .. made
      BY <1>3, <2>1 DEF Recording, History!Recording
    <2> HIDE DEF next
    <2>3. \A k \in History!Ids : table[k].count # None =>
            table[k].count = table[k].rows + (IF next.op = "row" /\ next.id = k THEN 1 ELSE 0)
      <3>1. \A k \in History!Ids : table[k].rows \in Nat
        BY DEF HInv, Always, DB
      <3> QED
        BY <1>2, <2>2, <3>1
    <2>4. Tail(statements) \in Seq(Statement)
      BY AtHand
    <2>5. Clean(Append(Tail(statements), next), table, made)
      BY ONLY <1>2, <2>1, <2>2, <2>3, <2>4, RecordingClean
    <2> QED
      BY <2>5 DEF next
  <1> QED
    BY <1>2, <1>4 DEF HInv, Unspoilt

LEMMA ServesBegin ==
  ASSUME HInv, statements # <<>>, statements[1].op = "begin", History!Begin(statements[1]), Unserved
  PROVE  HInv'
  <1>1. Recording(statements[1]) /\ statements[1].op # "row"
    BY DEF Recording, History!Recording
  <1>2. /\ UNCHANGED <<table, made, cleared, spoilt>> /\ History!shows' = History!shows
        /\ held' = held \/ held' = History!Found
        /\ \E op \in {"count", "rollback"} :
             statements' = Append(Tail(statements), [statements[1] EXCEPT !.op = op])
    BY DEF History!Begin, History!Then, History!Rest
  <1>3. DB(table, made, cleared)' /\ HeldOK'
    <2>1. CASE held' = held
      BY <1>2, <2>1 DEF HInv, Always, HeldOK
    <2>2. CASE held' = History!Found
      BY <1>2, <2>2 DEF HInv, Always, HeldOK, History!Found
    <2> QED
      BY <1>2, <2>1, <2>2 DEF HInv, Always
  <1>4. ASSUME ~spoilt' PROVE Clean(statements', table', made)
    BY <1>1, <1>2, <1>4, NothingRecorded
  <1>5. ~spoilt' => \A k \in History!Ids : k > made => table[k].rows = 0
    BY <1>2 DEF HInv, Unspoilt
  <1>6. \E op \in History!Recording :
          statements' = Append(Tail(statements), [statements[1] EXCEPT !.op = op])
    BY <1>2 DEF History!Recording
  <1> QED
    BY <1>1, <1>2, <1>3, <1>4, <1>5, <1>6, Recorded

\* The count goes up before the row is there.
LEMMA ServesCount ==
  ASSUME HInv, statements # <<>>, statements[1].op = "count", History!Count(statements[1]), Unserved
  PROVE  HInv'
  <1> DEFINE k == statements[1].id
  <1>0. Recording(statements[1]) /\ statements[1].op # "row" /\ k \in History!Ids
    BY AtHand DEF Recording, History!Recording, Fits
  <1>1. /\ UNCHANGED <<made, held, cleared, spoilt>> /\ History!shows' = History!shows
    BY DEF History!Count
  <1>2. HeldOK'
    BY <1>1 DEF HInv, Always, HeldOK
  <1>3. CASE /\ table[k].count # None /\ table' = [table EXCEPT ![k].count = @ + 1]
             /\ statements' = Append(Tail(statements), [statements[1] EXCEPT !.op = "row"])
    <2> DEFINE next == [statements[1] EXCEPT !.op = "row"]
    <2>1. next \in Statement /\ next.op = "row" /\ next.id = k
      BY AtHand DEF Statement, History!Recording
    <2> HIDE DEF next
    <2>2. /\ \A j \in History!Ids : j # k => table'[j] = table[j]
          /\ table'[k] = [count |-> table[k].count + 1, rows |-> table[k].rows]
          /\ table[k].count \in Nat
          /\ table' \in [History!Ids -> [count : Nat \cup {None}, rows : Nat]]
      BY <1>0, <1>3 DEF HInv, Always, DB
    <2>3. \A j \in History!Ids : /\ table'[j].count = None <=> table[j].count = None
                                 /\ table'[j].rows = table[j].rows
      <3>1. table'[k].count \in Nat /\ table'[k].rows = table[k].rows
        BY <2>2
      <3> HIDE DEF k
      <3> QED
        BY <1>3, <2>2, <3>1, HistoryFits DEF History!HistoryFits
    <2>4. DB(table, made, cleared)'
      BY <1>1, <2>2, <2>3 DEF HInv, Always, DB
    <2>5. ASSUME ~spoilt PROVE Clean(statements', table', made)
      <3>1. Clean(statements, table, made) /\ statements \in Seq(Statement) /\ Tail(statements) \in Seq(Statement)
        BY <2>5, AtHand DEF HInv, Unspoilt
      <3>2. /\ \A i \in DOMAIN Tail(statements) : ~Recording(Tail(statements)[i])
            /\ Begun(Tail(statements), made) /\ Lines(Tail(statements), table)
            /\ \A j \in History!Ids : table[j].count # None => table[j].count = table[j].rows
        <4>1. DB(table, made, {})
          BY DEF HInv, Always, DB
        <4> QED
          BY ONLY <1>0, <3>1, <4>1, RestIsOthers, statements # <<>>
      <3>3. k \in 1 .. made
        BY <1>0, <3>1, AtHand DEF Clean, Begun
      <3>4. \A j \in History!Ids : table'[j].count # None =>
              table'[j].count = table'[j].rows + (IF next.op = "row" /\ next.id = j THEN 1 ELSE 0)
        <4> SUFFICES ASSUME NEW j \in History!Ids, table'[j].count # None
                     PROVE  table'[j].count = table'[j].rows + (IF j = k THEN 1 ELSE 0)
          BY <2>1
        <4>1. CASE j = k
          <5>1. table[k].count = table[k].rows /\ table'[k].count = table[k].count + 1
                /\ table'[k].rows = table[k].rows
            BY <1>0, <1>3, <2>2, <3>2
          <5> QED
            BY <4>1, <5>1
        <4>2. CASE j # k
          <5>1. table'[j] = table[j] /\ table[j].count = table[j].rows /\ table[j].rows \in Nat
            BY <2>2, <3>2, <4>2 DEF HInv, Always, DB
          <5> QED
            BY <4>2, <5>1
        <4> QED
          BY <4>1, <4>2
      <3>5. Lines(Tail(statements), table')
        <4> SUFFICES ASSUME NEW i \in DOMAIN Tail(statements), Tail(statements)[i].op = "spark",
                            table'[Tail(statements)[i].id].count # None
                     PROVE  table'[Tail(statements)[i].id].rows >= Tail(statements)[i].n
          BY DEF Lines
        <4>1. Tail(statements)[i].id \in History!Ids
          <5>1. Tail(statements)[i].id \in 1 .. made
            BY <3>2 DEF Begun
          <5> QED
            BY <5>1, HistoryFits DEF HInv, Always, DB, History!Ids, History!HistoryFits
        <4>2. table[Tail(statements)[i].id].count # None
              /\ table'[Tail(statements)[i].id].rows = table[Tail(statements)[i].id].rows
          BY <2>3, <4>1
        <4>3. \A j \in DOMAIN Tail(statements) : Tail(statements)[j].op # "row"
          BY <3>2 DEF Recording, History!Recording
        <4> QED
          BY <3>2, <4>2, <4>3 DEF Lines
      <3>6. Recording(next) /\ next.id \in 1 .. made
        BY <2>1, <3>3 DEF Recording, History!Recording
      <3>7. Clean(Append(Tail(statements), next), table', made)
        BY ONLY <2>1, <3>1, <3>2, <3>4, <3>5, <3>6, RecordingClean
      <3> QED
        BY <1>3, <3>7 DEF next
    <2>6. ~spoilt => \A j \in History!Ids : j > made => table'[j].rows = 0
      BY <2>3 DEF HInv, Unspoilt
    <2>7. "row" \in History!Recording
      BY DEF History!Recording
    <2> QED
      BY <1>0, <1>1, <1>2, <1>3, <2>3, <2>4, <2>5, <2>6, <2>7, Recorded
  <1>4. CASE /\ table' = table
             /\ statements' = Append(Tail(statements), [statements[1] EXCEPT !.op = "rollback"])
    <2>1. DB(table, made, cleared)'
      BY <1>1, <1>4 DEF HInv, Always
    <2>2. ~spoilt' => /\ Clean(statements', table', made)
                      /\ \A j \in History!Ids : j > made => table'[j].rows = 0
      BY <1>0, <1>1, <1>4, NothingRecorded
    <2>3. "rollback" \in History!Recording
      BY DEF History!Recording
    <2> QED
      BY <1>0, <1>1, <1>2, <1>4, <2>1, <2>2, <2>3, Recorded
  <1> QED
    BY <1>3, <1>4 DEF History!Count, History!Then, History!Rest

LEMMA ServesRow ==
  ASSUME HInv, statements # <<>>, statements[1].op = "row", History!Row(statements[1]), Unserved
  PROVE  HInv'
  <1> DEFINE k == statements[1].id
  <1>0. Recording(statements[1]) /\ k \in History!Ids
    BY AtHand DEF Recording, History!Recording, Fits
  <1>1. UNCHANGED <<made, held, cleared>> /\ History!shows' = History!shows
    BY DEF History!Row
  <1>2. HeldOK'
    BY <1>1 DEF HInv, Always, HeldOK
  <1>3. CASE /\ table' = [table EXCEPT ![k].rows = @ + 1] /\ spoilt' = spoilt
             /\ statements' = Append(Tail(statements), [statements[1] EXCEPT !.op = "commit"])
    <2> DEFINE next == [statements[1] EXCEPT !.op = "commit"]
    <2>1. next \in Statement /\ next.op = "commit" /\ next.id = k
      BY AtHand DEF Statement, History!Recording
    <2> HIDE DEF next
    <2>2. /\ \A j \in History!Ids : j # k => table'[j] = table[j]
          /\ table'[k] = [count |-> table[k].count, rows |-> table[k].rows + 1]
          /\ table' \in [History!Ids -> [count : Nat \cup {None}, rows : Nat]]
      <3>1. table \in [History!Ids -> [count : Nat \cup {None}, rows : Nat]]
        BY DEF HInv, Always, DB
      <3>2. PICK e : e = [count |-> table[k].count, rows |-> table[k].rows + 1]
        OBVIOUS
      <3>3. table' = [table EXCEPT ![k] = e] /\ e \in [count : Nat \cup {None}, rows : Nat]
        <4>1. table[k] \in [count : Nat \cup {None}, rows : Nat]
          BY <1>0, <3>1
        <4>2. [table[k] EXCEPT !.rows = @ + 1] = e /\ e \in [count : Nat \cup {None}, rows : Nat]
          BY <3>2, <4>1
        <4> HIDE DEF k
        <4> QED
          BY <1>0, <1>3, <3>1, <4>2
      <3> HIDE DEF k
      <3> QED
        BY <1>0, <3>1, <3>2, <3>3
    <2>3. \A j \in History!Ids : table'[j].count = table[j].count
      BY <2>2
    <2>4. DB(table, made, cleared)'
      BY <1>1, <2>2, <2>3 DEF HInv, Always, DB
    <2>5. ASSUME ~spoilt
          PROVE  Clean(statements', table', made) /\ \A j \in History!Ids : j > made => table'[j].rows = 0
      <3>1. Clean(statements, table, made) /\ statements \in Seq(Statement) /\ DB(table, made, cleared)
        BY <2>5, AtHand DEF HInv, Unspoilt, Always
      <3>2. \A i \in DOMAIN statements : statements[i].op = "spark" => statements[i].id \in History!Ids
        BY <3>1, HistoryFits DEF Clean, Begun, DB, History!Ids, History!HistoryFits
      <3>3. Clean(Append(Tail(statements), next), table', made)
        BY <1>0, <1>3, <2>1, <3>1, <3>2, RowClean
      <3>4. k \in 1 .. made
        BY <1>0, <3>1, AtHand DEF Clean, Begun
      <3>5. \A j \in History!Ids : j > made => table'[j].rows = 0
        <4>1. \A j \in History!Ids : j > made => j # k
          BY <3>1, <3>4 DEF DB, History!Ids
        <4> QED
          BY <2>2, <2>5, <4>1 DEF HInv, Unspoilt
      <3> QED
        BY <1>3, <3>3, <3>5 DEF next
    <2>6. "commit" \in History!Recording
      BY DEF History!Recording
    <2> QED
      BY <1>0, <1>1, <1>2, <1>3, <2>3, <2>4, <2>5, <2>6, Recorded
  <1>4. CASE /\ table' = table /\ spoilt' = TRUE
             /\ statements' = Append(Tail(statements), [statements[1] EXCEPT !.op = "rollback"])
    <2>1. DB(table, made, cleared)'
      BY <1>1, <1>4 DEF HInv, Always
    <2>2. "rollback" \in History!Recording
      BY DEF History!Recording
    <2> QED
      BY <1>0, <1>1, <1>2, <1>4, <2>1, <2>2, Recorded
  <1> QED
    BY <1>3, <1>4 DEF History!Row, History!Then, History!Rest

LEMMA ServesCommit ==
  ASSUME HInv, statements # <<>>, statements[1].op = "commit", History!Commit(statements[1]), Unserved
  PROVE  HInv'
  <1>1. Recording(statements[1]) /\ statements[1].op # "row"
    BY DEF Recording, History!Recording
  <1>2. /\ UNCHANGED <<table, made, cleared, spoilt>> /\ History!shows' = History!shows /\ held' = None
        /\ \/ statements' = Tail(statements)
           \/ statements' = Append(Tail(statements), [statements[1] EXCEPT !.op = "rollback"])
    BY DEF History!Commit, History!Then, History!Rest
  <1>3. DB(table, made, cleared)' /\ HeldOK'
    BY <1>2 DEF HInv, Always, HeldOK
  <1>4. ~spoilt' => /\ Clean(statements', table', made)
                    /\ \A k \in History!Ids : k > made => table'[k].rows = 0
    BY <1>1, <1>2, NothingRecorded
  <1>5. "rollback" \in History!Recording
    BY DEF History!Recording
  <1> QED
    BY <1>1, <1>2, <1>3, <1>4, <1>5, Recorded

\* What the rollback brings back was there when its transaction began.
LEMMA ServesRollback ==
  ASSUME HInv, statements # <<>>, statements[1].op = "rollback", History!Rollback, Unserved
  PROVE  HInv'
  <1>1. Recording(statements[1]) /\ statements[1].op # "row"
    BY DEF Recording, History!Recording
  <1>2. History!shows' = History!shows /\ held' = None /\ statements' = Tail(statements) /\ HeldOK'
    BY DEF History!Rollback, History!Rest, HeldOK
  <1>3. CASE held = None
    <2>1. UNCHANGED <<table, made, cleared, spoilt>>
      BY <1>3 DEF History!Rollback
    <2>2. DB(table, made, cleared)'
      BY <2>1 DEF HInv, Always
    <2>3. ~spoilt' => /\ Clean(statements', table', made)
                      /\ \A k \in History!Ids : k > made => table'[k].rows = 0
      BY <1>1, <1>2, <2>1, NothingRecorded
    <2> QED
      BY <1>1, <1>2, <2>1, <2>2, <2>3, Recorded
  <1>4. CASE held # None
    <2>1. /\ table' = held.table /\ made' = held.made /\ cleared' = held.cleared
          /\ spoilt' = (spoilt \/ held # History!Found)
      BY <1>4 DEF History!Rollback
    <2>2. DB(table, made, cleared)' /\ cleared' \subseteq cleared
      BY <1>4, <2>1 DEF HInv, Always, HeldOK
    <2>3. ASSUME ~spoilt' PROVE ~spoilt /\ table' = table /\ made' = made
      <3>1. ~spoilt /\ held = [table |-> table, made |-> made, cleared |-> cleared]
        BY <2>1, <2>3 DEF History!Found
      <3>2. held.table = table /\ held.made = made
        BY <3>1
      <3> QED
        BY <2>1, <3>1, <3>2
    <2>4. ~spoilt' => /\ Clean(statements', table', made)
                      /\ \A k \in History!Ids : k > made => table'[k].rows = 0
      BY <1>1, <1>2, <2>3, NothingRecorded
    <2> QED
      BY <1>1, <1>2, <2>2, <2>3, <2>4, Recorded
  <1> QED
    BY <1>3, <1>4

\* What a read or an answer leaves as it was, when the tables stay and nothing
\* but the statement in hand is gone.
LEMMA Answered ==
  ASSUME HInv, statements # <<>>, ~Recording(statements[1]), Unserved, History!tables' = History!tables,
         statements' = Tail(statements), spoilt' = spoilt,
         list' = list \/ list' = {},
         HalfRead(statements, table, half, visit)', Shown',
         ~spoilt => HalfCount(statements, table, half)' /\ CountOK' /\ Drawn(cache, table, made)'
  PROVE  HInv'
  <1>1. UNCHANGED <<table, made, held, cleared, current, focus, visit>>
    BY DEF Unserved, History!tables
  <1>2. InOrder(statements', focus, visit)
    BY AtHand
  <1>3. Always'
    <2>1. HeldOK' /\ History!ClearedIsGone'
      BY <1>1 DEF HInv, Always, HeldOK, History!ClearedIsGone
    <2> QED
      BY <1>1, <1>2, <2>1 DEF HInv, Always
  <1>4. ASSUME ~spoilt' PROVE Unspoilt'
    <2>1. Unspoilt /\ statements[1].op # "row"
      BY <1>4 DEF HInv, Recording, History!Recording
    <2>2. Clean(Tail(statements), table, made)
      BY <2>1, AtHand, ServedClean DEF Unspoilt
    <2> QED
      BY <1>1, <1>4, <2>1, <2>2 DEF Unspoilt, History!InTable
  <1> QED
    BY <1>3, <1>4 DEF HInv

LEMMA HalfNothing ==
  ASSUME half' = None
  PROVE  HalfRead(statements, table, half, visit)' /\ HalfCount(statements, table, half)'
  BY DEF HalfRead, HalfCount

\* The list's answer, if the list is still in front, asks for the lines.
LEMMA ServesList ==
  ASSUME HInv, statements # <<>>, statements[1].op = "list", History!Listed(statements[1]), Unserved
  PROVE  HInv'
  <1>1. /\ UNCHANGED <<table, made, held, cleared, current, focus, visit, detail, half, cache, spoilt>>
        /\ History!tables' = History!tables
    BY DEF Unserved, History!Listed, History!tables
  <1>2. half = None /\ ~Recording(statements[1]) /\ statements[1].op # "row"
    BY HalfIdle DEF Recording, History!Recording
  <1>3. CASE (list' = list \/ list' = {}) /\ statements' = Tail(statements)
    <2>1. HalfRead(statements, table, half, visit)' /\ HalfCount(statements, table, half)'
      BY <1>1, <1>2, HalfNothing
    <2>2. Shown' /\ (~spoilt => CountOK' /\ Drawn(cache, table, made)')
      BY <1>1 DEF HInv, Always, Unspoilt, Shown, CountOK
    <2> QED
      BY <1>1, <1>2, <1>3, <2>1, <2>2, Answered
  <1>4. CASE /\ list' = History!Summary
             /\ statements' = Tail(statements) \o History!Sparks(History!Summary)
    <2> DEFINE add == History!Sparks(History!Summary)
    <2>1. /\ add \in Seq(Statement)
          /\ \A i \in DOMAIN add :
               /\ add[i].op = "spark" /\ add[i].id \in 1 .. made /\ add[i].id \in History!Ids
               /\ table[add[i].id].count # None /\ add[i].n = table[add[i].id].count
      BY Sparking DEF HInv, Always
    <2>2. statements' = Tail(statements) \o add
      BY <1>4
    <2> HIDE DEF add
    <2>3. InPairs(add)
      BY <2>1 DEF InPairs
    <2>4. \A i \in DOMAIN add : Fits(add[i], focus, visit) /\ ~Recording(add[i]) /\ add[i].op # "passes"
      BY <2>1 DEF Fits, Recording, History!Recording
    <2>5. InOrder(statements', focus, visit)
      BY <2>1, <2>2, <2>3, <2>4, AtHand, JoinedOrder
    <2>6. Always'
      <3>1. HalfRead(statements, table, half, visit)' /\ Shown' /\ HeldOK'
        BY <1>1, <1>2, HalfNothing DEF HInv, Always, Shown, HeldOK
      <3>2. History!ClearedIsGone'
        <4>1. \A t \in History!Summary : t.id \in History!Ids /\ table[t.id].count # None
          BY DEF History!Summary, History!InTable
        <4> QED
          BY <1>1, <1>4, <4>1 DEF HInv, Always, DB, History!ClearedIsGone
      <3> QED
        BY <1>1, <2>5, <3>1, <3>2 DEF HInv, Always
    <2>7. ASSUME ~spoilt' PROVE Unspoilt'
      <3>1. Unspoilt
        BY <1>1, <2>7 DEF HInv
      <3>2. Clean(Tail(statements), table, made)
        BY <1>2, <3>1, AtHand, ServedClean DEF Unspoilt
      <3>3. ASSUME NEW i \in DOMAIN add
            PROVE  \/ table[add[i].id].rows >= add[i].n
                   \/ table[add[i].id].rows + 1 = add[i].n /\ Behind(Tail(statements), add[i].id)
        <4> DEFINE k == add[i].id
        <4>1. k \in History!Ids /\ table[k].count # None /\ add[i].n = table[k].count
          BY <2>1
        <4> HIDE DEF k
        <4>2. table[k].rows \in Nat
          BY <4>1 DEF HInv, Always, DB
        <4>3. table[k].count = table[k].rows + (IF Behind(Tail(statements), k) THEN 1 ELSE 0)
          BY <3>2, <4>1 DEF Clean, Counted
        <4>4. \/ table[k].rows >= add[i].n
              \/ table[k].rows + 1 = add[i].n /\ Behind(Tail(statements), k)
          BY <4>1, <4>2, <4>3
        <4> QED
          BY <4>4 DEF k
      <3>4. Clean(Tail(statements) \o add, table, made)
        BY <2>1, <2>4, <3>2, <3>3, AtHand, JoinedClean
      <3>5. HalfCount(statements, table, half)' /\ CountOK'
        BY <1>1, <1>2, <3>1, HalfNothing DEF Unspoilt, CountOK
      <3>6. (list # None => \A t \in list : t.id \in History!InTable)'
        BY <1>1, <1>4 DEF History!Summary, History!InTable
      <3> QED
        BY <1>1, <2>2, <3>1, <3>4, <3>5, <3>6 DEF Unspoilt
    <2> QED
      BY <2>6, <2>7 DEF HInv
  <1> QED
    BY <1>3, <1>4 DEF History!Listed, History!Rest

\* A reload that fails shows nothing below the header it has.
LEMMA Failing ==
  ASSUME HInv, half # None \/ detail # None, History!Fails, UNCHANGED focus
  PROVE  Shown' /\ CountOK'
  <1>1. detail \in Detail /\ focus \in {detail.id, History!Away}
    BY DEF HInv, Always, Shown
  <1>2. detail' = [detail EXCEPT !.passes = 0, !.whole = FALSE]
    BY DEF History!Fails
  <1>3. /\ detail' \in Detail /\ detail'.id = detail.id /\ detail'.passes = 0 /\ ~detail'.whole
    BY <1>1, <1>2 DEF Detail
  <1> QED
    BY <1>1, <1>3 DEF Shown, CountOK

\* The header's answer waits for the passes', which is served next.
LEMMA ServesHeader ==
  ASSUME HInv, statements # <<>>, statements[1].op = "header", History!Header(statements[1]), Unserved
  PROVE  HInv'
  <1> DEFINE s == statements[1]
             r == Tail(statements)
  <1>1. /\ UNCHANGED <<table, made, held, cleared, current, focus, visit, list, cache, spoilt>>
        /\ History!tables' = History!tables /\ statements' = r
    BY DEF Unserved, History!Header, History!tables, History!Rest
  <1>2. half = None /\ ~Recording(s)
    BY HalfIdle DEF Recording, History!Recording
  <1>3. /\ s.id \in History!Ids /\ (s.visit = visit => s.id = focus)
        /\ r # <<>> /\ r[1].op = "passes" /\ r[1].id = s.id /\ r[1].visit = s.visit
    <2>1. 2 \in DOMAIN statements /\ statements[2].op = "passes"
          /\ statements[2].id = s.id /\ statements[2].visit = s.visit
      BY AtHand DEF InPairs
    <2>2. r \in Seq(Statement) /\ 2 - 1 \in DOMAIN r /\ r[2 - 1] = statements[2]
      <3>1. 2 \in DOMAIN statements \ {1} /\ statements \in Seq(Statement)
        BY <2>1, AtHand
      <3> QED
        BY <3>1, TailOf
    <2>3. r # <<>> /\ r[1] = statements[2]
      <3> HIDE DEF r
      <3>1. 1 \in DOMAIN r /\ r[1] = statements[2]
        BY <2>2
      <3> QED
        BY <2>2, <3>1
    <2> QED
      BY <2>1, <2>3, AtHand DEF Fits
  <1>4. CASE UNCHANGED <<detail, half>>
    <2>1. HalfRead(statements, table, half, visit)' /\ HalfCount(statements, table, half)'
      BY <1>2, <1>4, HalfNothing
    <2>2. Shown' /\ (~spoilt => CountOK' /\ Drawn(cache, table, made)')
      BY <1>1, <1>4 DEF HInv, Always, Unspoilt, Shown, CountOK
    <2> QED
      BY <1>1, <1>2, <1>4, <2>1, <2>2, Answered
  <1>5. ASSUME History!Active(s), detail # None,
               half' = [count |-> table[s.id].count, asOf |-> table[detail.id]], detail' = detail
        PROVE  HInv'
    <2>1. detail.id = s.id
      <3>1. focus \in {detail.id, History!Away} /\ focus = s.id /\ s.id # History!Away
        BY <1>3, <1>5, HistoryFits
           DEF HInv, Always, Shown, History!Active, History!Away, History!Ids, History!HistoryFits
      <3> QED
        BY <3>1
    <2>2. /\ half'.count = table[s.id].count /\ half'.asOf = table[s.id]
          /\ table[s.id].count \in Nat \cup {None}
          /\ table[s.id] = [count |-> table[s.id].count, rows |-> table[s.id].rows]
      BY <1>3, <1>5, <2>1 DEF HInv, Always, DB
    <2>3. HalfRead(statements, table, half, visit)'
      BY <1>1, <1>3, <1>5, <2>2 DEF HalfRead, History!Active
    <2>4. HalfCount(statements, table, half)'
      BY <1>1, <1>3, <2>2 DEF HalfCount
    <2>5. Shown' /\ (~spoilt => CountOK' /\ Drawn(cache, table, made)')
      BY <1>1, <1>5 DEF HInv, Always, Unspoilt, Shown, CountOK
    <2> QED
      BY <1>1, <1>2, <2>3, <2>4, <2>5, Answered
  <1>6. ASSUME History!Active(s), detail # None, half' = [count |-> None, asOf |-> None], History!Fails
        PROVE  HInv'
    <2>1. half'.count = None /\ half'.asOf = None
      BY <1>6
    <2>2. HalfRead(statements, table, half, visit)' /\ HalfCount(statements, table, half)'
      BY <1>1, <1>3, <1>6, <2>1 DEF HalfRead, HalfCount, History!Active
    <2>5. Shown' /\ CountOK'
      BY <1>1, <1>6, Failing
    <2>6. ~spoilt => Drawn(cache, table, made)'
      BY <1>1 DEF HInv, Unspoilt
    <2> QED
      BY <1>1, <1>2, <2>2, <2>5, <2>6, Answered
  <1> QED
    BY <1>4, <1>5, <1>6 DEF History!Header

\* The passes' answer shows both, or neither.
LEMMA ServesPasses ==
  ASSUME HInv, statements # <<>>, statements[1].op = "passes", History!Passes(statements[1]), Unserved
  PROVE  HInv'
  <1> DEFINE s == statements[1]
  <1>1. /\ UNCHANGED <<table, made, held, cleared, current, focus, visit, list, cache, spoilt>>
        /\ History!tables' = History!tables /\ statements' = Tail(statements)
    BY DEF Unserved, History!Passes, History!tables, History!Rest
  <1>2. ~Recording(s) /\ s.id \in History!Ids
    BY AtHand DEF Recording, History!Recording, Fits
  <1>3. half # None => s.visit = visit
    BY DEF HInv, Always, HalfRead
  <1>4. half' = None
    BY <1>3 DEF History!Passes, History!Active
  <1>5. HalfRead(statements, table, half, visit)' /\ HalfCount(statements, table, half)'
    BY <1>4, HalfNothing
  <1>6. ~spoilt => Drawn(cache, table, made)'
    BY <1>1 DEF HInv, Unspoilt
  <1>7. Shown' /\ (~spoilt => CountOK')
    <2>1. CASE detail' = detail
      BY <1>1, <1>4, <2>1 DEF HInv, Always, Unspoilt, Shown, CountOK
    <2>2. CASE half # None /\ History!Fails
      BY <1>1, <2>2, Failing
    <2>3. CASE /\ half # None /\ half.asOf # None
               /\ detail' = [detail EXCEPT !.count = half.count, !.passes = History!Rows(s.id),
                                           !.asOf = half.asOf, !.whole = TRUE]
      <3>1. half.count \in Nat \cup {None} /\ half.asOf = [count |-> half.count, rows |-> table[s.id].rows]
        BY <2>3 DEF HInv, Always, HalfRead
      <3>2. table[s.id].rows \in Nat /\ History!Rows(s.id) = table[s.id].rows
        BY <1>2 DEF HInv, Always, DB, History!Rows
      <3>3. detail \in Detail /\ focus \in {detail.id, History!Away}
        BY <2>3 DEF HInv, Always, Shown
      <3>4. half.asOf \in Entry
        BY <3>1, <3>2 DEF Entry
      <3>5. /\ detail' \in Detail /\ detail'.id = detail.id /\ detail'.count = half.count
            /\ detail'.passes = table[s.id].rows /\ detail'.asOf = half.asOf /\ detail'.whole
        BY <2>3, <3>1, <3>2, <3>3, <3>4 DEF Detail
      <3>6. Shown'
        BY <1>1, <1>4, <3>1, <3>3, <3>5 DEF Shown
      <3>7. ASSUME ~spoilt, half.count # None
            PROVE  half.count \in {table[s.id].rows, table[s.id].rows + 1}
        <4>1. table[s.id].count = half.count
          BY <2>3, <3>7 DEF HInv, Unspoilt, HalfCount
        <4>2. table[s.id].count = table[s.id].rows + (IF Behind(statements, s.id) THEN 1 ELSE 0)
          BY <1>2, <3>7, <4>1 DEF HInv, Unspoilt, Clean, Counted
        <4> QED
          BY <3>2, <4>1, <4>2
      <3> QED
        BY <3>5, <3>6, <3>7 DEF CountOK
    <2> QED
      BY <1>3, <2>1, <2>2, <2>3 DEF History!Passes
  <1> QED
    BY <1>1, <1>2, <1>5, <1>6, <1>7, Answered

\* A line is drawn once the rows its ticket counted are in.
LEMMA ServesSpark ==
  ASSUME HInv, statements # <<>>, statements[1].op = "spark", History!Sparked(statements[1]), Unserved
  PROVE  HInv'
  <1> DEFINE s == statements[1]
             e == [id |-> s.id, count |-> s.n, rows |-> History!Rows(s.id)]
  <1>1. /\ UNCHANGED <<table, made, held, cleared, current, focus, visit, list, detail, half, spoilt>>
        /\ History!tables' = History!tables /\ statements' = Tail(statements)
        /\ cache' = History!Insert(e) \/ cache' = cache
    BY DEF Unserved, History!Sparked, History!tables, History!Rest
  <1>2. half = None /\ ~Recording(s)
    BY HalfIdle DEF Recording, History!Recording
  <1>3. HalfRead(statements, table, half, visit)' /\ HalfCount(statements, table, half)'
    BY <1>1, <1>2, HalfNothing
  <1>4. Shown' /\ (~spoilt => CountOK')
    BY <1>1 DEF HInv, Always, Unspoilt, Shown, CountOK
  <1>5. ASSUME ~spoilt PROVE Drawn(cache, table, made)'
    <2>1. Drawn(cache, table, made) /\ Clean(statements, table, made)
      BY <1>5 DEF HInv, Unspoilt
    <2>2. s.id \in 1 .. made /\ s.id \in History!Ids /\ s.id \in Nat /\ s.n \in Nat
      <3>1. s.id \in 1 .. made /\ s \in Statement
        BY <2>1, AtHand DEF Clean, Begun
      <3> QED
        BY <3>1, HistoryFits DEF Statement, HInv, Always, DB, History!Ids, History!HistoryFits
    <2>3. History!Rows(s.id) = table[s.id].rows /\ table[s.id].rows \in Nat
      BY <2>2 DEF History!Rows, HInv, Always, DB
    <2>4. table[s.id].count # None => table[s.id].rows >= s.n
      <3>1. \A j \in DOMAIN statements : ~(j < 1)
        BY AtHand
      <3> QED
        BY <2>1, <3>1, AtHand DEF Clean, Lines
    <2>5. e \in [id : Nat, count : Nat, rows : Nat] /\ e.id \in 1 .. made
          /\ (table[e.id].count # None => e.rows >= e.count)
      BY <2>2, <2>3, <2>4
    <2> HIDE DEF e
    <2>6. Drawn(History!Insert(e), table, made)
      BY <2>1, <2>5, Inserting
    <2> QED
      BY <1>1, <2>1, <2>6
  <1> QED
    BY <1>1, <1>2, <1>3, <1>4, <1>5, Answered

\* A clear that is not half done leaves no session, no line and no ticket.
LEMMA ServesClear ==
  ASSUME HInv, statements # <<>>, statements[1].op = "clear", History!Cleared, Unserved
  PROVE  HInv'
  <1>1. /\ UNCHANGED <<made, held, current, focus, visit, detail, half>>
        /\ statements' = Tail(statements)
    BY DEF Unserved, History!Cleared, History!Rest
  <1>2. half = None /\ ~Recording(statements[1]) /\ statements[1].op # "row"
    BY HalfIdle DEF Recording, History!Recording
  <1>3. InOrder(statements', focus, visit)
    BY <1>1, AtHand
  <1>4. HalfRead(statements, table, half, visit)' /\ HalfCount(statements, table, half)'
    BY <1>1, <1>2, HalfNothing
  <1>5. Shown' /\ (CountOK => CountOK')
    BY <1>1 DEF HInv, Always, Shown, CountOK
  <1>6. CASE /\ table' = [i \in History!Ids |-> History!Absent]
             /\ cleared' = cleared \cup History!InTable
             /\ cache' = <<>> /\ list' = {} /\ spoilt' = spoilt
    <2>1. \A k \in History!Ids : table'[k] = [count |-> None, rows |-> 0]
      BY <1>6 DEF History!Absent
    <2>2. History!InTable \subseteq 1 .. made
      BY DEF HInv, Always, DB, History!InTable, History!Ids
    <2>3. DB(table, made, cleared)'
      <3>1. table' \in [History!Ids -> [count : Nat \cup {None}, rows : Nat]]
        BY <1>6 DEF History!Absent
      <3> QED
        BY <1>1, <1>6, <2>1, <2>2, <3>1 DEF HInv, Always, DB
    <2>4. HeldOK' /\ History!ClearedIsGone'
      BY <1>1, <1>6 DEF HInv, Always, HeldOK, History!ClearedIsGone
    <2>5. Always'
      BY <1>1, <1>3, <1>4, <1>5, <2>3, <2>4 DEF HInv, Always
    <2>6. ASSUME ~spoilt' PROVE Unspoilt'
      <3>1. Unspoilt
        BY <1>6, <2>6 DEF HInv
      <3>2. Clean(Tail(statements), table, made) /\ made \in 0 .. MaxSessions
        BY <1>2, <3>1, AtHand, ServedClean DEF Unspoilt, HInv, Always, DB
      <3>3. \A k \in 1 .. made : k \in History!Ids
        BY <3>2, HistoryFits DEF History!Ids, History!HistoryFits
      <3>4. Clean(Tail(statements), table', made)
        BY <2>1, <3>2, <3>3 DEF Clean, Counted, Lines, Begun
      <3>5. Drawn(cache', table', made)
        BY <1>6 DEF Drawn
      <3> QED
        BY <1>1, <1>4, <1>5, <1>6, <2>1, <3>1, <3>4, <3>5 DEF Unspoilt
    <2> QED
      BY <2>5, <2>6 DEF HInv
  <1>7. CASE UNCHANGED <<table, cleared, cache, list, spoilt>>
    <2>1. ~spoilt => CountOK' /\ Drawn(cache, table, made)'
      BY <1>1, <1>5, <1>7 DEF HInv, Unspoilt
    <2>2. History!tables' = History!tables
      BY <1>1, <1>7 DEF History!tables
    <2> QED
      BY <1>1, <1>2, <1>4, <1>5, <1>7, <2>1, <2>2, Answered
  <1>8. CASE /\ table' = [i \in History!Ids |-> [table[i] EXCEPT !.rows = 0]] /\ spoilt' = TRUE
             /\ UNCHANGED <<cleared, cache, list>>
    <2>1. \A k \in History!Ids : table'[k] \in [count : Nat \cup {None}, rows : Nat]
                                 /\ table'[k].count = table[k].count
      BY <1>8 DEF HInv, Always, DB
    <2>2. table' \in [History!Ids -> [count : Nat \cup {None}, rows : Nat]]
      BY <1>8, <2>1
    <2>3. DB(table, made, cleared)'
      BY <1>1, <1>8, <2>1, <2>2 DEF HInv, Always, DB
    <2>4. HeldOK' /\ History!ClearedIsGone'
      BY <1>1, <1>8 DEF HInv, Always, HeldOK, History!ClearedIsGone
    <2> QED
      BY <1>1, <1>3, <1>4, <1>5, <1>8, <2>3, <2>4 DEF HInv, Always
  <1> QED
    BY <1>6, <1>7, <1>8 DEF History!Cleared, History!ClearsList

LEMMA HistoryPreserved == ASSUME HInv, [History!Next]_historyVars PROVE HInv'
  <1>1. CASE History!Open \/ UNCHANGED historyVars
    BY <1>1, HistoryOpens
  <1>2. CASE History!StartSession \/ History!AddPass \/ History!Clear
    BY <1>2, HistoryStarts, HistoryPasses, HistoryClears
  <1>3. CASE \E s \in History!Screens : History!Focus(s)
    BY <1>3, HistoryFocuses
  <1>4. CASE History!Serve
    <2>1. statements # <<>> /\ Unserved /\ Head(statements) = statements[1]
      BY <1>4, AtHand DEF History!Serve, Unserved
    <2> QED
      BY <1>4, <2>1, ServesBegin, ServesCount, ServesRow, ServesCommit, ServesRollback,
         ServesList, ServesHeader, ServesPasses, ServesSpark, ServesClear
         DEF History!Serve
  <1> QED
    BY <1>1, <1>2, <1>3, <1>4 DEF History!Next

-----------------------------------------------------------------------------
(* The settings: a field that is not being edited shows the stored name.    *)

Stands(name) == Trimmed[name] = name /\ name # ""

SInv ==
  /\ row \in Stored
  /\ DOMAIN shown = {"name", "laps", "calibration", "unit", "haptics"}
  /\ Stands(shown.name)
  /\ draft \in Drafts \/ Stands(draft)
  /\ ~dirty => draft = shown.name

LEMMA SettingsInitially == ASSUME Settings!Init PROVE SInv
  BY SettingsFit DEF Settings!SettingsFit, Settings!Init, Settings!DEFAULT_SETTINGS, SInv, Stands

\* Everything but the name may be set at any time.
LEMMA Setting ==
  ASSUME SInv, NEW changed, Settings!Set(changed), DOMAIN changed = DOMAIN shown, changed.name = shown.name
  PROVE  SInv' /\ shown'.name = shown.name
  BY DEF SInv, Stands, Settings!Set

LEMMA SettingsPreserved ==
  ASSUME SInv, Settings!Next
  PROVE  /\ SInv'
         /\ hydrated /\ shown'.name # shown.name => dirty \/ (asked /\ shown' = Settings!DEFAULT_SETTINGS)
  <1> DEFINE Told == hydrated /\ shown'.name # shown.name => dirty \/ (asked /\ shown' = Settings!DEFAULT_SETTINGS)
  <1>0. /\ DOMAIN Settings!DEFAULT_SETTINGS = {"name", "laps", "calibration", "unit", "haptics"}
        /\ Settings!DEFAULT_SETTINGS.name = "Player 1" /\ Stands("Player 1")
    BY SettingsFit DEF Settings!SettingsFit, Settings!DEFAULT_SETTINGS, Stands
  <1>1. CASE Settings!Hydrate
    <2>1. DOMAIN shown' = DOMAIN Settings!DEFAULT_SETTINGS /\ shown'.name = row.name
      BY <1>1, <1>0 DEF Settings!Hydrate, Settings!Coerced
    <2>2. Stands(row.name)
      BY SettingsFit DEF Settings!SettingsFit, Stands, SInv
    <2> QED
      BY <1>0, <1>1, <2>1, <2>2 DEF Settings!Hydrate, Settings!DraftFollows, SInv, Stands
  <1>2. CASE Settings!commitName
    <2> DEFINE next == IF Trimmed[draft] = "" THEN Settings!DEFAULT_SETTINGS.name ELSE Trimmed[draft]
    <2>1. /\ draft' = next /\ shown' = [shown EXCEPT !.name = next] /\ ~dirty' /\ row' = row
      BY <1>2 DEF Settings!commitName
    <2>2. Stands(next)
      BY <1>0, SettingsFit DEF Settings!SettingsFit, SInv, Stands
    <2>3. ~dirty => next = shown.name
      BY DEF SInv, Stands
    <2> HIDE DEF next
    <2>4. DOMAIN shown' = DOMAIN shown /\ shown'.name = next
      BY <2>1 DEF SInv
    <2> QED
      BY <2>1, <2>2, <2>3, <2>4 DEF SInv, Stands
  <1>3. CASE Settings!Toggle
    <2>1. ASSUME NEW u, Settings!Set([shown EXCEPT !.unit = u]) PROVE SInv' /\ shown'.name = shown.name
      BY <2>1, Setting DEF SInv
    <2>2. ASSUME Settings!Set([shown EXCEPT !.haptics = ~@]) PROVE SInv' /\ shown'.name = shown.name
      BY <2>2, Setting DEF SInv
    <2> QED
      BY <1>3, <2>1, <2>2 DEF Settings!Toggle
  <1>4. ASSUME NEW direction \in {-1, 1}, Settings!stepLaps(direction) PROVE SInv' /\ shown'.name = shown.name
    BY <1>4, Setting DEF Settings!stepLaps, SInv
  <1>5. ASSUME NEW direction \in {-1, 1}, Settings!nudgeCalibration(direction) PROVE SInv' /\ shown'.name = shown.name
    BY <1>5, Setting DEF Settings!nudgeCalibration, SInv
  <1>6. CASE Settings!confirmReset \/ Settings!Cancel
    BY <1>6 DEF Settings!confirmReset, Settings!Cancel, SInv, Stands
  <1>7. CASE Settings!Reset
    BY <1>0, <1>7 DEF Settings!Reset, SInv, Stands
  <1>8. ASSUME NEW text \in Drafts, Settings!editName(text) PROVE SInv' /\ shown'.name = shown.name
    BY <1>8 DEF Settings!editName, SInv, Stands
  <1>9. ASSUME NEW mode \in {"live", "demo"}, Settings!setMode(mode) PROVE SInv' /\ shown'.name = shown.name
    BY <1>9 DEF Settings!setMode, SInv, Stands
  <1>10. SInv' /\ Told
    <2>1. CASE Settings!Hydrate
      BY <1>1, <2>1 DEF Settings!Hydrate
    <2>2. CASE Settings!commitName
      BY <1>2, <2>2
    <2>3. CASE Settings!Reset
      BY <1>7, <2>3 DEF Settings!Reset
    <2>4. CASE Settings!confirmReset \/ Settings!Cancel
      BY <1>6, <2>4 DEF Settings!confirmReset, Settings!Cancel
    <2>5. CASE ~(Settings!Hydrate \/ Settings!commitName \/ Settings!Reset \/ Settings!confirmReset \/ Settings!Cancel)
      BY <1>3, <1>4, <1>5, <1>8, <1>9, <2>5 DEF Settings!Next
    <2> QED
      BY <2>1, <2>2, <2>3, <2>4, <2>5
  <1> QED
    BY <1>10

-----------------------------------------------------------------------------
(* The mock portal: its connect comes before anything else of a start.      *)

Doing == {"connect", "car", "pass"}

\* A connect still to come: nothing was told, and all else comes after it.
Connecting(c) ==
  /\ connection = "connecting" /\ seen = <<>> /\ loop.left > c.left
  /\ \A t \in timers : t.does # "connect" => t.left > c.left

Told ==
  /\ seen \in Seq(Doing)
  /\ \A i \in DOMAIN seen : (i = 1) <=> (seen[i] = "connect")
  /\ \A i, j \in DOMAIN seen : seen[i] = "car" /\ seen[j] = "car" => i = j

MInv ==
  /\ running \in BOOLEAN /\ loop \in [left : Nat, gap : Nat]
  /\ timers \subseteq [does : Doing, left : Nat]
  /\ Told
  /\ ~running => timers = {} /\ loop = Mock!NoLoop /\ connection = "disconnected"
  /\ \A s, t \in timers : s.does = t.does => s = t
  /\ \A c \in timers : c.does = "connect" => Connecting(c)
  /\ running /\ (\A t \in timers : t.does # "connect") => connection = "connected" /\ seen # <<>>
  /\ \A t \in timers : t.does = "car" => \A i \in DOMAIN seen : seen[i] # "car"

LEMMA MockInitially == ASSUME Mock!Init PROVE MInv
  <1>1. seen = <<>> /\ loop = [left |-> 0, gap |-> 0] /\ running = FALSE
    BY DEF Mock!Init, Mock!NoLoop
  <1>2. Told
    BY <1>1 DEF Told
  <1>3. running \in BOOLEAN /\ loop \in [left : Nat, gap : Nat]
    BY <1>1
  <1> QED
    BY <1>2, <1>3 DEF Mock!Init, MInv

\* What is told once connected comes after the connect.
LEMMA Telling ==
  ASSUME Told, seen # <<>>, NEW what \in {"car", "pass"}, seen' = Append(seen, what),
         what = "car" => \A i \in DOMAIN seen : seen[i] # "car"
  PROVE  /\ Told' /\ seen' # <<>>
         /\ (\A i \in DOMAIN seen : seen[i] # "car") /\ what = "pass" =>
              \A i \in DOMAIN seen' : seen'[i] # "car"
  <1>1. /\ seen' \in Seq(Doing) /\ Len(seen) \in Nat \ {0} /\ DOMAIN seen = 1 .. Len(seen)
        /\ DOMAIN seen' = 1 .. Len(seen) + 1 /\ seen' # <<>>
        /\ seen'[Len(seen) + 1] = what /\ \A i \in 1 .. Len(seen) : seen'[i] = seen[i]
    BY DEF Told, Doing
  <1>2. \A i \in DOMAIN seen' : \/ i = Len(seen) + 1 /\ seen'[i] = what
                                \/ i \in DOMAIN seen /\ seen'[i] = seen[i]
    BY <1>1
  <1>3. \A i \in DOMAIN seen' : (i = 1) <=> (seen'[i] = "connect")
    BY <1>1, <1>2 DEF Told
  <1> QED
    BY <1>1, <1>2, <1>3 DEF Told

LEMMA MockStarts == ASSUME MInv, Mock!Start PROVE MInv'
  <1>1. /\ timers' = Mock!Armed /\ running' /\ connection' = "connecting" /\ seen' = <<>>
        /\ running' \in BOOLEAN
    BY DEF MInv, Mock!Start
  <1>2. loop' \in [left : Nat, gap : Nat] /\ loop'.left > 3
    BY GapsFit DEF Mock!GapsFit, Mock!Start
  <1>3. /\ timers' \subseteq [does : Doing, left : Nat]
        /\ \A t \in timers' : /\ t.does = "connect" => t.left = 3
                              /\ t.does # "connect" => t.left > 3
        /\ \A s, t \in timers' : s.does = t.does => s = t
        /\ \E t \in timers' : t.does = "connect"
    BY <1>1 DEF Mock!Armed, Doing
  <1>4. Told'
    BY <1>1 DEF Told
  <1>5. \A c \in timers' : c.does = "connect" => Connecting(c)'
    <2> SUFFICES ASSUME NEW c \in timers', c.does = "connect" PROVE Connecting(c)'
      OBVIOUS
    <2> QED
      BY <1>1, <1>2, <1>3 DEF Connecting
  <1> QED
    BY <1>1, <1>2, <1>3, <1>4, <1>5 DEF MInv

LEMMA MockFires == ASSUME MInv, NEW t \in timers, Mock!Fire(t) PROVE MInv'
  <1>1. /\ running /\ t \in [does : Doing, left : Nat] /\ t.left = 0
        /\ timers' = timers \ {t} /\ UNCHANGED <<running, loop>>
        /\ connection' = (IF t.does = "connect" THEN "connected" ELSE connection)
        /\ seen' = Append(seen, t.does)
    BY DEF MInv, Mock!Fire, Mock!Emit
  <1>2. \A c \in timers : c.does = "connect" => c = t
    BY <1>1 DEF MInv, Connecting
  <1>3. \A c \in timers' : c.does # "connect"
    BY <1>1, <1>2
  <1>4. CASE t.does = "connect"
    <2>1. seen = <<>> /\ connection' = "connected"
      BY <1>1, <1>4 DEF MInv, Connecting
    <2>2. seen' = <<"connect">>
      BY <1>1, <1>4, <2>1
    <2>3. Told' /\ seen' # <<>> /\ \A i \in DOMAIN seen' : seen'[i] # "car"
      BY <2>2 DEF Told, Doing
    <2> QED
      BY <1>1, <1>3, <2>1, <2>3 DEF MInv
  <1>5. CASE t.does \in {"car", "pass"}
    <2>1. connection = "connected" /\ seen # <<>>
      BY <1>1, <1>2, <1>5 DEF MInv
    <2>2. /\ Told' /\ seen' # <<>>
          /\ (\A i \in DOMAIN seen : seen[i] # "car") /\ t.does = "pass" =>
               \A i \in DOMAIN seen' : seen'[i] # "car"
      BY <1>1, <1>5, <2>1, Telling DEF MInv
    <2>3. \A c \in timers' : c.does = "car" => \A i \in DOMAIN seen' : seen'[i] # "car"
      BY <1>1, <1>5, <2>2 DEF MInv
    <2> QED
      BY <1>1, <1>3, <1>5, <2>1, <2>2, <2>3 DEF MInv
  <1> QED
    BY <1>1, <1>4, <1>5 DEF Doing

\* A pass that no timer of the start brings: the loop's, or the button's.
LEMMA MockPasses ==
  ASSUME MInv, Mock!Loop \/ Mock!triggerPass
  PROVE  MInv'
  <1>1. (loop # Mock!NoLoop /\ loop.left = 0) \/ connection = "connected"
    BY DEF Mock!Loop, Mock!triggerPass
  <1>2. running
    BY <1>1 DEF MInv
  <1>3. \A c \in timers : c.does # "connect"
    BY <1>1 DEF MInv, Connecting
  <1>4. connection = "connected" /\ seen # <<>>
    BY <1>2, <1>3 DEF MInv
  <1>5. seen' = Append(seen, "pass") /\ connection' = connection /\ UNCHANGED <<running, timers>>
    BY <1>2 DEF Mock!Loop, Mock!triggerPass, Mock!Emit
  <1>6. loop' \in [left : Nat, gap : Nat]
    BY DEF MInv, Mock!Loop, Mock!triggerPass
  <1>7. /\ Told' /\ seen' # <<>>
        /\ (\A i \in DOMAIN seen : seen[i] # "car") => \A i \in DOMAIN seen' : seen'[i] # "car"
    BY <1>4, <1>5, Telling DEF MInv
  <1> QED
    BY <1>2, <1>3, <1>4, <1>5, <1>6, <1>7 DEF MInv

\* Time passes for all of them alike.
LEMMA MockTime == ASSUME MInv, Mock!Pass PROVE MInv'
  <1>1. /\ UNCHANGED <<running, connection, seen>> /\ \A t \in timers : t.left > 0
        /\ loop # Mock!NoLoop => loop.left > 0
        /\ timers # {} \/ loop # Mock!NoLoop
        /\ timers' = {[t EXCEPT !.left = @ - 1] : t \in timers}
        /\ loop' = IF loop = Mock!NoLoop THEN loop ELSE [loop EXCEPT !.left = @ - 1]
    BY DEF Mock!Pass
  <1>2. running
    BY <1>1 DEF MInv
  <1>3. /\ loop' \in [left : Nat, gap : Nat]
        /\ loop.left > 0 => loop'.left = loop.left - 1
    BY <1>1 DEF MInv, Mock!NoLoop
  <1>4. ASSUME NEW s \in timers'
        PROVE  \E t \in timers : /\ t \in [does : Doing, left : Nat] /\ t.left > 0
                                 /\ s = [t EXCEPT !.left = @ - 1]
                                 /\ s \in [does : Doing, left : Nat]
                                 /\ s.does = t.does /\ s.left = t.left - 1
    <2>1. PICK t \in timers : s = [t EXCEPT !.left = @ - 1]
      BY <1>1
    <2>2. t \in [does : Doing, left : Nat] /\ t.left > 0
      BY <1>1 DEF MInv
    <2>3. s \in [does : Doing, left : Nat] /\ s.does = t.does /\ s.left = t.left - 1
      BY <2>1, <2>2
    <2> QED
      BY <2>1, <2>2, <2>3
  <1>5. \A s, t \in timers' : s.does = t.does => s = t
    BY <1>4 DEF MInv
  <1>6. \A c \in timers' : c.does = "connect" => Connecting(c)'
    <2> SUFFICES ASSUME NEW c \in timers', c.does = "connect" PROVE Connecting(c)'
      OBVIOUS
    <2>1. PICK b \in timers : /\ b \in [does : Doing, left : Nat] /\ b.left > 0
                              /\ c.does = b.does /\ c.left = b.left - 1
      BY <1>4
    <2>2. Connecting(b)
      BY <2>1 DEF MInv
    <2>3. loop'.left > c.left
      BY <1>3, <2>1, <2>2 DEF Connecting, MInv
    <2>4. \A t \in timers' : t.does # "connect" => t.left > c.left
      BY <1>4, <2>1, <2>2 DEF Connecting
    <2> QED
      BY <1>1, <2>2, <2>3, <2>4 DEF Connecting
  <1>7. (\A t \in timers' : t.does # "connect") => \A t \in timers : t.does # "connect"
    <2> SUFFICES ASSUME NEW t \in timers PROVE \E s \in timers' : s.does = t.does
      OBVIOUS
    <2>1. [t EXCEPT !.left = @ - 1] \in timers' /\ t \in [does : Doing, left : Nat]
      BY <1>1 DEF MInv
    <2>2. [t EXCEPT !.left = @ - 1].does = t.does
      BY <2>1
    <2> QED
      BY <2>1, <2>2
  <1>8. timers' \subseteq [does : Doing, left : Nat]
        /\ \A s \in timers' : s.does = "car" => \A i \in DOMAIN seen : seen[i] # "car"
    BY <1>4 DEF MInv
  <1>9. Told'
    BY <1>1 DEF MInv, Told
  <1> QED
    BY <1>1, <1>2, <1>3, <1>5, <1>6, <1>7, <1>8, <1>9 DEF MInv

LEMMA MockPreserved == ASSUME MInv, Mock!Next \/ UNCHANGED mockVars PROVE MInv'
  <1>1. CASE Mock!Start
    BY <1>1, MockStarts
  <1>2. CASE Mock!Stop
    BY <1>2 DEF Mock!Stop, MInv, Told, Mock!NoLoop
  <1>3. CASE Mock!Loop \/ Mock!triggerPass
    BY <1>3, MockPasses
  <1>4. CASE Mock!Pass
    BY <1>4, MockTime
  <1>5. CASE \E t \in timers : Mock!Fire(t)
    BY <1>5, MockFires
  <1>6. CASE UNCHANGED mockVars
    BY <1>6 DEF mockVars, MInv, Told, Connecting
  <1> QED
    BY <1>1, <1>2, <1>3, <1>4, <1>5, <1>6 DEF Mock!Next

-----------------------------------------------------------------------------
LEMMA PickerSteps == ASSUME AppNext \/ UNCHANGED appVars PROVE [Id!Next]_pickerVars
  BY DEF AppNext, appVars, screenVars, Moves

(***************************************************************************)
(* The panel never asks to confirm a car that is not listed, nor filters by *)
(* a wave the year does not have (identify.tsx:81-89, 152-224).             *)
(***************************************************************************)
THEOREM Offered == AppSpec => []PickIsOffered
  <1>1. AppInit => IInv
    BY Initially, CatalogueFits DEF AppInit
  <1>2. IInv /\ [AppNext]_appVars => IInv'
    BY Preserved, PickerSteps, CatalogueFits
  <1>3. IInv => PickIsOffered
    BY DEF IInv, PickIsOffered
  <1> QED
    BY <1>1, <1>2, <1>3, PTL DEF AppSpec

(***************************************************************************)
(* Undo gives every tag the name it had before the pick, whichever tags     *)
(* share its casting and wherever that name came from                       *)
(* (useCarIdentity.ts:79-99).                                               *)
(***************************************************************************)
THEOREM Restored == AppSpec => UndoRestores
  <1>1. AppInit => IInv
    BY Initially, CatalogueFits DEF AppInit
  <1>2. IInv /\ [AppNext]_appVars => IInv'
    BY Preserved, PickerSteps, CatalogueFits
  <1>3. ASSUME IInv, Id!UndoPick, before # None PROVE Id!Shown' = before
    <2>1. identifications' = Id!Undone(picker.undo) /\ links' = links /\ seed' = seed
      BY <1>3 DEF Id!UndoPick
    <2> QED
      BY <1>3, <2>1 DEF IInv, UndoOK, ShownWith, Id!Shown, Id!CatalogIdFor
  <1>4. IInv /\ [AppNext]_appVars =>
          [Id!UndoPick /\ before # None => Id!Shown' = before]_(Id!identityVars)
    BY <1>3
  <1> QED
    BY <1>1, <1>2, <1>4, PTL DEF AppSpec, UndoRestores, Id!UndoRestores

LEMMA HistorySteps == ASSUME AppNext \/ UNCHANGED appVars PROVE [History!Next]_historyVars
  BY DEF AppNext, appVars, screenVars, Moves

(***************************************************************************)
(* What a complete reload of the detail shows is one snapshot of its        *)
(* session, whatever is recorded, rejected, rolled back or cleared around   *)
(* its two reads and however often the screen loses the focus and gets it   *)
(* back; a reload that was rejected lists nothing; and while no addPass met *)
(* another or left something half done, the detail lists the passes its     *)
(* header counts, but for one that is being recorded, and a line was drawn  *)
(* from all the passes its ticket counts                                    *)
(* ([id].tsx:50-70, sparkCache.ts:18-42).                                   *)
(***************************************************************************)
THEOREM Together == AppSpec => []ShownTogether
  <1>1. AppInit => HInv
    BY HistoryInitially DEF AppInit
  <1>2. HInv /\ [AppNext]_appVars => HInv'
    BY HistoryPreserved, HistorySteps
  <1>3. ASSUME HInv PROVE ShownTogether
    <2>1. History!SparkIsComplete
      <3> SUFFICES ASSUME list # None, ~spoilt, NEW t \in list, NEW e \in History!ToSet(cache),
                          History!IsFor(e, t.id, t.count)
                   PROVE  e.rows >= t.count
        BY DEF History!SparkIsComplete
      <3>1. PICK i \in DOMAIN cache : e = cache[i]
        BY DEF History!ToSet
      <3>2. Drawn(cache, table, made) /\ table[t.id].count # None
        BY <1>3 DEF HInv, Unspoilt, History!InTable
      <3> QED
        BY <3>1, <3>2 DEF Drawn, History!IsFor
    <2>2. History!DetailAgrees
      BY <1>3 DEF HInv, Always, Unspoilt, Shown, CountOK, History!DetailAgrees
    <2> QED
      BY <2>1, <2>2 DEF ShownTogether
  <1> QED
    BY <1>1, <1>2, <1>3, PTL DEF AppSpec

(***************************************************************************)
(* No ticket on the list is of a session that a clear removed, also when a  *)
(* rollback has undone the clear (history.tsx:39-77).                       *)
(***************************************************************************)
THEOREM Gone == AppSpec => []ClearedIsGone
  <1>1. AppInit => HInv
    BY HistoryInitially DEF AppInit
  <1>2. HInv /\ [AppNext]_appVars => HInv'
    BY HistoryPreserved, HistorySteps
  <1>3. HInv => ClearedIsGone
    BY DEF HInv, Always, ClearedIsGone
  <1> QED
    BY <1>1, <1>2, <1>3, PTL DEF AppSpec

LEMMA SettingsSteps ==
  ASSUME AppNext \/ UNCHANGED appVars PROVE Settings!Next \/ UNCHANGED settingsVars
  BY DEF AppNext, appVars, screenVars, Moves

(***************************************************************************)
(* Once the stored settings were read, the name changes only by the reset   *)
(* dialog or to what was typed since the last commit, whenever hydration    *)
(* came (settings.tsx:96-121).                                              *)
(***************************************************************************)
THEOREM Renamed == AppSpec => OnlyEditsRename
  <1>1. AppInit => SInv
    BY SettingsInitially DEF AppInit
  <1>2. ASSUME SInv, UNCHANGED settingsVars PROVE SInv'
    BY <1>2 DEF SInv, Stands, settingsVars
  <1>3. SInv /\ [AppNext]_appVars => SInv'
    BY <1>2, SettingsPreserved, SettingsSteps
  <1>4. SInv /\ [AppNext]_appVars =>
          [hydrated /\ shown'.name # shown.name =>
             dirty \/ (asked /\ shown' = Settings!DEFAULT_SETTINGS)]_(Settings!settingsVars)
    BY SettingsPreserved, SettingsSteps DEF settingsVars, Settings!settingsVars
  <1> QED
    BY <1>1, <1>3, <1>4, PTL DEF AppSpec, OnlyEditsRename, Settings!OnlyEditsRename

LEMMA MockSteps ==
  ASSUME AppNext \/ UNCHANGED appVars PROVE Mock!Next \/ UNCHANGED mockVars
  BY DEF AppNext, appVars, screenVars, Moves

(***************************************************************************)
(* Whatever timers, loop and button bring, and however soon a start follows *)
(* a stop, what the store is told of a start begins with its connect, has   *)
(* no other, and has one car at most (mockPortal.ts:77-140).                *)
(***************************************************************************)
THEOREM Afresh == AppSpec => []StartsAfresh
  <1>1. AppInit => MInv
    BY MockInitially DEF AppInit
  <1>2. MInv /\ [AppNext]_appVars => MInv'
    BY MockPreserved, MockSteps
  <1>3. ASSUME MInv PROVE StartsAfresh
    <2> DEFINE cars == {i \in DOMAIN seen : seen[i] = "car"}
    <2>1. \A i, j \in cars : i = j
      BY <1>3 DEF MInv, Told
    <2>2. cars = {} \/ \E i : cars = {i}
      BY <2>1
    <2>3. Mock!Cardinality(cars) = Cardinality(cars)
      BY DEF Mock!Cardinality, Cardinality
    <2> HIDE DEF cars
    <2>4. Cardinality(cars) <= 1
      <3>1. CASE cars = {}
        BY <3>1, FS_EmptySet
      <3>2. ASSUME NEW i, cars = {i} PROVE Cardinality(cars) = 1
        BY <3>2, FS_Singleton
      <3> QED
        BY <2>2, <3>1, <3>2
    <2> QED
      BY <1>3, <2>3, <2>4 DEF MInv, Told, StartsAfresh, Mock!StartsAfresh, cars
  <1> QED
    BY <1>1, <1>2, <1>3, PTL DEF AppSpec
=============================================================================
