----------------------------- MODULE MCBootstrap -----------------------------
(* Two goals on the two totals they are computed from: races, which are asked
   of the database, and cars, which the garage store has. *)
EXTENDS Bootstrap

MCGoals ==
  [g1 |-> [metric |-> "races", threshold |-> 2],
   g2 |-> [metric |-> "cars",  threshold |-> 1]]
=============================================================================
