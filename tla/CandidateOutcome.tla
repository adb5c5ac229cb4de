--------------------------- MODULE CandidateOutcome ---------------------------
(***************************************************************************)
(* What executing a candidate promises, whatever executors crash, stall or *)
(* overlap: at most one order reaches the broker, a candidate is decided   *)
(* once, "ordered" is said only of an order that exists, and no order is   *)
(* placed for a candidate already decided.                                 *)
(***************************************************************************)
EXTENDS Naturals

VARIABLES
  placed,    \* orders of the candidate at the broker
  decided    \* the terminal outcome recorded for it

vars == <<placed, decided>>

Init == placed = 0 /\ decided = "none"

Place ==
  /\ placed = 0
  /\ decided = "none"
  /\ placed' = 1
  /\ UNCHANGED decided

Order ==
  /\ placed = 1
  /\ decided = "none"
  /\ decided' = "ordered"
  /\ UNCHANGED placed

Reject ==
  /\ decided = "none"
  /\ decided' = "rejected"
  /\ UNCHANGED placed

Next == Place \/ Order \/ Reject

Spec == Init /\ [][Next]_vars
=============================================================================
