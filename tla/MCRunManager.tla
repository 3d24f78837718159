---------------------------- MODULE MCRunManager ----------------------------
(* A small instance of RunManager for TLC. *)
EXTENDS RunManager

CONSTANTS r1, r2

\* The first run is launched first, and only it is paused.
Explored == status[r2] # "paused" /\ (launch[r1] = "new" => launch[r2] = "new")
=============================================================================
