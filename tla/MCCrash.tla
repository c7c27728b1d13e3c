------------------------------ MODULE MCCrash ------------------------------
(***************************************************************************)
(* Crash for TLC.  The levels have the same capacity, so that four         *)
(* commands are enough to fill the database.                               *)
(***************************************************************************)
EXTENDS Crash

MCCapacity == [i \in 1 .. MAX_LEVELS |-> 2]
=============================================================================
