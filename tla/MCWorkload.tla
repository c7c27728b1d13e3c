----------------------------- MODULE MCWorkload -----------------------------
(***************************************************************************)
(* Workload for TLC.                                                       *)
(***************************************************************************)
EXTENDS Workload

Asked(puts, gets, ranges, deletes) ==
  [op \in Operations |-> CASE op = "put" -> puts [] op = "get" -> gets
                           [] op = "range" -> ranges [] OTHER -> deletes]

MCSettings ==
  {Asked(3, 2, 0, 1), Asked(3, 1, 1, 1), Asked(0, 1, 0, 1), Asked(0, 0, 0, 0)} \X BOOLEAN
=============================================================================
