------------------------------ MODULE SSTable ------------------------------
(***************************************************************************)
(* Sorted runs and the operation that merges two of them.  A run holds at  *)
(* most one entry per key and is ordered by key, so it is modelled by the  *)
(* function from keys to entries that it stores; its array is the list of  *)
(* its keys in increasing order.  MergeRun.tla checks the array loops of   *)
(* level::merge() against MergeRuns below.                                 *)
(***************************************************************************)
EXTENDS Integers, FiniteSets

CONSTANTS Keys,          \* the keys (C ints) a workload uses
          Vals,          \* the values a workload puts
          DELETED_FLAG,  \* the value that marks a deleted key: INT_MIN
          None           \* "no entry"

ASSUME KeysAssumption == Keys \subseteq Int /\ IsFiniteSet(Keys)
ASSUME ValuesAssumption == /\ DELETED_FLAG \notin Vals
                           /\ None \notin Vals
                           /\ None # DELETED_FLAG

(* The value field of a struct lsm_data that a key may be stored with.     *)
Stored == Vals \cup {DELETED_FLAG}

(* Every run, and the run without entries.                                 *)
Run == [Keys -> Stored \cup {None}]
Empty == [k \in Keys |-> None]

KeysOf(run) == {k \in Keys : run[k] # None}
Size(run) == Cardinality(KeysOf(run))

(* The first n entries of the array of a run: what a level whose curr_size_*)
(* is n sees of its data file.                                             *)
Prefix(run, n) ==
  [k \in Keys |-> IF Cardinality({j \in KeysOf(run) : j < k}) < n
                  THEN run[k] ELSE None]

(* Variants of MergeRuns that the properties must tell from it: the entry  *)
(* of the level wins; a tombstone that meets no entry is dropped too.      *)
OlderWins(curr, child) == [k \in Keys |-> IF curr[k] # None THEN curr[k] ELSE child[k]]

TombstonesDropped(curr, child) ==
  [k \in Keys |-> IF child[k] = None THEN curr[k]
                  ELSE IF child[k] = DELETED_FLAG THEN None
                  ELSE child[k]]

(* The run that level::merge() writes when the run `child`, from the level *)
(* above, is merged into the run `curr`.  The entry of the child wins; but *)
(* a tombstone of the child that meets an entry of the same key disappears *)
(* together with that entry, and one that meets none is kept.              *)
MergeRuns(curr, child) ==
  [k \in Keys |-> IF child[k] = None THEN curr[k]
                  ELSE IF child[k] = DELETED_FLAG /\ curr[k] # None THEN None
                  ELSE child[k]]
=============================================================================
