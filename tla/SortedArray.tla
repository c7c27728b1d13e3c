---------------------------- MODULE SortedArray ----------------------------
(***************************************************************************)
(* Arrays of entries (struct lsm_data), as the data files hold them.       *)
(***************************************************************************)
EXTENDS SSTable, Sequences

(* struct lsm_data, for the keys and values that are used.                 *)
lsm_data == [key : Keys, value : Stored]

(* The array that holds a run, in the order of the keys.                   *)
Array(run) ==
  LET keys == KeysOf(run)
      Nth(p) == CHOOSE k \in keys : Cardinality({j \in keys : j < k}) = p - 1
  IN  [p \in 1 .. Size(run) |-> [key |-> Nth(p), value |-> run[Nth(p)]]]

KeysIn(array) == {array[p].key : p \in 1 .. Len(array)}

(* The run that an array holds.                                            *)
RunOf(array) ==
  [k \in Keys |-> IF k \notin KeysIn(array) THEN None
                  ELSE array[CHOOSE p \in 1 .. Len(array) : array[p].key = k].value]
=============================================================================
