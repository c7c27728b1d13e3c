------------------------------- MODULE KVMap -------------------------------
(***************************************************************************)
(* The dictionary that the workload reference implementation keeps         *)
(* (generator/evaluate.py): one value, or none, for every key.  It is what *)
(* the README promises of the put, get and delete commands, and the        *)
(* specification against which the LSM tree is checked.                    *)
(***************************************************************************)
CONSTANTS Keys,     \* the keys a workload uses
          Vals,     \* the values a workload puts
          None      \* "this key is not in the dictionary"

VARIABLES db,       \* the dictionary
          line      \* the line of the workload executed last

Init == /\ db = [k \in Keys |-> None]
        /\ line = <<>>

(* `p key val`: insert or overwrite.                                       *)
Put(k, v) == /\ line' = <<"p", k, v>>
             /\ db' = [db EXCEPT ![k] = v]

(* `d key`: delete; deleting a key that is absent is not an error.         *)
Delete(k) == /\ line' = <<"d", k>>
             /\ db' = [db EXCEPT ![k] = None]

(* Any other line leaves the dictionary as it is.                          *)
Other == /\ line' = <<>>
         /\ UNCHANGED db

Next == \/ \E k \in Keys : \/ \E v \in Vals : Put(k, v)
                           \/ Delete(k)
        \/ Other

Spec == Init /\ [][Next]_<<db, line>>
=============================================================================
