----------------------------- MODULE LSMTreeKV -----------------------------
(***************************************************************************)
(* The LSM tree in one process, with the line of the workload executed     *)
(* last, as an implementation of the dictionary (KVMap).                   *)
(***************************************************************************)
EXTENDS LSMTree

VARIABLE line

(* processCommands(): a line is read and executed.                         *)
ExecuteLine ==
  \/ \E k \in Keys, v \in Vals : Put(k, v) /\ line' = <<"p", k, v>>
  \/ \E k \in DeletableKeys : Delete(k) /\ line' = <<"d", k>>
  \/ /\ \/ Flush
        \/ \E i \in 1 .. (MAX_LEVELS - 1) : MergeLevel(i)
        \/ DatabaseFull
        \/ Shutdown
     /\ line' = <<>>

KVSpec == /\ Init /\ line = <<>>
          /\ [][ExecuteLine]_<<vars, line>>

(* The keys that no workload deletes, and the lines about them.            *)
UndeletedKeys == Keys \ DeletableKeys
UndeletedLine == IF line # <<>> /\ line[2] \in UndeletedKeys THEN line ELSE <<>>

Undeleted == INSTANCE KVMap WITH Keys <- UndeletedKeys,
                                 db <- [k \in UndeletedKeys |-> get(k)],
                                 line <- UndeletedLine

(* For the keys that are never deleted the answers of get() are those of   *)
(* the dictionary: a put changes the answer for its own key, to its own    *)
(* value; a put or delete of another key, a flush, a cascade of merges, a  *)
(* manual merge, a full database and the shutdown change none.             *)
ImplementsKVMap == Undeleted!Spec
=============================================================================
