----------------------------- MODULE LevelLife -----------------------------
(***************************************************************************)
(* The life of one level: runs are merged into it, it is merged into the   *)
(* next level, processes start over its file, and keys are searched for,   *)
(* in any order and one at a time under the level's lock.                  *)
(***************************************************************************)
EXTENDS LevelSearch

vars == <<level, merge, key, search, pc>>

NoMerge == child = <<>> /\ my_ptr = 0 /\ child_ptr = 0 /\ temp = <<>>

(* level::level() with a file just created.                                *)
Init == /\ data = <<>> /\ curr_size = 0
        /\ filter = nullptr /\ fp_array = <<>> /\ num_fence_ptrs = 0
        /\ NoMerge /\ NoSearch
        /\ pc = "idle"

Next == \/ /\ \/ \E run \in Run : BeginMerge(run)
              \/ MergeStep
           /\ UNCHANGED <<key, search>>
        \/ /\ Drain \/ bf_fp_construct
           /\ UNCHANGED <<merge, key, search>>
        \/ /\ \/ \E k \in Probes : Ask(k)
              \/ SearchStep
           /\ UNCHANGED merge

(* The thread that holds the lock runs; nothing makes it wait.  Whether    *)
(* anyone asks for a merge or a search is up to the clients.               *)
Fairness == /\ WF_vars(MergeStep /\ UNCHANGED <<key, search>>)
            /\ WF_vars(SearchStep /\ UNCHANGED merge)

Spec == Init /\ [][Next]_vars /\ Fairness

-----------------------------------------------------------------------------
TypeOK ==
  /\ data \in Seq(lsm_data) /\ temp \in Seq(lsm_data) /\ child \in Seq(lsm_data)
  /\ curr_size \in 0 .. Len(data)
  /\ my_ptr \in 0 .. curr_size /\ child_ptr \in 0 .. Len(child)
  /\ num_fence_ptrs \in 0 .. Cardinality(DOMAIN fp_array)
  /\ pc \in {"idle", "merge", "filter", "fences", "segment", "done"}
  /\ key \in Probes \cup {None}
  /\ low \in Nat /\ high \in Int /\ left \in Nat /\ right \in Int
  /\ segment_buffer = NotRead \/ segment_buffer \in Seq(lsm_data)
  /\ avoid_infinite_loop \in BOOLEAN
  /\ reads \in 0 .. ReadsCounted
  /\ result \in Stored \cup {None}

(* Whatever key a filter is asked for, the bits are bits of its table: the *)
(* table is a whole number of bytes, though the vector that holds it has   *)
(* its size divided by the bits of a byte and rounded down.                *)
BitsInTable ==
  filter # nullptr => \A k \in Probes : \A b \in bit_indices(filter, k) :
                         b \div bits_per_char \in DOMAIN filter.bit_table

(* The filter contains every key of the level, and during a merge every    *)
(* key written so far, whether it was built entry by entry by a merge or   *)
(* from the file at startup: no search skips a level that has the key.     *)
FilterCovers ==
  \A k \in IF pc = "merge" THEN KeysIn(temp) ELSE KeysIn(Entries) :
     filter # nullptr /\ contains(filter, k)

(* The fence pointers a merge builds are those that a restart constructs   *)
(* from the file it leaves: every one of them is written in full.          *)
FencesAsConstructed ==
  pc # "merge" => /\ num_fence_ptrs = NumFencePtrs(curr_size)
                  /\ \A n \in 0 .. (num_fence_ptrs - 1) :
                       fp_array[n] = Constructed(Entries)[n]

(* The lock is always released: merges and searches end, also a search for *)
(* a key that the filter wrongly admits.                                   *)
LockReleased == (pc # "idle") ~> (pc = "idle")

(* The level implements the run store.                                     *)
Store == INSTANCE RunStore WITH
  run   <- RunOf(Entries),
  doing <- CASE pc = "idle"  -> [op |-> "nothing"]
             [] pc = "merge" -> [op |-> "merge", incoming |-> RunOf(child)]
             [] pc = "done"  -> [op |-> "answer", value |-> result]
             [] OTHER        -> [op |-> "get", key |-> key]

ImplementsRunStore == Store!Spec
=============================================================================
