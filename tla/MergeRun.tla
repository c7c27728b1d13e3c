------------------------------ MODULE MergeRun ------------------------------
(***************************************************************************)
(* The loops of level::merge(): the array of a level and the array merged  *)
(* into it are copied entry by entry to the temporary file, while the      *)
(* Bloom filter and the fence pointers of the result are built.  One step  *)
(* is one iteration.  The merge runs under the locks of both levels, so    *)
(* nothing else sees or changes what it works on.                          *)
(***************************************************************************)
EXTENDS LevelFile

CONSTANT Uninitialized   \* a field of a new fp_array_ not yet written

VARIABLES
  child,      \* the array merged into the level
  my_ptr,     \* entries consumed of the level
  child_ptr,  \* entries consumed of the child
  temp        \* the array written to TEMP.data

merge == <<child, my_ptr, child_ptr, temp>>

(* Variant: the entries merged in are not counted.                         *)
AllocatedForLevel(count) ==
  [n \in 0 .. (NumFencePtrs(curr_size) - 1) |->
     [min_key |-> Uninitialized, max_key |-> Uninitialized, offset |-> Uninitialized]]

(* As many fence pointers are allocated as that many entries could need.   *)
Allocated(count) ==
  [n \in 0 .. (NumFencePtrs(count) - 1) |->
     [min_key |-> Uninitialized, max_key |-> Uninitialized, offset |-> Uninitialized]]

(* There is something to merge, and room: the old filter and the old fence *)
(* pointers are deleted, and new ones are made for all the entries.        *)
BeginMerge(run) ==
  LET count == curr_size + Size(run)
  IN  /\ pc = "idle"
      /\ run # Empty
      /\ child' = Array(run)
      /\ filter' = NewFilter(count)
      /\ fp_array' = Allocated(count)
      /\ num_fence_ptrs' = NumFencePtrs(count)
      /\ pc' = "merge"
      /\ UNCHANGED <<data, curr_size, my_ptr, child_ptr, temp>>

-----------------------------------------------------------------------------
(* The entries the two pointers are at.                                    *)
Mine == data[my_ptr + 1]
Theirs == child[child_ptr + 1]

BothLeft == /\ pc = "merge"
            /\ my_ptr < curr_size /\ child_ptr < Len(child)

OneLeft == pc = "merge" /\ ~ BothLeft

(* The first entry of a segment opens its fence pointer, and closes the    *)
(* one before with the key of the entry before.                            *)
Fenced(fps, written, entry) ==
  LET t == Len(written)
      n == t \div FENCE_PTR_EVERY_K_ENTRIES
  IN  IF t % FENCE_PTR_EVERY_K_ENTRIES # 0 THEN fps
      ELSE [m \in DOMAIN fps |->
              IF m = n THEN [fps[m] EXCEPT !.min_key = entry.key, !.offset = t]
              ELSE IF m = n - 1 THEN [fps[m] EXCEPT !.max_key = written[t].key]
              ELSE fps[m]]

(* Variant: one place forgets the filter.                                  *)
WriteUnfiltered(entry) ==
  /\ temp' = Append(temp, entry)
  /\ filter' = IF BothLeft THEN insert(filter, {entry.key}) ELSE filter
  /\ fp_array' = Fenced(fp_array, temp, entry)
  /\ UNCHANGED <<data, curr_size, num_fence_ptrs, child, pc>>

(* An entry goes to the temporary file, the filter and the fence pointers. *)
Write(entry) ==
  /\ temp' = Append(temp, entry)
  /\ filter' = insert(filter, {entry.key})
  /\ fp_array' = Fenced(fp_array, temp, entry)
  /\ UNCHANGED <<data, curr_size, num_fence_ptrs, child, pc>>

(* Variant: `continue` before the pointers have moved.                     *)
SkipInPlace == /\ BothLeft
               /\ Mine.key = Theirs.key
               /\ Theirs.value = DELETED_FLAG
               /\ UNCHANGED <<level, merge, pc>>

(* A tombstone and the entry it meets are both skipped.                    *)
SkipBoth == /\ BothLeft
            /\ Mine.key = Theirs.key
            /\ Theirs.value = DELETED_FLAG
            /\ my_ptr' = my_ptr + 1
            /\ child_ptr' = child_ptr + 1
            /\ UNCHANGED <<level, child, temp, pc>>

TakeMine == /\ BothLeft
            /\ Mine.key < Theirs.key
            /\ Write(Mine)
            /\ my_ptr' = my_ptr + 1
            /\ UNCHANGED child_ptr

TakeTheirs == /\ BothLeft
              /\ Mine.key > Theirs.key
              /\ Write(Theirs)
              /\ child_ptr' = child_ptr + 1
              /\ UNCHANGED my_ptr

(* Variant: the entry of the level is kept.                                *)
ReplaceNone == /\ BothLeft
               /\ Mine.key = Theirs.key
               /\ Theirs.value # DELETED_FLAG
               /\ Write(Mine)
               /\ my_ptr' = my_ptr + 1
               /\ child_ptr' = child_ptr + 1

(* The entry of the child is newer than the one of the level.              *)
Replace == /\ BothLeft
           /\ Mine.key = Theirs.key
           /\ Theirs.value # DELETED_FLAG
           /\ Write(Theirs)
           /\ my_ptr' = my_ptr + 1
           /\ child_ptr' = child_ptr + 1

CopyMine == /\ OneLeft
            /\ my_ptr < curr_size
            /\ Write(Mine)
            /\ my_ptr' = my_ptr + 1
            /\ UNCHANGED child_ptr

CopyTheirs == /\ OneLeft
              /\ child_ptr < Len(child)
              /\ Write(Theirs)
              /\ child_ptr' = child_ptr + 1
              /\ UNCHANGED my_ptr

AllWritten == pc = "merge" /\ my_ptr = curr_size /\ child_ptr = Len(child)

(* The temporary file replaces that of the level.                          *)
Replaced == /\ data' = temp
            /\ curr_size' = Len(temp)
            /\ num_fence_ptrs' = NumFencePtrs(Len(temp))
            /\ child' = <<>> /\ temp' = <<>>
            /\ my_ptr' = 0 /\ child_ptr' = 0
            /\ pc' = "idle"

(* Variant: the last fence pointer stays open.                             *)
FinishOpen == /\ AllWritten
              /\ Replaced
              /\ UNCHANGED <<filter, fp_array>>

(* num_fence_ptrs_ is set from the number of entries written, the last     *)
(* fence pointer in use is closed, and the files change places.            *)
Finish == /\ AllWritten
          /\ Replaced
          /\ LET last == NumFencePtrs(Len(temp)) - 1
             IN  fp_array' = IF last < 0 THEN fp_array
                             ELSE [fp_array EXCEPT ![last].max_key = Last(temp).key]
          /\ UNCHANGED filter

MergeStep == \/ SkipBoth \/ TakeMine \/ TakeTheirs \/ Replace
             \/ CopyMine \/ CopyTheirs \/ Finish

-----------------------------------------------------------------------------
(* What has been written is always the beginning of the merged run, in the *)
(* order of the keys and without repetitions, and in the end all of it:    *)
(* the three loops neither drop, repeat nor misplace an entry, and the     *)
(* older of two versions never survives.                                   *)
WritesMergedRun ==
  pc = "merge" => LET merged == Array(MergeRuns(RunOf(Entries), RunOf(child)))
                  IN  /\ IsPrefix(temp, merged)
                      /\ AllWritten => temp = merged

(* Every entry's segment has a place in the array of fence pointers that   *)
(* was allocated before the size of the result was known.                  *)
FencesWithinArray == temp # <<>> =>
  (Len(temp) - 1) \div FENCE_PTR_EVERY_K_ENTRIES \in DOMAIN fp_array
=============================================================================
