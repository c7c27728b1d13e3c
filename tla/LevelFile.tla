----------------------------- MODULE LevelFile -----------------------------
(***************************************************************************)
(* One level: the array of entries in its data file, its Bloom filter and  *)
(* the fence pointers to the segments of the array.  Array positions and   *)
(* segments are counted from 0, as in the code; the sequence that models   *)
(* an array is a[1 .. Len(a)].                                             *)
(***************************************************************************)
EXTENDS SortedArray, BloomFilter, SequencesExt

CONSTANTS FENCE_PTR_EVERY_K_ENTRIES,   \* entries of a segment
          nullptr

ASSUME FenceAssumption == FENCE_PTR_EVERY_K_ENTRIES \in Nat \ {0}

VARIABLES
  data,            \* the array in LEVELi.data
  curr_size,       \* curr_size_: the entries of it that count
  filter,          \* filter_
  fp_array,        \* fp_array_, a function on 0, 1, ...; <<>> when it is null
  num_fence_ptrs,  \* num_fence_ptrs_
  pc               \* what the thread does that holds the level's lock

level == <<data, curr_size, filter, fp_array, num_fence_ptrs>>

(* The entries of the level.                                               *)
Entries == SubSeq(data, 1, curr_size)

(* num_fence_ptrs_ for that many entries.                                  *)
NumFencePtrs(size) ==
  (size + FENCE_PTR_EVERY_K_ENTRIES - 1) \div FENCE_PTR_EVERY_K_ENTRIES

(* The fence pointers built from a file when the database starts.  An      *)
(* offset counts entries; the code's count bytes.                          *)
Constructed(array) ==
  [n \in 0 .. (NumFencePtrs(Len(array)) - 1) |->
     LET first == n * FENCE_PTR_EVERY_K_ENTRIES
         next  == (n + 1) * FENCE_PTR_EVERY_K_ENTRIES
         last  == IF next - 1 >= Len(array) THEN Len(array) - 1 ELSE next - 1
     IN  [min_key |-> array[first + 1].key,
          max_key |-> array[last + 1].key,
          offset  |-> first]]

(* Variant: filters are made for one element, whatever the level holds.    *)
construct_small ==
  /\ pc = "idle"
  /\ filter' = IF curr_size = 0 THEN nullptr
               ELSE insert(NewFilter(1), {data[1].key})
  /\ fp_array' = Constructed(Entries)
  /\ num_fence_ptrs' = NumFencePtrs(curr_size)
  /\ UNCHANGED <<data, curr_size, pc>>

(* level::bf_fp_construct(), when a process starts over the file of an     *)
(* earlier one.                                                            *)
bf_fp_construct ==
  /\ pc = "idle"
  /\ filter' = IF curr_size = 0 THEN nullptr
               ELSE insert(NewFilter(curr_size), KeysIn(Entries))
  /\ fp_array' = Constructed(Entries)
  /\ num_fence_ptrs' = NumFencePtrs(curr_size)
  /\ UNCHANGED <<data, curr_size, pc>>

(* The level has been merged into the next one: merge() resets what leads  *)
(* to its entries, and its caller the size.                                *)
Drain == /\ pc = "idle"
         /\ curr_size > 0
         /\ curr_size' = 0
         /\ filter' = nullptr
         /\ fp_array' = <<>>
         /\ num_fence_ptrs' = 0
         /\ UNCHANGED <<data, pc>>

(* pread() of that many entries at the offset of a fence pointer; a read   *)
(* past the end of the file is short.                                      *)
Segment(offset, entries) ==
  SubSeq(data, offset + 1, IF offset + entries > Len(data) THEN Len(data)
                           ELSE offset + entries)

(* Variant: no smaller read for the last segment.                          *)
EntriesAlwaysK(n) == FENCE_PTR_EVERY_K_ENTRIES

(* entriesToRead for segment n: all of it, or what is left for the last.   *)
EntriesToRead(n) == IF n = num_fence_ptrs - 1
                    THEN curr_size - n * FENCE_PTR_EVERY_K_ENTRIES
                    ELSE FENCE_PTR_EVERY_K_ENTRIES
=============================================================================
