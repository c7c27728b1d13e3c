---------------------------- MODULE LevelSearch ----------------------------
(***************************************************************************)
(* The search for one key in one level (the loop body of lsm_tree::get()): *)
(* the Bloom filter, the binary search among the fence pointers, the read  *)
(* of one segment and the binary search in it; and the part of             *)
(* lsm_tree::range() that looks for the segments of an interval.  The      *)
(* level's lock is held from beginning to end.                             *)
(***************************************************************************)
EXTENDS MergeRun

CONSTANTS Probes,     \* the keys searched for: those stored and others
          NotRead     \* the value of segment_buffer before any read

ASSUME ProbesAssumption == Probes \subseteq Int

VARIABLES
  key,                  \* the key searched for, or None
  low, high,            \* bounds of the search among the fence pointers
  left, right,          \* bounds of the search in the segment
  segment_buffer,       \* the segment read, or NotRead
  avoid_infinite_loop,  \* a segment has been searched in vain
  reads,                \* number of segments read
  result                \* value found, or None

search == <<low, high, left, right, segment_buffer, avoid_infinite_loop, reads, result>>

(* Bound: reads are counted up to two, enough to see a second one.         *)
ReadsCounted == 2

(* No search is under way: the variables of get() do not exist.            *)
NoSearch == /\ key = None
            /\ low = 0 /\ high = -1
            /\ left = 0 /\ right = -1
            /\ segment_buffer = NotRead
            /\ avoid_infinite_loop = FALSE
            /\ reads = 0
            /\ result = None

(* get() has locked the level.                                             *)
Ask(k) == /\ pc = "idle"
          /\ key' = k
          /\ high' = num_fence_ptrs - 1
          /\ pc' = "filter"
          /\ UNCHANGED <<level, low, left, right, segment_buffer,
                         avoid_infinite_loop, reads, result>>

(* No filter, or a filter that does not contain the key: the level is      *)
(* skipped.                                                                *)
FilterExcludes == /\ pc = "filter"
                  /\ ~ (filter # nullptr /\ contains(filter, key))
                  /\ pc' = "done"
                  /\ UNCHANGED <<level, key, search>>

FilterContains == /\ pc = "filter"
                  /\ filter # nullptr
                  /\ contains(filter, key)
                  /\ pc' = "fences"
                  /\ UNCHANGED <<level, key, search>>

mid == low + (high - low) \div 2

(* Variant: the largest key of a segment is looked for behind it.          *)
NarrowPastMax == /\ pc = "fences"
                 /\ low <= high
                 /\ \/ /\ key < fp_array[mid].min_key
                       /\ high' = mid - 1
                       /\ UNCHANGED low
                    \/ /\ key >= fp_array[mid].max_key
                       /\ low' = mid + 1
                       /\ UNCHANGED high
                 /\ UNCHANGED <<level, key, pc, left, right, segment_buffer,
                                avoid_infinite_loop, reads, result>>

Narrow == /\ pc = "fences"
          /\ low <= high
          /\ \/ /\ key < fp_array[mid].min_key
                /\ high' = mid - 1
                /\ UNCHANGED low
             \/ /\ key > fp_array[mid].max_key
                /\ low' = mid + 1
                /\ UNCHANGED high
          /\ UNCHANGED <<level, key, pc, left, right, segment_buffer,
                         avoid_infinite_loop, reads, result>>

InFence == /\ low <= high
           /\ fp_array[mid].min_key <= key /\ key <= fp_array[mid].max_key

(* The segment of the fence pointer is read, and searched.                 *)
Read == /\ pc = "fences"
        /\ InFence
        /\ ~ avoid_infinite_loop
        /\ segment_buffer' = Segment(fp_array[mid].offset, EntriesToRead(mid))
        /\ left' = 0
        /\ right' = Len(segment_buffer') - 1
        /\ reads' = IF reads < ReadsCounted THEN reads + 1 ELSE reads
        /\ pc' = "segment"
        /\ UNCHANGED <<level, key, low, high, avoid_infinite_loop, result>>

(* The fence pointers hold out no hope, or the segment has been searched.  *)
GiveUp == /\ pc = "fences"
          /\ low > high \/ (InFence /\ avoid_infinite_loop)
          /\ pc' = "done"
          /\ UNCHANGED <<level, key, search>>

midpoint == (left + right) \div 2
probed == segment_buffer[midpoint + 1]

(* Variants: the whole entry is the result; the vain search is not noted.  *)
HitEntry == /\ pc = "segment"
            /\ left <= right
            /\ probed.key = key
            /\ result' = probed
            /\ pc' = "done"
            /\ UNCHANGED <<level, key, low, high, left, right, segment_buffer,
                           avoid_infinite_loop, reads>>

MissUnnoted == /\ pc = "segment"
               /\ left > right
               /\ pc' = "fences"
               /\ UNCHANGED <<level, key, low, high, left, right, segment_buffer,
                              avoid_infinite_loop, reads, result>>

Hit == /\ pc = "segment"
       /\ left <= right
       /\ probed.key = key
       /\ result' = probed.value
       /\ pc' = "done"
       /\ UNCHANGED <<level, key, low, high, left, right, segment_buffer,
                      avoid_infinite_loop, reads>>

Halve == /\ pc = "segment"
         /\ left <= right
         /\ \/ /\ probed.key < key
               /\ left' = midpoint + 1
               /\ UNCHANGED right
            \/ /\ probed.key > key
               /\ right' = midpoint - 1
               /\ UNCHANGED left
         /\ UNCHANGED <<level, key, pc, low, high, segment_buffer,
                        avoid_infinite_loop, reads, result>>

(* Not in the segment: the search among the fence pointers resumes.        *)
Miss == /\ pc = "segment"
        /\ left > right
        /\ avoid_infinite_loop' = TRUE
        /\ pc' = "fences"
        /\ UNCHANGED <<level, key, low, high, left, right, segment_buffer, reads, result>>

(* The lock is released, and get() goes on to the next level or returns.   *)
Return == /\ pc = "done"
          /\ pc' = "idle"
          /\ UNCHANGED level
          /\ key' = None
          /\ low' = 0 /\ high' = -1
          /\ left' = 0 /\ right' = -1
          /\ segment_buffer' = NotRead
          /\ avoid_infinite_loop' = FALSE
          /\ reads' = 0
          /\ result' = None

SearchStep == \/ FilterExcludes \/ FilterContains
              \/ Narrow \/ Read \/ GiveUp
              \/ Hit \/ Halve \/ Miss \/ Return

(* Variant: an interval that begins with the last key of a segment.        *)
OverlapsInside(start, end, n) == fp_array[n].min_key < end /\ start < fp_array[n].max_key

(* process_level() of lsm_tree::range(): the entries of [start, end) in    *)
(* the segments whose fence pointers overlap it.                           *)
Overlaps(start, end, n) == fp_array[n].min_key < end /\ start <= fp_array[n].max_key

process_level(start, end) ==
  UNION {LET entries == Segment(fp_array[n].offset, EntriesToRead(n))
         IN  {entries[p] : p \in {p \in DOMAIN entries :
                 start <= entries[p].key /\ entries[p].key < end}} :
           n \in {n \in 0 .. (num_fence_ptrs - 1) : Overlaps(start, end, n)}}

-----------------------------------------------------------------------------
(* The search ends with the entry of the level for the key, if it has one: *)
(* fence pointers and segments leave no gap a key could be missed in, and  *)
(* a false positive of the filter turns up nothing.                        *)
FindsVersion ==
  pc = "done" => result = IF key \in Keys THEN RunOf(Entries)[key] ELSE None

(* get() searches a level "by only doing 1 read on disk".                  *)
OneReadOnDisk == reads <= 1

(* Reads ask for entries the level has, and never for more than fit into   *)
(* segment_buffer, which is an array on the stack.                         *)
ReadsFit ==
  pc # "merge" => \A n \in 0 .. (num_fence_ptrs - 1) :
                    LET entries == EntriesToRead(n)
                    IN  /\ 0 < entries /\ entries <= FENCE_PTR_EVERY_K_ENTRIES
                        /\ fp_array[n].offset + entries <= curr_size

(* A range query gets from the segments it reads all entries of the level  *)
(* in the interval, and no others.                                         *)
RangeReadsAll ==
  pc = "idle" => \A start \in Probes, end \in Probes :
     process_level(start, end) =
       {e \in {Entries[p] : p \in DOMAIN Entries} : start <= e.key /\ e.key < end}
=============================================================================
