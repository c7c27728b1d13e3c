-------------------------- MODULE LevelLife_proofs --------------------------
(***************************************************************************)
(* One level, for any runs, any segment size, any hash functions and any   *)
(* order of merges, hand-overs, restarts and searches: filters admit every *)
(* key of the level, fence pointers are those of its file, searches read   *)
(* what the level has, at most once; merges write the merged run, searches *)
(* find exactly what it holds, and the level implements the store of one   *)
(* run.                                                                    *)
(***************************************************************************)
EXTENDS LevelLife, BloomFilter_proofs, SSTable_proofs

(* Entries of a segment.                                                   *)
K == FENCE_PTR_EVERY_K_ENTRIES

(* What is assumed of the constants that stand for the filter library.     *)
FilterParameters == Hashes /\ ~ IsFilter(nullptr)

(* Outside merges, what a merge uses does not exist.  A merge writes one   *)
(* entry at most for each entry it has consumed.                           *)
Pointers ==
  /\ IsSequence(data) /\ curr_size \in 0 .. Len(data)
  /\ IsSequence(temp) /\ Len(child) \in Nat
  /\ my_ptr \in 0 .. curr_size /\ child_ptr \in 0 .. Len(child)
  /\ Len(temp) <= my_ptr + child_ptr
  /\ pc # "merge" => NoMerge

FilterShape ==
  /\ filter # nullptr => IsFilter(filter)
  /\ pc = "merge" => filter # nullptr

(* During a merge: the first entry of every segment written is in its      *)
(* fence pointer, and the last one of every segment followed by another.   *)
FencesWritten ==
  pc = "merge" =>
    /\ DOMAIN fp_array = 0 .. (NumFencePtrs(curr_size + Len(child)) - 1)
    /\ \A n \in DOMAIN fp_array :
         /\ fp_array[n] = [min_key |-> fp_array[n].min_key,
                           max_key |-> fp_array[n].max_key,
                           offset  |-> fp_array[n].offset]
         /\ n * K < Len(temp) => /\ fp_array[n].min_key = temp[n * K + 1].key
                                 /\ fp_array[n].offset = n * K
         /\ (n + 1) * K < Len(temp) => fp_array[n].max_key = temp[(n + 1) * K].key

(* A read, unless it was a hit, is noted before the next one.              *)
ReadNoted ==
  /\ reads \in {0, 1}
  /\ pc \in {"idle", "merge", "filter"} => reads = 0
  /\ pc = "fences" /\ ~ avoid_infinite_loop => reads = 0

LInv == Pointers /\ FilterShape /\ FilterCovers /\ FencesWritten
        /\ FencesAsConstructed /\ ReadNoted

-----------------------------------------------------------------------------
(* Segments.                                                               *)

LEMMA Multiples ==
  /\ K \in Nat \ {0}
  /\ \A m \in Int : m * K \in Int /\ (m + 1) * K = m * K + K
  /\ \A m, n \in Int : m <= n => m * K <= n * K
  /\ \A m, n \in Int : m < n => m * K < n * K
<1>1. K \in Nat \ {0}
  BY FenceAssumption DEF K
<1> HIDE DEF K
<1>2. \A m \in Int : m * K \in Int /\ (m + 1) * K = m * K + K
  BY <1>1, SMT
<1>3. \A m, n \in Int : m <= n => m * K <= n * K
  BY <1>1, SMT
<1>4. \A m, n \in Int : m < n => m * K < n * K
  BY <1>1, SMT
<1> QED
  BY <1>1, <1>2, <1>3, <1>4

LEMMA NoRest ==
  ASSUME NEW n \in Nat
  PROVE  (n * K) % K = 0
<1>1. K \in Nat \ {0}
  BY Multiples
<1> HIDE DEF K
<1> QED
  BY <1>1, SMT

LEMMA DifferentMultiples ==
  ASSUME NEW m \in Int, NEW n \in Int, m # n
  PROVE  m * K # n * K
<1>1. (m < n => m * K < n * K) /\ (n < m => n * K < m * K)
  BY Multiples
<1>2. m * K \in Int /\ n * K \in Int
  BY Multiples
<1> QED
  BY <1>1, <1>2

(* There are as many fence pointers as it takes to reach the last entry.   *)
LEMMA FencesReach ==
  ASSUME NEW size \in Nat
  PROVE  /\ NumFencePtrs(size) \in Nat
         /\ size = 0 => NumFencePtrs(size) = 0
         /\ size > 0 => /\ NumFencePtrs(size) > 0
                        /\ (NumFencePtrs(size) - 1) * K < size
         /\ size <= NumFencePtrs(size) * K
<1> DEFINE N == (size + K - 1) \div K
<1>1. K \in Nat \ {0}
  BY Multiples
<1> HIDE DEF K
<1>2. N \in Nat /\ N * K <= size + K - 1 /\ size + K - 1 < N * K + K
  BY <1>1, SMT
<1>3. (N - 1) * K = N * K - K
  BY <1>1, <1>2, SMT
<1>4. size = 0 => N = 0
  <2> SUFFICES ASSUME size = 0, N >= 1 PROVE FALSE
    BY <1>2
  <2>1. 1 * K <= N * K
    BY <1>2, Multiples
  <2> QED
    BY <2>1, <1>1, <1>2
<1>5. size > 0 => N > 0
  <2> SUFFICES ASSUME size > 0, N = 0 PROVE FALSE
    BY <1>2
  <2>1. N * K = 0
    BY <1>1, SMT
  <2> QED
    BY <2>1, <1>1, <1>2
<1>6. N * K \in Int
  BY <1>1, <1>2
<1>7. NumFencePtrs(size) = N
  BY DEF NumFencePtrs, K
<1> HIDE DEF N
<1>8. (size > 0 => (N - 1) * K < size) /\ size <= N * K
  BY <1>1, <1>2, <1>3, <1>6
<1> QED
  BY <1>2, <1>4, <1>5, <1>7, <1>8

(* What is left of an array of that size behind the first n segments.      *)
LEMMA SegmentEnds ==
  ASSUME NEW size \in Nat, NEW n \in 0 .. (NumFencePtrs(size) - 1)
  PROVE  /\ n * K \in Nat /\ n * K < size
         /\ n < NumFencePtrs(size) - 1 => (n + 1) * K < size
         /\ n = NumFencePtrs(size) - 1 => size <= (n + 1) * K
<1> DEFINE N == NumFencePtrs(size)
<1>1. N \in Nat /\ size <= N * K /\ (size > 0 => (N - 1) * K < size) /\ (size = 0 => N = 0)
  BY FencesReach
<1> HIDE DEF N
<1>2. size > 0
  BY <1>1 DEF N
<1>3. 0 * K <= n * K /\ n * K <= (N - 1) * K
  BY <1>1, Multiples DEF N
<1>4. 0 * K = 0
  BY Multiples
<1>5. n * K \in Int /\ (N - 1) * K \in Int
  BY <1>1, Multiples DEF N
<1>6. n < N - 1 => (n + 1) * K <= (N - 1) * K /\ (n + 1) * K \in Int
  BY <1>1, Multiples DEF N
<1>7. n = N - 1 => n + 1 = N
  BY <1>1
<1>8. n * K \in Nat /\ n * K < size
  BY <1>1, <1>2, <1>3, <1>4, <1>5
<1>9. n < N - 1 => (n + 1) * K < size
  BY <1>1, <1>2, <1>5, <1>6
<1> QED
  BY <1>1, <1>7, <1>8, <1>9 DEF N

(* The segment of any entry is one of the first, whatever the number of    *)
(* entries was taken to be, if it was not taken too small.                 *)
LEMMA SegmentAllocated ==
  ASSUME NEW size \in Nat, NEW count \in Nat, size <= count
  PROVE  /\ NumFencePtrs(size) <= NumFencePtrs(count)
         /\ size > 0 => (size - 1) \div K \in 0 .. (NumFencePtrs(count) - 1)
<1> DEFINE N == NumFencePtrs(size)
           M == NumFencePtrs(count)
           q == (size - 1) \div K
<1>1. K \in Nat \ {0}
  BY Multiples
<1>2. N \in Nat /\ M \in Nat /\ count <= M * K /\ (size = 0 => N = 0) /\ (size > 0 => (N - 1) * K < size)
  BY FencesReach
<1>3. M * K \in Int /\ (N - 1) * K \in Int
  BY <1>2, Multiples
<1>4. N <= M
  <2> SUFFICES ASSUME M <= N - 1 PROVE FALSE
    BY <1>2
  <2>1. M * K <= (N - 1) * K
    BY <1>2, Multiples
  <2> QED
    BY <2>1, <1>2, <1>3
<1>5. size > 0 => q \in 0 .. (M - 1)
  <2> SUFFICES ASSUME size > 0 PROVE q \in 0 .. (M - 1)
    OBVIOUS
  <2>1. q \in Nat /\ q * K <= size - 1
    <3> HIDE DEF K
    <3> QED
      BY <1>1, SMT
  <2>2. q * K \in Int
    BY <2>1, Multiples
  <2> HIDE DEF q
  <2>3. M <= q => M * K <= q * K
    BY <2>1, <1>2, Multiples
  <2> QED
    BY <2>1, <2>2, <2>3, <1>2, <1>3
<1> QED
  BY <1>4, <1>5

-----------------------------------------------------------------------------
(* Arrays as sequences.                                                    *)

LEMMA LenEntries ==
  ASSUME Pointers
  PROVE  Len(Entries) = curr_size /\ Len(data) \in Nat /\ curr_size \in Nat
<1>1. PICK S : data \in Seq(S)
  BY DEF Pointers, IsSequence
<1>2. Len(data) \in Nat /\ curr_size \in Nat /\ curr_size <= Len(data)
  BY <1>1, LenProperties DEF Pointers
<1>3. \A p \in 1 .. curr_size : data[p] \in S
  BY <1>1, <1>2, ElementOfSeq
<1> QED
  BY <1>2, <1>3, SubSeqProperties DEF Entries

-----------------------------------------------------------------------------
(* The writing of an entry, in any of the five places.                     *)

LEMMA WritePointers ==
  ASSUME Pointers, pc = "merge", NEW entry, Write(entry),
         NEW mine \in 0 .. curr_size, my_ptr' = mine,
         NEW theirs \in 0 .. Len(child), child_ptr' = theirs,
         mine + theirs > my_ptr + child_ptr
  PROVE  Pointers'
<1>1. /\ temp' = Append(temp, entry)
      /\ data' = data /\ curr_size' = curr_size /\ child' = child /\ pc' = pc
  BY DEF Write
<1>2. IsSequence(temp') /\ Len(temp) \in Nat /\ Len(temp') = Len(temp) + 1
  BY <1>1, AppendSequence DEF Pointers
<1>3. Len(temp') <= mine + theirs
  <2>1. curr_size \in Nat /\ Len(child) \in Nat
    BY LenEntries DEF Pointers
  <2>2. my_ptr \in Nat /\ child_ptr \in Nat /\ Len(temp) <= my_ptr + child_ptr
    BY <2>1 DEF Pointers
  <2> QED
    BY <2>1, <2>2, <1>2
<1>4. Len(temp') <= my_ptr' + child_ptr'
  BY <1>3
<1> QED
  BY <1>1, <1>2, <1>4 DEF Pointers

LEMMA WriteFilter ==
  ASSUME FilterParameters, Pointers, FilterShape, FilterCovers, pc = "merge",
         NEW entry, Write(entry)
  PROVE  FilterShape' /\ FilterCovers'
<1>1. /\ temp' = Append(temp, entry) /\ pc' = pc
      /\ filter' = insert(filter, {entry.key})
  BY DEF Write
<1>2. KeysIn(temp') = KeysIn(temp) \cup {entry.key}
  BY <1>1, AppendSequence DEF Pointers
<1>3. IsFilter(filter) /\ IsFilter(filter')
  BY <1>1, InsertType DEF FilterShape, FilterParameters
<1>4. \A k \in KeysIn(temp') : contains(filter', k)
  <2>1. \A k \in KeysIn(temp) : contains(filter, k)
    BY DEF FilterCovers
  <2> QED
    BY <2>1, <1>1, <1>2, <1>3, InsertAdds DEF FilterParameters
<1>5. filter' # nullptr
  BY <1>3 DEF FilterParameters
<1> QED
  BY <1>1, <1>3, <1>4, <1>5 DEF FilterShape, FilterCovers

LEMMA WriteFences ==
  ASSUME Pointers, FencesWritten, pc = "merge", NEW entry, Write(entry)
  PROVE  FencesWritten'
<1> DEFINE t == Len(temp)
           q == t \div K
<1>1. /\ temp' = Append(temp, entry) /\ pc' = pc
      /\ fp_array' = Fenced(fp_array, temp, entry)
      /\ curr_size' = curr_size /\ child' = child
  BY DEF Write
<1>2. /\ t \in Nat /\ Len(temp') = t + 1
      /\ \A p \in 1 .. t : temp'[p] = temp[p]
      /\ temp'[t + 1] = entry
  BY <1>1, AppendSequence DEF Pointers
<1>3. DOMAIN fp_array' = DOMAIN fp_array
  BY <1>1 DEF Fenced
<1>4. DOMAIN fp_array' = 0 .. (NumFencePtrs(curr_size' + Len(child')) - 1)
  BY <1>1, <1>3 DEF FencesWritten
<1> SUFFICES ASSUME NEW n \in DOMAIN fp_array
             PROVE  /\ fp_array'[n] = [min_key |-> fp_array'[n].min_key,
                                       max_key |-> fp_array'[n].max_key,
                                       offset  |-> fp_array'[n].offset]
                    /\ n * K < t + 1 => /\ fp_array'[n].min_key = temp'[n * K + 1].key
                                        /\ fp_array'[n].offset = n * K
                    /\ (n + 1) * K < t + 1 =>
                          fp_array'[n].max_key = temp'[(n + 1) * K].key
  BY <1>1, <1>2, <1>3, <1>4 DEF FencesWritten
<1>5. n \in Nat
  BY DEF FencesWritten
<1>6. /\ n * K \in Nat /\ (n + 1) * K = n * K + K /\ K \in Nat \ {0}
      /\ (n + 1) * K \in Nat
  <2>1. 0 * K <= n * K /\ 0 * K = 0
    BY <1>5, Multiples
  <2> QED
    BY <2>1, <1>5, Multiples
<1>7. /\ fp_array[n] = [min_key |-> fp_array[n].min_key,
                        max_key |-> fp_array[n].max_key,
                        offset  |-> fp_array[n].offset]
      /\ n * K < t => fp_array[n].min_key = temp[n * K + 1].key /\ fp_array[n].offset = n * K
      /\ (n + 1) * K < t => fp_array[n].max_key = temp[(n + 1) * K].key
  BY DEF FencesWritten
<1> HIDE DEF t, K
<1>8. CASE t % K # 0
  <2>1. fp_array' = fp_array
    BY <1>1, <1>8 DEF Fenced, t, K
  <2>2. (n * K) % K = 0 /\ ((n + 1) * K) % K = 0
    BY <1>5, NoRest
  <2>3. n * K # t /\ (n + 1) * K # t
    BY <2>2, <1>8
  <2> QED
    BY <2>1, <2>3, <1>2, <1>6, <1>7
<1>9. CASE t % K = 0
  <2>1. q \in Nat /\ t = q * K
    BY <1>2, <1>6, <1>9, SMT
  <2> HIDE DEF q
  <2>2. fp_array'[n] = IF n = q THEN [fp_array[n] EXCEPT !.min_key = entry.key, !.offset = t]
                       ELSE IF n = q - 1 THEN [fp_array[n] EXCEPT !.max_key = temp[t].key]
                       ELSE fp_array[n]
    BY <1>1, <1>9 DEF Fenced, t, q, K
  <2>3. n # q => n * K # t
    BY <2>1, <1>5, DifferentMultiples
  <2>4. n # q - 1 => (n + 1) * K # t
    BY <2>1, <1>5, DifferentMultiples
  <2>5. CASE n = q
    <3>1. fp_array'[n] = [min_key |-> entry.key, max_key |-> fp_array[n].max_key, offset |-> t]
      BY <2>2, <2>5, <1>7
    <3> QED
      BY <3>1, <2>1, <2>5, <1>2, <1>6
  <2>6. CASE n = q - 1
    <3>1. fp_array'[n] = [min_key |-> fp_array[n].min_key, max_key |-> temp[t].key,
                          offset  |-> fp_array[n].offset]
      BY <2>1, <2>2, <2>6, <1>7
    <3>2. (n + 1) * K = t
      BY <2>1, <2>6
    <3> QED
      BY <3>1, <3>2, <1>2, <1>6, <1>7
  <2>7. CASE n # q /\ n # q - 1
    BY <2>2, <2>3, <2>4, <2>7, <1>2, <1>6, <1>7
  <2> QED
    BY <2>5, <2>6, <2>7
<1> QED
  BY <1>8, <1>9

LEMMA WriteKeeps ==
  ASSUME FilterParameters, LInv, UNCHANGED <<key, search>>, pc = "merge",
         NEW entry, Write(entry),
         NEW mine \in 0 .. curr_size, my_ptr' = mine,
         NEW theirs \in 0 .. Len(child), child_ptr' = theirs,
         mine + theirs > my_ptr + child_ptr
  PROVE  LInv'
<1>1. Pointers'
  BY WritePointers DEF LInv
<1>2. FilterShape' /\ FilterCovers'
  BY WriteFilter DEF LInv
<1>3. FencesWritten'
  BY WriteFences DEF LInv
<1>4. pc' = "merge" /\ reads' = reads
  BY DEF Write, search
<1>5. FencesAsConstructed' /\ ReadNoted'
  BY <1>4 DEF FencesAsConstructed, ReadNoted, LInv
<1> QED
  BY <1>1, <1>2, <1>3, <1>5 DEF LInv

-----------------------------------------------------------------------------
(* A merge begins, goes on, and ends.                                      *)

LEMMA PointerTypes ==
  ASSUME Pointers
  PROVE  /\ curr_size \in Nat /\ Len(child) \in Nat /\ Len(temp) \in Nat
         /\ my_ptr \in Nat /\ child_ptr \in Nat
         /\ my_ptr <= curr_size /\ child_ptr <= Len(child)
         /\ Len(temp) <= curr_size + Len(child)
<1>1. curr_size \in Nat /\ Len(child) \in Nat /\ Len(temp) \in Nat
  BY LenEntries, WholeSequence DEF Pointers
<1>2. /\ my_ptr \in 0 .. curr_size /\ child_ptr \in 0 .. Len(child)
      /\ Len(temp) <= my_ptr + child_ptr
  BY DEF Pointers
<1> QED
  BY <1>1, <1>2

LEMMA BeginKeeps ==
  ASSUME FilterParameters, LInv, UNCHANGED <<key, search>>,
         NEW run \in Run, BeginMerge(run)
  PROVE  LInv'
<1> DEFINE count == curr_size + Size(run)
<1>1. /\ pc = "idle" /\ pc' = "merge" /\ run # Empty
      /\ child' = Array(run)
      /\ filter' = NewFilter(count) /\ fp_array' = Allocated(count)
      /\ data' = data /\ curr_size' = curr_size
      /\ my_ptr' = my_ptr /\ child_ptr' = child_ptr /\ temp' = temp
      /\ reads' = reads
  BY DEF BeginMerge, search
<1>2. /\ my_ptr = 0 /\ child_ptr = 0 /\ temp = <<>> /\ curr_size \in Nat
  BY <1>1, PointerTypes DEF LInv, Pointers, NoMerge
<1>3. Len(child') = Size(run) /\ Size(run) \in Nat \ {0}
  BY <1>1, LenArray, SizeZero
<1>4. Pointers'
  <2>1. IsSequence(temp') /\ Len(temp') = 0
    BY <1>1, <1>2, EmptySequence
  <2>2. Len(temp') <= my_ptr' + child_ptr'
    BY <2>1, <1>1, <1>2
  <2>3. my_ptr' \in 0 .. curr_size' /\ child_ptr' \in 0 .. Len(child')
    BY <1>1, <1>2, <1>3
  <2>4. IsSequence(data') /\ curr_size' \in 0 .. Len(data')
    BY <1>1 DEF LInv, Pointers
  <2> QED
    BY <2>1, <2>2, <2>3, <2>4, <1>1, <1>3 DEF Pointers
<1>5. FilterShape' /\ FilterCovers'
  <2>1. IsFilter(filter')
    BY <1>1, <1>2, <1>3, NewFilterType DEF FilterParameters
  <2>2. KeysIn(temp') = {}
    BY <1>1, <1>2, EmptySequence
  <2> QED
    BY <2>1, <2>2, <1>1 DEF FilterShape, FilterCovers, FilterParameters
<1>6. FencesWritten'
  <2>1. Len(temp') = 0
    BY <1>1, <1>2, EmptySequence
  <2>2. DOMAIN fp_array' = 0 .. (NumFencePtrs(curr_size' + Len(child')) - 1)
    BY <1>1, <1>3 DEF Allocated
  <2> SUFFICES ASSUME NEW n \in DOMAIN fp_array'
               PROVE  /\ fp_array'[n] = [min_key |-> fp_array'[n].min_key,
                                         max_key |-> fp_array'[n].max_key,
                                         offset  |-> fp_array'[n].offset]
                      /\ ~ (n * K < 0) /\ ~ ((n + 1) * K < 0)
    BY <2>1, <2>2 DEF FencesWritten
  <2>3. fp_array'[n] = [min_key |-> Uninitialized, max_key |-> Uninitialized,
                        offset  |-> Uninitialized]
    BY <1>1 DEF Allocated
  <2>4. n \in Nat
    BY <2>2
  <2>5. n * K \in Nat /\ (n + 1) * K \in Nat
    BY <2>4, Multiples
  <2> QED
    BY <2>3, <2>5
<1>7. FencesAsConstructed' /\ ReadNoted'
  BY <1>1 DEF FencesAsConstructed, ReadNoted, LInv
<1> QED
  BY <1>4, <1>5, <1>6, <1>7 DEF LInv

LEMMA FinishKeeps ==
  ASSUME FilterParameters, LInv, UNCHANGED <<key, search>>, Finish
  PROVE  LInv'
<1> DEFINE t == Len(temp)
           last == NumFencePtrs(t) - 1
<1>1. /\ pc = "merge" /\ pc' = "idle"
      /\ data' = temp /\ curr_size' = t /\ temp' = <<>> /\ child' = <<>>
      /\ my_ptr' = 0 /\ child_ptr' = 0
      /\ num_fence_ptrs' = NumFencePtrs(t)
      /\ filter' = filter /\ reads' = reads
      /\ fp_array' = IF last < 0 THEN fp_array
                     ELSE [fp_array EXCEPT ![last].max_key = Last(temp).key]
  BY DEF Finish, AllWritten, Replaced, search
<1>2. t \in Nat /\ IsSequence(temp) /\ Entries' = temp
  <2>1. IsSequence(temp)
    BY DEF LInv, Pointers
  <2> QED
    BY <2>1, <1>1, WholeSequence DEF Entries
<1>3. Pointers'
  <2>1. Len(temp') = 0 /\ IsSequence(temp') /\ Len(child') = 0
    BY <1>1, EmptySequence
  <2>2. IsSequence(data') /\ curr_size' \in 0 .. Len(data') /\ curr_size' \in Nat
    BY <1>1, <1>2
  <2>3. my_ptr' \in 0 .. curr_size' /\ child_ptr' \in 0 .. Len(child')
    BY <2>1, <2>2, <1>1
  <2>4. Len(temp') <= my_ptr' + child_ptr'
    BY <2>1, <1>1
  <2>5. NoMerge'
    BY <1>1 DEF NoMerge
  <2>6. Len(child') \in Nat /\ IsSequence(temp')
    BY <2>1
  <2> QED
    BY <2>2, <2>3, <2>4, <2>5, <2>6 DEF Pointers
<1>4. FilterShape' /\ FilterCovers'
  BY <1>1, <1>2 DEF LInv, FilterShape, FilterCovers
<1>5. FencesAsConstructed'
  <2>1. /\ t <= curr_size + Len(child)
        /\ curr_size + Len(child) \in Nat
    BY PointerTypes DEF LInv
  <2>2. last \in Int /\ last + 1 \in Nat /\ last <= NumFencePtrs(curr_size + Len(child)) - 1
    BY <2>1, <1>2, SegmentAllocated, FencesReach
  <2> SUFFICES ASSUME NEW n \in 0 .. last
               PROVE  fp_array'[n] = Constructed(temp)[n]
    BY <1>1, <1>2, <2>2 DEF FencesAsConstructed
  <2>3. n \in DOMAIN fp_array /\ last \in DOMAIN fp_array /\ n \in Nat
    BY <1>1, <2>1, <2>2, FencesReach DEF LInv, FencesWritten
  <2>4. /\ n * K \in Nat /\ n * K < t
        /\ n < last => (n + 1) * K < t
        /\ n = last => t <= (n + 1) * K
    BY <1>2, SegmentEnds
  <2>5. (n + 1) * K = n * K + K /\ K \in Nat \ {0}
    BY <2>3, Multiples
  <2>6. /\ fp_array[n] = [min_key |-> fp_array[n].min_key,
                          max_key |-> fp_array[n].max_key,
                          offset  |-> fp_array[n].offset]
        /\ fp_array[n].min_key = temp[n * K + 1].key /\ fp_array[n].offset = n * K
        /\ n < last => fp_array[n].max_key = temp[(n + 1) * K].key
    BY <1>1, <2>3, <2>4 DEF LInv, FencesWritten
  <2>7. fp_array'[n] = IF n = last THEN [fp_array[n] EXCEPT !.max_key = temp[t].key]
                       ELSE fp_array[n]
    BY <1>1, <2>2, <2>3 DEF Last
  <2> DEFINE end == IF (n + 1) * K - 1 >= t THEN t - 1 ELSE (n + 1) * K - 1
  <2>8. Constructed(temp)[n] = [min_key |-> temp[n * K + 1].key,
                                max_key |-> temp[end + 1].key,
                                offset  |-> n * K]
    BY <2>2 DEF Constructed, K
  <2> HIDE DEF last, t, K
  <2>9. CASE n = last
    <3>1. end + 1 = t
      BY <2>4, <2>5, <2>9, <1>2
    <3> QED
      BY <3>1, <2>6, <2>7, <2>8, <2>9
  <2>10. CASE n < last
    <3>1. end + 1 = (n + 1) * K
      BY <2>4, <2>5, <2>10, <1>2
    <3> QED
      BY <3>1, <2>2, <2>3, <2>6, <2>7, <2>8, <2>10
  <2> QED
    BY <2>2, <2>9, <2>10
<1>6. FencesWritten' /\ ReadNoted'
  BY <1>1 DEF LInv, FencesWritten, ReadNoted
<1> QED
  BY <1>3, <1>4, <1>5, <1>6 DEF LInv

LEMMA MergeKeeps ==
  ASSUME FilterParameters, LInv, UNCHANGED <<key, search>>, MergeStep
  PROVE  LInv'
<1>1. /\ curr_size \in Nat /\ Len(child) \in Nat
      /\ my_ptr \in Nat /\ child_ptr \in Nat
      /\ my_ptr <= curr_size /\ child_ptr <= Len(child)
  BY PointerTypes DEF LInv
<1>2. CASE SkipBoth
  <2>1. /\ my_ptr < curr_size /\ child_ptr < Len(child)
        /\ my_ptr' = my_ptr + 1 /\ child_ptr' = child_ptr + 1
        /\ UNCHANGED <<level, child, temp, pc>> /\ pc = "merge"
    BY <1>2 DEF SkipBoth, BothLeft
  <2>2. Pointers'
    <3>1. Len(temp) \in Nat /\ Len(temp) <= my_ptr + child_ptr
      BY PointerTypes DEF LInv, Pointers
    <3>2. Len(temp') <= my_ptr' + child_ptr'
      BY <3>1, <2>1, <1>1
    <3>3. my_ptr' \in 0 .. curr_size' /\ child_ptr' \in 0 .. Len(child')
      BY <2>1, <1>1 DEF level
    <3> QED
      BY <3>2, <3>3, <2>1 DEF LInv, Pointers, level
  <2>3. FilterShape' /\ FilterCovers'
    BY <2>1 DEF LInv, FilterShape, FilterCovers, level
  <2>4. FencesWritten'
    BY <2>1 DEF LInv, FencesWritten, level
  <2>5. FencesAsConstructed' /\ ReadNoted'
    BY <2>1 DEF LInv, FencesAsConstructed, ReadNoted, search
  <2> QED
    BY <2>2, <2>3, <2>4, <2>5 DEF LInv
<1>3. CASE TakeMine
  BY <1>1, <1>3, WriteKeeps DEF TakeMine, BothLeft
<1>4. CASE TakeTheirs
  BY <1>1, <1>4, WriteKeeps DEF TakeTheirs, BothLeft
<1>5. CASE Replace
  BY <1>1, <1>5, WriteKeeps DEF Replace, BothLeft
<1>6. CASE CopyMine
  BY <1>1, <1>6, WriteKeeps DEF CopyMine, OneLeft
<1>7. CASE CopyTheirs
  BY <1>1, <1>7, WriteKeeps DEF CopyTheirs, OneLeft
<1>8. CASE Finish
  BY <1>8, FinishKeeps
<1> QED
  BY <1>2, <1>3, <1>4, <1>5, <1>6, <1>7, <1>8 DEF MergeStep

-----------------------------------------------------------------------------
(* The level is handed on, started over, or searched.                      *)

LEMMA DrainKeeps ==
  ASSUME FilterParameters, LInv, UNCHANGED <<merge, key, search>>, Drain
  PROVE  LInv'
<1>1. /\ pc = "idle" /\ pc' = pc /\ data' = data /\ curr_size' = 0
      /\ filter' = nullptr /\ num_fence_ptrs' = 0
      /\ child' = child /\ my_ptr' = my_ptr /\ child_ptr' = child_ptr /\ temp' = temp
      /\ reads' = reads
  BY DEF Drain, merge, search
<1>2. NoMerge /\ IsSequence(data) /\ Len(data) \in Nat
  BY <1>1, LenEntries DEF LInv, Pointers
<1>3. Pointers'
  <2>1. IsSequence(temp') /\ Len(temp') = 0 /\ Len(child') = 0
    BY <1>1, <1>2, EmptySequence DEF NoMerge
  <2>2. my_ptr' = 0 /\ child_ptr' = 0 /\ NoMerge'
    BY <1>1, <1>2 DEF NoMerge
  <2>3. IsSequence(data') /\ curr_size' \in 0 .. Len(data')
    BY <1>1, <1>2
  <2>4. my_ptr' \in 0 .. curr_size' /\ child_ptr' \in 0 .. Len(child')
    BY <2>1, <2>2, <1>1
  <2>5. Len(temp') <= my_ptr' + child_ptr' /\ Len(child') \in Nat
    BY <2>1, <2>2
  <2> QED
    BY <2>1, <2>2, <2>3, <2>4, <2>5 DEF Pointers
<1>4. Entries' = <<>>
  BY <1>1, SubSeqEmpty DEF Entries
<1>5. FilterShape' /\ FilterCovers'
  BY <1>1, <1>4, EmptySequence DEF FilterShape, FilterCovers
<1>6. FencesAsConstructed'
  BY <1>1, FencesReach DEF FencesAsConstructed
<1>7. FencesWritten' /\ ReadNoted'
  BY <1>1 DEF LInv, FencesWritten, ReadNoted
<1> QED
  BY <1>3, <1>5, <1>6, <1>7 DEF LInv

LEMMA ConstructKeeps ==
  ASSUME FilterParameters, LInv, UNCHANGED <<merge, key, search>>, bf_fp_construct
  PROVE  LInv'
<1>1. /\ pc = "idle" /\ pc' = pc /\ data' = data /\ curr_size' = curr_size
      /\ filter' = IF curr_size = 0 THEN nullptr
                   ELSE insert(NewFilter(curr_size), KeysIn(Entries))
      /\ fp_array' = Constructed(Entries)
      /\ num_fence_ptrs' = NumFencePtrs(curr_size)
      /\ child' = child /\ my_ptr' = my_ptr /\ child_ptr' = child_ptr /\ temp' = temp
      /\ reads' = reads
  BY DEF bf_fp_construct, merge, search
<1>2. Pointers'
  BY <1>1 DEF LInv, Pointers, NoMerge
<1>3. Entries' = Entries /\ Len(Entries) = curr_size /\ curr_size \in Nat
  BY <1>1, LenEntries DEF Entries, LInv
<1>4. FilterShape' /\ FilterCovers'
  <2>1. CASE curr_size = 0
    <3>1. KeysIn(Entries) = {}
      BY <2>1, <1>3 DEF KeysIn
    <3> QED
      BY <3>1, <2>1, <1>1, <1>3 DEF FilterShape, FilterCovers
  <2>2. CASE curr_size # 0
    <3>1. IsFilter(NewFilter(curr_size))
      BY <2>2, <1>3, NewFilterType DEF FilterParameters
    <3>2. IsFilter(filter') /\ \A k \in KeysIn(Entries) : contains(filter', k)
      BY <3>1, <2>2, <1>1, InsertType, InsertAdds DEF FilterParameters
    <3> QED
      BY <3>2, <1>1, <1>3 DEF FilterShape, FilterCovers, FilterParameters
  <2> QED
    BY <2>1, <2>2
<1>5. FencesAsConstructed'
  BY <1>1, <1>3 DEF FencesAsConstructed
<1>6. FencesWritten' /\ ReadNoted'
  BY <1>1 DEF LInv, FencesWritten, ReadNoted
<1> QED
  BY <1>2, <1>4, <1>5, <1>6 DEF LInv

(* A search leaves the level as it is, and reads once at most.             *)
LEMMA SearchKeeps ==
  ASSUME LInv, UNCHANGED merge, (\E k \in Probes : Ask(k)) \/ SearchStep
  PROVE  LInv'
<1>1. UNCHANGED level /\ pc # "merge" /\ pc' # "merge"
  <2>1. CASE \E k \in Probes : Ask(k)
    BY <2>1 DEF Ask
  <2>2. CASE SearchStep
    BY <2>2 DEF SearchStep, FilterExcludes, FilterContains, Narrow, Read, GiveUp,
                Hit, Halve, Miss, Return
  <2> QED
    BY <2>1, <2>2
<1>2. Pointers' /\ FilterShape' /\ FencesWritten'
  BY <1>1 DEF LInv, Pointers, FilterShape, FencesWritten, NoMerge, level, merge
<1>3. Entries' = Entries
  BY <1>1 DEF Entries, level
<1>4. FilterCovers' /\ FencesAsConstructed'
  BY <1>1, <1>3 DEF LInv, FilterCovers, FencesAsConstructed, level, merge
<1>5. ReadNoted'
  <2>1. CASE \E k \in Probes : Ask(k)
    BY <2>1 DEF Ask, LInv, ReadNoted
  <2>2. CASE Read
    BY <2>2 DEF Read, LInv, ReadNoted, ReadsCounted
  <2>3. CASE FilterExcludes \/ FilterContains \/ Narrow \/ GiveUp
    BY <2>3 DEF FilterExcludes, FilterContains, Narrow, GiveUp, search, LInv, ReadNoted
  <2>4. CASE Hit \/ Halve \/ Miss \/ Return
    BY <2>4 DEF Hit, Halve, Miss, Return, search, LInv, ReadNoted
  <2> QED
    BY <2>1, <2>2, <2>3, <2>4 DEF SearchStep
<1> QED
  BY <1>2, <1>4, <1>5 DEF LInv

-----------------------------------------------------------------------------
LEMMA InitLInv ==
  ASSUME Init
  PROVE  LInv
<1>1. /\ data = <<>> /\ curr_size = 0 /\ filter = nullptr /\ num_fence_ptrs = 0
      /\ NoMerge /\ reads = 0 /\ pc = "idle"
  BY DEF Init, NoSearch
<1>2. Pointers
  BY <1>1, EmptySequence DEF Pointers, NoMerge
<1>3. Entries = <<>>
  BY <1>1, SubSeqEmpty DEF Entries
<1> QED
  BY <1>1, <1>2, <1>3, EmptySequence, FencesReach
     DEF LInv, FilterShape, FilterCovers, FencesWritten, FencesAsConstructed, ReadNoted

LEMMA NextLInv ==
  ASSUME FilterParameters, LInv, [Next]_vars
  PROVE  LInv'
<1>1. CASE (\E run \in Run : BeginMerge(run)) /\ UNCHANGED <<key, search>>
  BY <1>1, BeginKeeps
<1>2. CASE MergeStep /\ UNCHANGED <<key, search>>
  BY <1>2, MergeKeeps
<1>3. CASE (Drain \/ bf_fp_construct) /\ UNCHANGED <<merge, key, search>>
  BY <1>3, DrainKeeps, ConstructKeeps
<1>4. CASE ((\E k \in Probes : Ask(k)) \/ SearchStep) /\ UNCHANGED merge
  BY <1>4, SearchKeeps
<1>5. CASE UNCHANGED vars
  <2>1. UNCHANGED <<level, merge, key, search, pc>>
    BY <1>5 DEF vars
  <2>2. Entries' = Entries
    BY <2>1 DEF Entries, level
  <2>3. Pointers' /\ FilterShape' /\ FencesWritten'
    BY <2>1 DEF LInv, Pointers, FilterShape, FencesWritten, NoMerge, level, merge
  <2>4. FilterCovers' /\ FencesAsConstructed' /\ ReadNoted'
    BY <2>1, <2>2 DEF LInv, FilterCovers, FencesAsConstructed, ReadNoted, level, merge, search
  <2> QED
    BY <2>3, <2>4 DEF LInv
<1> QED
  BY <1>1, <1>2, <1>3, <1>4, <1>5 DEF Next

LEMMA AlwaysLInv ==
  ASSUME FilterParameters
  PROVE  Spec => []LInv
<1>1. Init => LInv
  BY InitLInv
<1>2. LInv /\ [Next]_vars => LInv'
  BY NextLInv
<1> QED
  BY <1>1, <1>2, PTL DEF Spec

(* Whatever merges, hand-overs and restarts came before, the filter of a   *)
(* level admits every key the level has, or is being given by a merge.     *)
THEOREM FilterCorrect ==
  ASSUME FilterParameters
  PROVE  Spec => []FilterCovers
<1>1. LInv => FilterCovers
  BY DEF LInv
<1> QED
  BY <1>1, AlwaysLInv, PTL

(* No access to a filter's table is outside its vector of bytes.           *)
THEOREM TableCorrect ==
  ASSUME FilterParameters
  PROVE  Spec => []BitsInTable
<1>1. LInv => BitsInTable
  <2> SUFFICES ASSUME LInv, filter # nullptr, NEW k \in Probes,
                      NEW b \in bit_indices(filter, k)
               PROVE  b \div bits_per_char \in DOMAIN filter.bit_table
    BY DEF BitsInTable
  <2>1. IsFilter(filter)
    BY DEF LInv, FilterShape
  <2> QED
    BY <2>1, BitIndices DEF FilterParameters, IsFilter
<1> QED
  BY <1>1, AlwaysLInv, PTL

(* The array of fence pointers, allocated before a merge, has room for     *)
(* every segment that the merge writes.                                    *)
THEOREM AllocationCorrect ==
  ASSUME FilterParameters
  PROVE  Spec => []FencesWithinArray
<1>1. LInv => FencesWithinArray
  <2> SUFFICES ASSUME LInv, temp # <<>>
               PROVE  (Len(temp) - 1) \div K \in DOMAIN fp_array
    BY DEF FencesWithinArray, K
  <2>1. pc = "merge"
    BY DEF LInv, Pointers, NoMerge
  <2>2. DOMAIN fp_array = 0 .. (NumFencePtrs(curr_size + Len(child)) - 1)
    BY <2>1 DEF LInv, FencesWritten
  <2>3. Len(temp) \in Nat \ {0}
    <3>1. PICK S : temp \in Seq(S)
      BY DEF LInv, Pointers, IsSequence
    <3> QED
      BY <3>1, EmptySeq
  <2>4. curr_size + Len(child) \in Nat /\ Len(temp) <= curr_size + Len(child)
    BY PointerTypes DEF LInv
  <2> QED
    BY <2>2, <2>3, <2>4, SegmentAllocated
<1> QED
  BY <1>1, AlwaysLInv, PTL

(* The fence pointers of a level are those that a restart would construct  *)
(* from its file.                                                          *)
THEOREM FencesCorrect ==
  ASSUME FilterParameters
  PROVE  Spec => []FencesAsConstructed
<1>1. LInv => FencesAsConstructed
  BY DEF LInv
<1> QED
  BY <1>1, AlwaysLInv, PTL

(* A search reads entries the level has, no more than fit its array.       *)
THEOREM ReadsCorrect ==
  ASSUME FilterParameters
  PROVE  Spec => []ReadsFit
<1>1. LInv => ReadsFit
  <2> SUFFICES ASSUME LInv, pc # "merge", NEW n \in 0 .. (num_fence_ptrs - 1)
               PROVE  LET entries == EntriesToRead(n)
                      IN  /\ 0 < entries /\ entries <= K
                          /\ fp_array[n].offset + entries <= curr_size
    BY DEF ReadsFit, K
  <2>1. num_fence_ptrs = NumFencePtrs(curr_size) /\ fp_array[n] = Constructed(Entries)[n]
    BY DEF LInv, FencesAsConstructed
  <2>2. Len(Entries) = curr_size /\ curr_size \in Nat
    BY LenEntries DEF LInv
  <2>3. fp_array[n].offset = n * K
    BY <2>1, <2>2 DEF Constructed, K
  <2>4. /\ n * K \in Nat /\ n * K < curr_size
        /\ n < num_fence_ptrs - 1 => (n + 1) * K < curr_size
        /\ n = num_fence_ptrs - 1 => curr_size <= (n + 1) * K
    BY <2>1, <2>2, SegmentEnds
  <2>5. num_fence_ptrs \in Nat /\ (n + 1) * K = n * K + K /\ K \in Nat \ {0}
    BY <2>1, <2>2, FencesReach, Multiples
  <2>6. EntriesToRead(n) = IF n = num_fence_ptrs - 1 THEN curr_size - n * K ELSE K
    BY DEF EntriesToRead, K
  <2> HIDE DEF K
  <2> QED
    BY <2>2, <2>3, <2>4, <2>5, <2>6
<1> QED
  BY <1>1, AlwaysLInv, PTL

(* A search reads one segment at most, false positives included.           *)
THEOREM OneReadCorrect ==
  ASSUME FilterParameters
  PROVE  Spec => []OneReadOnDisk
<1>1. LInv => OneReadOnDisk
  BY DEF LInv, ReadNoted, OneReadOnDisk
<1> QED
  BY <1>1, AlwaysLInv, PTL

-----------------------------------------------------------------------------
-----------------------------------------------------------------------------
(* Merges, entry by entry.                                                 *)

(* An array with the first entries of a run is the beginning of its array. *)
LEMMA PrefixOfArray ==
  ASSUME NEW run \in Run, NEW a, IsArray(a),
         \A p \in 1 .. Len(a) : run[a[p].key] = a[p].value,
         \A k \in KeysOf(run) : k \in KeysIn(a) \/ \A p \in 1 .. Len(a) : a[p].key < k
  PROVE  /\ IsPrefix(a, Array(run))
         /\ KeysOf(run) \subseteq KeysIn(a) => a = Array(run)
<1> DEFINE t == Array(run)
<1>1. /\ t \in Seq(lsm_data) /\ a \in Seq(lsm_data) /\ Len(a) \in Nat
  BY ArrayOfRun, ArrayEntries DEF IsArray
<1>2. /\ Len(a) <= Len(t)
      /\ \A p \in 1 .. Len(a) : a[p] = t[p] /\ p \in 1 .. Len(t)
      /\ KeysOf(run) \subseteq KeysIn(a) => a = t
  BY FirstOfArray
<1> HIDE DEF t
<1>3. IsPrefix(a, t)
  <2> DEFINE n == Len(a)
             u == SubSeq(t, 1, n)
  <2>1. SubSeq(a, 1, Len(a)) = a
    BY <1>1, SubSeqFull
  <2>2. \A p \in 1 .. n : t[p] \in lsm_data
    BY <1>1, <1>2, ElementOfSeq
  <2>3. /\ u \in Seq(lsm_data) /\ Len(u) = IF 1 <= n THEN n - 1 + 1 ELSE 0
        /\ \A p \in 1 .. n - 1 + 1 : u[p] = t[1 + p - 1]
    <3>1. n \in Int
      BY <1>1
    <3> QED
      BY <2>2, <3>1, SubSeqProperties
  <2> HIDE DEF u
  <2>4. Len(u) = Len(a)
    BY <1>1, <2>3
  <2>5. ASSUME NEW p \in 1 .. Len(u) PROVE u[p] = a[p]
    <3>1. p \in 1 .. n - 1 + 1 /\ 1 + p - 1 = p /\ p \in 1 .. n
      BY <1>1, <2>4
    <3> QED
      BY <1>2, <2>3, <3>1
  <2>6. u = a
    BY <1>1, <2>3, <2>4, <2>5, SeqEqual
  <2> QED
    BY <1>1, <1>2, <2>1, <2>6 DEF IsPrefix, u
<1> QED
  BY <1>2, <1>3 DEF t

KeysFrom(array, i, j) == {array[p].key : p \in i .. j}

(* A merge has consumed the keys C and has the keys A ahead of it: what it *)
(* has written is what the merged run has of C, and C is before A.         *)
InOrder(C, A, run, written) ==
  /\ \A k \in C : \A l \in A : k < l
  /\ KeysIn(written) \subseteq C
  /\ KeysOf(run) \subseteq KeysIn(written) \cup A
  /\ \A p \in 1 .. Len(written) : run[written[p].key] = written[p].value

LEMMA WriteInOrder ==
  ASSUME NEW C, NEW A, A \subseteq Int, NEW run, NEW t, IsArray(t), InOrder(C, A, run, t),
         NEW e \in lsm_data, e.key \in A, \A l \in A : e.key <= l, run[e.key] = e.value
  PROVE  /\ IsArray(Append(t, e))
         /\ InOrder(C \cup {e.key}, A \ {e.key}, run, Append(t, e))
<1> DEFINE u == Append(t, e)
<1>1. t \in Seq(lsm_data) /\ Len(t) \in Nat
  BY ArrayEntries DEF IsArray
<1>2. /\ u \in Seq(lsm_data) /\ Len(u) = Len(t) + 1
      /\ \A p \in 1 .. Len(t) : u[p] = t[p]
      /\ u[Len(t) + 1] = e
  BY <1>1, AppendProperties
<1>3. KeysIn(u) = KeysIn(t) \cup {e.key}
  BY <1>1, AppendSequence DEF IsSequence
<1>4. KeysIn(t) \subseteq C /\ \A k \in C : k < e.key
  BY DEF InOrder
<1> HIDE DEF u
<1>5. Sorted(u)
  <2> SUFFICES ASSUME NEW p \in 1 .. Len(u), NEW q \in 1 .. Len(u), p < q
               PROVE  u[p].key < u[q].key
    BY DEF Sorted
  <2>1. p \in 1 .. Len(t) /\ u[p] = t[p]
    BY <1>1, <1>2
  <2>2. CASE q = Len(t) + 1
    <3>1. t[p].key \in KeysIn(t)
      BY <2>1 DEF KeysIn
    <3> QED
      BY <1>2, <1>4, <2>1, <2>2, <3>1
  <2>3. CASE q # Len(t) + 1
    <3>1. q \in 1 .. Len(t) /\ u[q] = t[q]
      BY <1>1, <1>2, <2>3
    <3> QED
      BY <2>1, <3>1 DEF IsArray, Sorted
  <2> QED
    BY <2>2, <2>3
<1>6. \A k \in C \cup {e.key} : \A l \in A \ {e.key} : k < l
  <2>1. ASSUME NEW l \in A \ {e.key} PROVE e.key < l
    <3>1. l \in Int /\ e.key \in Int /\ e.key <= l /\ l # e.key
      OBVIOUS
    <3> QED
      BY <3>1
  <2> QED
    BY <2>1 DEF InOrder
<1>7. \A p \in 1 .. Len(u) : run[u[p].key] = u[p].value
  <2> SUFFICES ASSUME NEW p \in 1 .. Len(u) PROVE run[u[p].key] = u[p].value
    OBVIOUS
  <2>1. CASE p = Len(t) + 1
    BY <1>2, <2>1
  <2>2. CASE p # Len(t) + 1
    <3>1. p \in 1 .. Len(t) /\ u[p] = t[p]
      BY <1>1, <1>2, <2>2
    <3> QED
      BY <3>1 DEF InOrder
  <2> QED
    BY <2>1, <2>2
<1>8. KeysOf(run) \subseteq KeysIn(u) \cup (A \ {e.key})
  BY <1>3 DEF InOrder
<1>9. KeysIn(u) \subseteq C \cup {e.key}
  BY <1>3, <1>4
<1> QED
  BY <1>2, <1>5, <1>6, <1>7, <1>8, <1>9 DEF IsArray, InOrder, u

LEMMA SkipInOrder ==
  ASSUME NEW C, NEW A, A \subseteq Int, NEW run, NEW t, InOrder(C, A, run, t),
         NEW k \in A, \A l \in A : k <= l, run[k] = None
  PROVE  InOrder(C \cup {k}, A \ {k}, run, t)
<1>1. ASSUME NEW l \in A \ {k} PROVE k < l
  <2>1. l \in Int /\ k \in Int /\ k <= l /\ l # k
    OBVIOUS
  <2> QED
    BY <2>1
<1>2. \A j \in C \cup {k} : \A l \in A \ {k} : j < l
  BY <1>1 DEF InOrder
<1>3. KeysOf(run) \subseteq KeysIn(t) \cup (A \ {k})
  BY DEF InOrder, KeysOf
<1> QED
  BY <1>2, <1>3 DEF InOrder

(* A pointer moves on: the key it was at is the smallest ahead.            *)
LEMMA Advance ==
  ASSUME NEW a, IsArray(a), NEW n \in 0 .. Len(a), NEW i \in Nat, i < n
  PROVE  /\ KeysFrom(a, 1, i + 1) = KeysFrom(a, 1, i) \cup {a[i + 1].key}
         /\ a[i + 1].key \in KeysFrom(a, i + 1, n)
         /\ KeysFrom(a, (i + 1) + 1, n) = KeysFrom(a, i + 1, n) \ {a[i + 1].key}
         /\ \A l \in KeysFrom(a, i + 1, n) : a[i + 1].key <= l
         /\ i + 1 \in 1 .. Len(a)
<1>1. Len(a) \in Nat /\ n \in Nat /\ i + 1 \in 1 .. Len(a) /\ i + 1 \in (i + 1) .. n
  BY ArrayEntries
<1>2. 1 .. (i + 1) = (1 .. i) \cup {i + 1}
  OBVIOUS
<1>3. (i + 1) .. n = {i + 1} \cup (((i + 1) + 1) .. n)
  BY <1>1
<1>4. ASSUME NEW p \in ((i + 1) + 1) .. n
      PROVE  a[i + 1].key < a[p].key /\ a[i + 1].key # a[p].key
  <2>1. p \in 1 .. Len(a) /\ i + 1 < p
    BY <1>1
  <2>2. a[i + 1].key < a[p].key
    BY <1>1, <2>1 DEF IsArray, Sorted
  <2>3. a[i + 1].key \in Int /\ a[p].key \in Int
    BY <1>1, <2>1, ArrayEntries
  <2> QED
    BY <2>2, <2>3
<1>5. KeysFrom(a, 1, i + 1) = KeysFrom(a, 1, i) \cup {a[i + 1].key}
  BY <1>2 DEF KeysFrom
<1>6. KeysFrom(a, i + 1, n) = {a[i + 1].key} \cup KeysFrom(a, (i + 1) + 1, n)
  BY <1>3 DEF KeysFrom
<1>7. \A l \in KeysFrom(a, (i + 1) + 1, n) : a[i + 1].key < l /\ a[i + 1].key # l
  BY <1>4 DEF KeysFrom
<1>8. a[i + 1].key \in Int
  BY <1>1, ArrayEntries
<1>9. \A l \in KeysFrom(a, i + 1, n) : a[i + 1].key <= l
  <2> SUFFICES ASSUME NEW l \in KeysFrom(a, i + 1, n) PROVE a[i + 1].key <= l
    OBVIOUS
  <2>1. CASE l = a[i + 1].key
    BY <1>8, <2>1
  <2>2. CASE l \in KeysFrom(a, (i + 1) + 1, n)
    <3>1. PICK p \in ((i + 1) + 1) .. n : l = a[p].key
      BY <2>2 DEF KeysFrom
    <3>2. p \in 1 .. Len(a)
      BY <1>1
    <3>3. l \in Int
      BY <3>1, <3>2, ArrayEntries
    <3> QED
      BY <1>7, <1>8, <2>2, <3>3
  <2> QED
    BY <1>6, <2>1, <2>2
<1> QED
  BY <1>1, <1>5, <1>6, <1>7, <1>9

LEMMA KeysFromType ==
  ASSUME NEW a, IsArray(a), NEW i \in Int, 1 <= i, NEW j \in Int, j <= Len(a)
  PROVE  KeysFrom(a, i, j) \subseteq Keys /\ KeysFrom(a, i, j) \subseteq Int
<1> SUFFICES ASSUME NEW p \in i .. j
             PROVE  a[p].key \in Keys /\ a[p].key \in Int
  BY DEF KeysFrom
<1>1. Len(a) \in Nat
  BY ArrayEntries
<1>2. p \in 1 .. Len(a)
  BY <1>1
<1> QED
  BY <1>2, ArrayEntries

LEMMA KeysSplit ==
  ASSUME NEW a, NEW n \in Nat, NEW i \in 0 .. n
  PROVE  KeysFrom(a, 1, n) = KeysFrom(a, 1, i) \cup KeysFrom(a, i + 1, n)
<1>1. 1 .. n = (1 .. i) \cup ((i + 1) .. n)
  OBVIOUS
<1> QED
  BY <1>1 DEF KeysFrom

(* The keys a merge has consumed, and those it has ahead.                  *)
Consumed == KeysFrom(data, 1, my_ptr) \cup KeysFrom(child, 1, child_ptr)
Ahead == KeysFrom(data, my_ptr + 1, curr_size) \cup KeysFrom(child, child_ptr + 1, Len(child))

(* The run a merge is to write.                                            *)
Merging == MergeRuns(RunOf(Entries), RunOf(child))

Arrays == IsArray(data) /\ IsArray(child) /\ IsArray(temp)

MergedSoFar == pc = "merge" => InOrder(Consumed, Ahead, Merging, temp)

LEMMA EntriesArray ==
  ASSUME Pointers, IsArray(data)
  PROVE  /\ IsArray(Entries) /\ Len(Entries) = curr_size
         /\ curr_size \in Nat /\ curr_size \in 0 .. Len(data)
         /\ \A p \in 1 .. curr_size : p \in 1 .. Len(data) /\ Entries[p] = data[p]
         /\ KeysIn(Entries) = KeysFrom(data, 1, curr_size)
<1>1. curr_size \in Nat /\ curr_size \in 0 .. Len(data) /\ Len(data) \in Nat
  BY ArrayEntries, LenEntries DEF Pointers
<1>2. \A p \in 1 .. curr_size : data[p] \in lsm_data /\ p \in 1 .. Len(data)
  <2>1. \A p \in 1 .. curr_size : p \in 1 .. Len(data)
    BY <1>1
  <2>2. \A p \in 1 .. Len(data) : data[p] \in lsm_data
    BY ArrayEntries
  <2> QED
    BY <2>1, <2>2
<1> DEFINE e == SubSeq(data, 1, curr_size)
<1>3. /\ e \in Seq(lsm_data) /\ Len(e) = IF 1 <= curr_size THEN curr_size - 1 + 1 ELSE 0
      /\ \A p \in 1 .. curr_size - 1 + 1 : e[p] = data[1 + p - 1]
  <2>1. curr_size \in Int
    BY <1>1
  <2> QED
    BY <1>2, <2>1, SubSeqProperties
<1> HIDE DEF e
<1>4. Len(e) = curr_size
  BY <1>1, <1>3
<1>5. ASSUME NEW p \in 1 .. curr_size PROVE e[p] = data[p]
  <2>1. p \in 1 .. curr_size - 1 + 1 /\ 1 + p - 1 = p
    BY <1>1
  <2> QED
    BY <1>3, <2>1
<1>6. Sorted(e)
  <2> SUFFICES ASSUME NEW p \in 1 .. curr_size, NEW q \in 1 .. curr_size, p < q
               PROVE  e[p].key < e[q].key
    BY <1>4 DEF Sorted
  <2> QED
    BY <1>2, <1>5 DEF IsArray, Sorted
<1>7. KeysIn(e) = KeysFrom(data, 1, curr_size)
  BY <1>4, <1>5 DEF KeysIn, KeysFrom
<1> QED
  BY <1>1, <1>2, <1>3, <1>4, <1>5, <1>6, <1>7 DEF Entries, e, IsArray

LEMMA AheadType ==
  ASSUME Pointers, Arrays
  PROVE  Ahead \subseteq Int /\ Ahead \subseteq Keys
<1>1. /\ my_ptr + 1 \in Int /\ 1 <= my_ptr + 1 /\ child_ptr + 1 \in Int /\ 1 <= child_ptr + 1
      /\ curr_size \in Int /\ curr_size <= Len(data) /\ Len(child) \in Int /\ Len(child) <= Len(child)
  BY PointerTypes, EntriesArray, ArrayEntries DEF Arrays, Pointers
<1>2. KeysFrom(data, my_ptr + 1, curr_size) \subseteq Keys /\ KeysFrom(data, my_ptr + 1, curr_size) \subseteq Int
  BY <1>1, KeysFromType DEF Arrays
<1>3. /\ KeysFrom(child, child_ptr + 1, Len(child)) \subseteq Keys
      /\ KeysFrom(child, child_ptr + 1, Len(child)) \subseteq Int
  BY <1>1, KeysFromType DEF Arrays
<1> QED
  BY <1>2, <1>3 DEF Ahead

(* The next entry of the level, and that of the child.                     *)
LEMMA MyNext ==
  ASSUME Pointers, Arrays, my_ptr < curr_size
  PROVE  /\ Mine \in lsm_data
         /\ KeysFrom(data, 1, my_ptr + 1) = KeysFrom(data, 1, my_ptr) \cup {Mine.key}
         /\ KeysFrom(data, (my_ptr + 1) + 1, curr_size) =
              KeysFrom(data, my_ptr + 1, curr_size) \ {Mine.key}
         /\ Mine.key \in KeysFrom(data, my_ptr + 1, curr_size)
         /\ \A l \in KeysFrom(data, my_ptr + 1, curr_size) : Mine.key <= l
         /\ RunOf(Entries)[Mine.key] = Mine.value
<1>1. my_ptr \in Nat /\ curr_size \in 0 .. Len(data) /\ curr_size \in Nat
  BY PointerTypes DEF Pointers
<1>2. my_ptr + 1 \in 1 .. curr_size
  BY <1>1
<1>3. Entries[my_ptr + 1] = data[my_ptr + 1] /\ my_ptr + 1 \in 1 .. Len(data)
  BY <1>2, EntriesArray DEF Arrays
<1>4. RunOf(Entries)[data[my_ptr + 1].key] = data[my_ptr + 1].value
  BY <1>2, <1>3, EntriesArray, RunOfArray DEF Arrays
<1>5. data[my_ptr + 1] \in lsm_data
  BY <1>3, ArrayEntries DEF Arrays
<1> QED
  BY <1>1, <1>4, <1>5, Advance DEF Arrays, Mine

LEMMA TheirNext ==
  ASSUME Pointers, Arrays, child_ptr < Len(child)
  PROVE  /\ Theirs \in lsm_data
         /\ KeysFrom(child, 1, child_ptr + 1) = KeysFrom(child, 1, child_ptr) \cup {Theirs.key}
         /\ KeysFrom(child, (child_ptr + 1) + 1, Len(child)) =
              KeysFrom(child, child_ptr + 1, Len(child)) \ {Theirs.key}
         /\ Theirs.key \in KeysFrom(child, child_ptr + 1, Len(child))
         /\ \A l \in KeysFrom(child, child_ptr + 1, Len(child)) : Theirs.key <= l
         /\ RunOf(child)[Theirs.key] = Theirs.value
<1>1. child_ptr \in Nat /\ Len(child) \in Nat /\ Len(child) \in 0 .. Len(child)
  BY PointerTypes
<1>2. child_ptr + 1 \in 1 .. Len(child)
  BY <1>1
<1>3. RunOf(child)[child[child_ptr + 1].key] = child[child_ptr + 1].value
  BY <1>2, RunOfArray DEF Arrays
<1>4. child[child_ptr + 1] \in lsm_data
  BY <1>2, ArrayEntries DEF Arrays
<1> QED
  BY <1>1, <1>3, <1>4, Advance DEF Arrays, Theirs

(* A key ahead that only one of the two has.                               *)
LEMMA OnlyOne ==
  ASSUME Pointers, Arrays, InOrder(Consumed, Ahead, Merging, temp), NEW k \in Ahead
  PROVE  /\ k \in Keys /\ k \in Int
         /\ k \notin KeysFrom(child, child_ptr + 1, Len(child)) => RunOf(child)[k] = None
         /\ k \notin KeysFrom(data, my_ptr + 1, curr_size) => RunOf(Entries)[k] = None
<1>1. k \in Keys /\ k \in Int
  BY AheadType
<1>2. k \notin Consumed
  <2>1. k \in Consumed => k < k
    BY DEF InOrder
  <2> QED
    BY <1>1, <2>1
<1>3. ASSUME k \notin KeysFrom(child, child_ptr + 1, Len(child))
      PROVE  RunOf(child)[k] = None
  <2>1. Len(child) \in Nat /\ child_ptr \in 0 .. Len(child)
    BY PointerTypes DEF Pointers
  <2>2. KeysIn(child) = KeysFrom(child, 1, child_ptr) \cup KeysFrom(child, child_ptr + 1, Len(child))
    BY <2>1, KeysSplit DEF KeysIn, KeysFrom
  <2>3. k \notin KeysIn(child)
    BY <1>2, <1>3, <2>2 DEF Consumed
  <2> QED
    BY <1>1, <2>3, RunOfArray DEF Arrays
<1>4. ASSUME k \notin KeysFrom(data, my_ptr + 1, curr_size)
      PROVE  RunOf(Entries)[k] = None
  <2>1. curr_size \in Nat /\ my_ptr \in 0 .. curr_size
    BY PointerTypes DEF Pointers
  <2>2. KeysIn(Entries) = KeysFrom(data, 1, my_ptr) \cup KeysFrom(data, my_ptr + 1, curr_size)
    <3>1. KeysFrom(data, 1, curr_size) =
            KeysFrom(data, 1, my_ptr) \cup KeysFrom(data, my_ptr + 1, curr_size)
      BY <2>1, KeysSplit
    <3>2. KeysIn(Entries) = KeysFrom(data, 1, curr_size)
      BY EntriesArray DEF Arrays
    <3> QED
      BY <3>1, <3>2
  <2>3. k \notin KeysIn(Entries)
    BY <1>2, <1>4, <2>2 DEF Consumed
  <2> QED
    BY <1>1, <2>3, EntriesArray, RunOfArray DEF Arrays
<1> QED
  BY <1>1, <1>3, <1>4

LEMMA WrittenInOrder ==
  ASSUME Pointers, Arrays, InOrder(Consumed, Ahead, Merging, temp),
         NEW e \in lsm_data, Write(e), e.key \in Ahead, \A l \in Ahead : e.key <= l,
         Merging[e.key] = e.value,
         KeysFrom(data, 1, my_ptr') \cup KeysFrom(child, 1, child_ptr') = Consumed \cup {e.key},
         KeysFrom(data, my_ptr' + 1, curr_size) \cup KeysFrom(child, child_ptr' + 1, Len(child))
           = Ahead \ {e.key}
  PROVE  Arrays' /\ MergedSoFar'
<1>1. IsArray(Append(temp, e)) /\ InOrder(Consumed \cup {e.key}, Ahead \ {e.key}, Merging, Append(temp, e))
  BY AheadType, WriteInOrder DEF Arrays
<1>2. data' = data /\ child' = child /\ curr_size' = curr_size /\ temp' = Append(temp, e)
  BY DEF Write
<1>3. Merging' = Merging
  BY <1>2 DEF Merging, Entries
<1>4. Consumed' = Consumed \cup {e.key} /\ Ahead' = Ahead \ {e.key}
  BY <1>2 DEF Consumed, Ahead
<1> QED
  BY <1>1, <1>2, <1>3, <1>4 DEF Arrays, MergedSoFar

LEMMA MergingAt ==
  ASSUME NEW k \in Keys
  PROVE  Merging[k] = IF RunOf(child)[k] = None THEN RunOf(Entries)[k]
                      ELSE IF RunOf(child)[k] = DELETED_FLAG /\ RunOf(Entries)[k] # None THEN None
                      ELSE RunOf(child)[k]
BY DEF Merging, MergeRuns

LEMMA MyWrite ==
  ASSUME Pointers, Arrays, InOrder(Consumed, Ahead, Merging, temp), my_ptr < curr_size,
         Write(Mine), my_ptr' = my_ptr + 1, child_ptr' = child_ptr,
         \A l \in KeysFrom(child, child_ptr + 1, Len(child)) : Mine.key < l
  PROVE  Arrays' /\ MergedSoFar'
<1> DEFINE k == Mine.key
<1>1. k \in Ahead
  BY MyNext DEF Ahead
<1>2. k \in Keys /\ k \in Int
  BY <1>1, AheadType
<1>3. k \notin KeysFrom(child, child_ptr + 1, Len(child))
  BY <1>2
<1>4. RunOf(child)[k] = None
  BY <1>1, <1>3, OnlyOne
<1>5. Merging[k] = Mine.value
  BY <1>2, <1>4, MergingAt, MyNext
<1>6. \A l \in Ahead : k <= l
  <2>1. \A l \in KeysFrom(child, child_ptr + 1, Len(child)) : l \in Int /\ k < l
    BY AheadType DEF Ahead
  <2>2. \A l \in KeysFrom(child, child_ptr + 1, Len(child)) : k <= l
    BY <1>2, <2>1
  <2> QED
    BY <2>2, MyNext DEF Ahead
<1>7. KeysFrom(data, 1, my_ptr') \cup KeysFrom(child, 1, child_ptr') = Consumed \cup {k}
  BY MyNext DEF Consumed
<1>8. KeysFrom(data, my_ptr' + 1, curr_size) \cup KeysFrom(child, child_ptr' + 1, Len(child))
        = Ahead \ {k}
  BY <1>3, MyNext DEF Ahead
<1> QED
  BY <1>1, <1>5, <1>6, <1>7, <1>8, MyNext, WrittenInOrder

LEMMA TheirWrite ==
  ASSUME Pointers, Arrays, InOrder(Consumed, Ahead, Merging, temp), child_ptr < Len(child),
         Write(Theirs), my_ptr' = my_ptr, child_ptr' = child_ptr + 1,
         \A l \in KeysFrom(data, my_ptr + 1, curr_size) : Theirs.key < l
  PROVE  Arrays' /\ MergedSoFar'
<1> DEFINE k == Theirs.key
<1>1. k \in Ahead
  BY TheirNext DEF Ahead
<1>2. k \in Keys /\ k \in Int
  BY <1>1, AheadType
<1>3. k \notin KeysFrom(data, my_ptr + 1, curr_size)
  BY <1>2
<1>4. RunOf(Entries)[k] = None
  BY <1>1, <1>3, OnlyOne
<1>5. Merging[k] = Theirs.value
  BY <1>2, <1>4, MergingAt, TheirNext
<1>6. \A l \in Ahead : k <= l
  <2>1. \A l \in KeysFrom(data, my_ptr + 1, curr_size) : l \in Int /\ k < l
    BY AheadType DEF Ahead
  <2>2. \A l \in KeysFrom(data, my_ptr + 1, curr_size) : k <= l
    BY <1>2, <2>1
  <2> QED
    BY <2>2, TheirNext DEF Ahead
<1>7. KeysFrom(data, 1, my_ptr') \cup KeysFrom(child, 1, child_ptr') = Consumed \cup {k}
  BY TheirNext DEF Consumed
<1>8. KeysFrom(data, my_ptr' + 1, curr_size) \cup KeysFrom(child, child_ptr' + 1, Len(child))
        = Ahead \ {k}
  BY <1>3, TheirNext DEF Ahead
<1> QED
  BY <1>1, <1>5, <1>6, <1>7, <1>8, TheirNext, WrittenInOrder

LEMMA MergeStepInOrder ==
  ASSUME Pointers, Arrays, MergedSoFar, MergeStep
  PROVE  Arrays' /\ MergedSoFar'
<1>1. pc = "merge"
  BY DEF MergeStep, BothLeft, OneLeft, AllWritten, SkipBoth, TakeMine, TakeTheirs,
         Replace, CopyMine, CopyTheirs, Finish
<1>2. InOrder(Consumed, Ahead, Merging, temp)
  BY <1>1 DEF MergedSoFar
<1>3. /\ my_ptr \in Nat /\ child_ptr \in Nat /\ curr_size \in Nat /\ Len(child) \in Nat
      /\ my_ptr <= curr_size /\ child_ptr <= Len(child)
  BY PointerTypes
<1>4. CASE SkipBoth
  <2>1. /\ my_ptr < curr_size /\ child_ptr < Len(child)
        /\ Mine.key = Theirs.key /\ Theirs.value = DELETED_FLAG
        /\ my_ptr' = my_ptr + 1 /\ child_ptr' = child_ptr + 1
        /\ data' = data /\ curr_size' = curr_size /\ child' = child /\ temp' = temp
    BY <1>4 DEF SkipBoth, BothLeft, level
  <2> DEFINE k == Mine.key
  <2>2. k \in Ahead /\ \A l \in Ahead : k <= l
    BY <2>1, MyNext, TheirNext DEF Ahead
  <2>3. k \in Keys /\ Mine.value # None /\ DELETED_FLAG # None
    BY <2>1, MyNext, EntryFields, ValuesAssumption
  <2>4. Merging[k] = None
    BY <2>1, <2>3, MergingAt, MyNext, TheirNext
  <2>5. InOrder(Consumed \cup {k}, Ahead \ {k}, Merging, temp)
    BY <1>2, <2>2, <2>4, AheadType, SkipInOrder
  <2>6. Consumed' = Consumed \cup {k}
    BY <2>1, MyNext, TheirNext DEF Consumed
  <2>7. Ahead' = Ahead \ {k}
    BY <2>1, MyNext, TheirNext DEF Ahead
  <2>8. Merging' = Merging
    BY <2>1 DEF Merging, Entries
  <2> QED
    BY <2>1, <2>5, <2>6, <2>7, <2>8 DEF Arrays, MergedSoFar
<1>5. CASE TakeMine
  <2>1. /\ my_ptr < curr_size /\ child_ptr < Len(child) /\ Mine.key < Theirs.key
        /\ Write(Mine) /\ my_ptr' = my_ptr + 1 /\ child_ptr' = child_ptr
    BY <1>5 DEF TakeMine, BothLeft
  <2>2. ASSUME NEW l \in KeysFrom(child, child_ptr + 1, Len(child))
        PROVE  Mine.key < l
    <3>1. Theirs.key <= l /\ l \in Int
      BY <2>1, TheirNext, AheadType DEF Ahead
    <3>2. Mine.key \in Int /\ Theirs.key \in Int
      BY <2>1, MyNext, TheirNext, EntryFields
    <3> QED
      BY <2>1, <3>1, <3>2
  <2> QED
    BY <1>2, <2>1, <2>2, MyWrite
<1>6. CASE TakeTheirs
  <2>1. /\ my_ptr < curr_size /\ child_ptr < Len(child) /\ Mine.key > Theirs.key
        /\ Write(Theirs) /\ my_ptr' = my_ptr /\ child_ptr' = child_ptr + 1
    BY <1>6 DEF TakeTheirs, BothLeft
  <2>2. ASSUME NEW l \in KeysFrom(data, my_ptr + 1, curr_size)
        PROVE  Theirs.key < l
    <3>1. Mine.key <= l /\ l \in Int
      BY <2>1, MyNext, AheadType DEF Ahead
    <3>2. Mine.key \in Int /\ Theirs.key \in Int
      BY <2>1, MyNext, TheirNext, EntryFields
    <3> QED
      BY <2>1, <3>1, <3>2
  <2> QED
    BY <1>2, <2>1, <2>2, TheirWrite
<1>7. CASE Replace
  <2>1. /\ my_ptr < curr_size /\ child_ptr < Len(child)
        /\ Mine.key = Theirs.key /\ Theirs.value # DELETED_FLAG
        /\ Write(Theirs) /\ my_ptr' = my_ptr + 1 /\ child_ptr' = child_ptr + 1
    BY <1>7 DEF Replace, BothLeft
  <2> DEFINE k == Theirs.key
  <2>2. k \in Ahead /\ \A l \in Ahead : k <= l
    BY <2>1, MyNext, TheirNext DEF Ahead
  <2>3. k \in Keys /\ Theirs.value # None
    BY <2>1, TheirNext, EntryFields
  <2>4. Merging[k] = Theirs.value
    BY <2>1, <2>3, MergingAt, TheirNext
  <2>5. KeysFrom(data, 1, my_ptr') \cup KeysFrom(child, 1, child_ptr') = Consumed \cup {k}
    BY <2>1, MyNext, TheirNext DEF Consumed
  <2>6. KeysFrom(data, my_ptr' + 1, curr_size) \cup KeysFrom(child, child_ptr' + 1, Len(child))
          = Ahead \ {k}
    BY <2>1, MyNext, TheirNext DEF Ahead
  <2> QED
    BY <1>2, <2>1, <2>2, <2>4, <2>5, <2>6, TheirNext, WrittenInOrder
<1>8. CASE CopyMine
  <2>1. /\ my_ptr < curr_size /\ ~ (child_ptr < Len(child))
        /\ Write(Mine) /\ my_ptr' = my_ptr + 1 /\ child_ptr' = child_ptr
    BY <1>8 DEF CopyMine, OneLeft, BothLeft
  <2>2. KeysFrom(child, child_ptr + 1, Len(child)) = {}
    BY <1>3, <2>1 DEF KeysFrom
  <2> QED
    BY <1>2, <2>1, <2>2, MyWrite
<1>9. CASE CopyTheirs
  <2>1. /\ child_ptr < Len(child) /\ ~ (my_ptr < curr_size)
        /\ Write(Theirs) /\ my_ptr' = my_ptr /\ child_ptr' = child_ptr + 1
    BY <1>9 DEF CopyTheirs, OneLeft, BothLeft
  <2>2. KeysFrom(data, my_ptr + 1, curr_size) = {}
    BY <1>3, <2>1 DEF KeysFrom
  <2> QED
    BY <1>2, <2>1, <2>2, TheirWrite
<1>10. CASE Finish
  BY <1>10, EmptyArray DEF Finish, Replaced, Arrays, MergedSoFar
<1> QED
  BY <1>4, <1>5, <1>6, <1>7, <1>8, <1>9, <1>10 DEF MergeStep

(* When all is consumed, all of the merged run has been written.           *)
LEMMA WritesAll ==
  ASSUME Pointers, Arrays, MergedSoFar, pc = "merge"
  PROVE  /\ Merging \in Run
         /\ IsPrefix(temp, Array(Merging))
         /\ AllWritten => temp = Array(Merging) /\ RunOf(temp) = Merging
<1>1. InOrder(Consumed, Ahead, Merging, temp) /\ IsArray(temp)
  BY DEF MergedSoFar, Arrays
<1>2. Merging \in Run
  BY EntriesArray, RunOfArray, MergeRunsType DEF Arrays, Merging
<1>3. \A p \in 1 .. Len(temp) : Merging[temp[p].key] = temp[p].value
  BY <1>1 DEF InOrder
<1>4. ASSUME NEW k \in KeysOf(Merging), k \notin KeysIn(temp), NEW p \in 1 .. Len(temp)
      PROVE  temp[p].key < k
  <2>1. k \in Ahead /\ temp[p].key \in Consumed
    BY <1>1, <1>4 DEF InOrder, KeysIn
  <2> QED
    BY <1>1, <2>1 DEF InOrder
<1>5. /\ IsPrefix(temp, Array(Merging))
      /\ KeysOf(Merging) \subseteq KeysIn(temp) => temp = Array(Merging)
  BY <1>1, <1>2, <1>3, <1>4, PrefixOfArray
<1>6. ASSUME AllWritten
      PROVE  temp = Array(Merging) /\ RunOf(temp) = Merging
  <2>1. /\ my_ptr = curr_size /\ child_ptr = Len(child)
        /\ curr_size \in Nat /\ Len(child) \in Nat
    BY <1>6, PointerTypes DEF AllWritten
  <2>2. Ahead = {}
    BY <2>1 DEF Ahead, KeysFrom
  <2>3. temp = Array(Merging)
    BY <1>1, <1>5, <2>2 DEF InOrder
  <2> QED
    BY <1>2, <2>3, ArrayOfRun
<1> QED
  BY <1>2, <1>5, <1>6

LEMMA BeginInOrder ==
  ASSUME Pointers, Arrays, NEW run \in Run, BeginMerge(run)
  PROVE  Arrays' /\ MergedSoFar' /\ RunOf(child') = run
<1>1. /\ pc = "idle" /\ child' = Array(run) /\ data' = data /\ curr_size' = curr_size
      /\ my_ptr' = my_ptr /\ child_ptr' = child_ptr /\ temp' = temp
  BY DEF BeginMerge
<1>2. my_ptr = 0 /\ child_ptr = 0 /\ temp = <<>>
  BY <1>1 DEF Pointers, NoMerge
<1>3. IsArray(child') /\ RunOf(child') = run
  BY <1>1, ArrayOfRun
<1>4. Arrays'
  BY <1>1, <1>3 DEF Arrays
<1>5. KeysIn(temp') = {} /\ Len(temp') = 0
  BY <1>1, <1>2, EmptySequence
<1>6. Consumed' = {}
  BY <1>1, <1>2 DEF Consumed, KeysFrom
<1>7. Merging' = MergeRuns(RunOf(Entries), run)
  BY <1>1, <1>3 DEF Merging, Entries
<1>8. Ahead' = KeysIn(Entries) \cup KeysIn(child')
  <2>1. 0 + 1 = 1
    OBVIOUS
  <2>2. KeysIn(Entries) = KeysFrom(data, 1, curr_size)
    BY EntriesArray DEF Arrays
  <2>3. KeysIn(child') = KeysFrom(child', 1, Len(child'))
    BY DEF KeysIn, KeysFrom
  <2>4. Ahead' = KeysFrom(data, 0 + 1, curr_size) \cup KeysFrom(child', 0 + 1, Len(child'))
    BY <1>1, <1>2 DEF Ahead
  <2> QED
    BY <2>1, <2>2, <2>3, <2>4
<1>9. KeysOf(RunOf(Entries)) = KeysIn(Entries)
  BY EntriesArray, RunOfArray DEF Arrays
<1>10. KeysOf(run) = KeysIn(child')
  BY <1>3, RunOfArray
<1>11. KeysOf(Merging') \subseteq Ahead'
  <2>1. KeysOf(MergeRuns(RunOf(Entries), run)) \subseteq KeysOf(RunOf(Entries)) \cup KeysOf(run)
    BY DEF KeysOf, MergeRuns
  <2> QED
    BY <1>7, <1>8, <1>9, <1>10, <2>1
<1>12. InOrder(Consumed', Ahead', Merging', temp')
  BY <1>5, <1>6, <1>11 DEF InOrder
<1> QED
  BY <1>3, <1>4, <1>12 DEF MergedSoFar

-----------------------------------------------------------------------------
(* Segments of a level, as fence pointers delimit them.                    *)

(* The last position of segment n, counted from 1.                         *)
SegmentEnd(n) == IF (n + 1) * K <= curr_size THEN (n + 1) * K ELSE curr_size

LEMMA FenceAt ==
  ASSUME LInv, Arrays, pc # "merge", NEW n \in 0 .. (num_fence_ptrs - 1)
  PROVE  /\ n * K \in Nat /\ n * K + 1 \in 1 .. curr_size
         /\ SegmentEnd(n) \in (n * K + 1) .. curr_size /\ SegmentEnd(n) \in 1 .. curr_size
         /\ fp_array[n].offset = n * K
         /\ fp_array[n].min_key = data[n * K + 1].key
         /\ fp_array[n].max_key = data[SegmentEnd(n)].key
         /\ EntriesToRead(n) = SegmentEnd(n) - n * K
         /\ n \in Nat
<1>1. num_fence_ptrs = NumFencePtrs(curr_size) /\ fp_array[n] = Constructed(Entries)[n]
  BY DEF LInv, FencesAsConstructed
<1>2. /\ Len(Entries) = curr_size /\ curr_size \in Nat
      /\ \A p \in 1 .. curr_size : Entries[p] = data[p]
  BY EntriesArray DEF LInv, Arrays
<1>3. num_fence_ptrs \in Nat /\ n \in Nat
  BY <1>1, <1>2, FencesReach
<1>4. /\ n * K \in Nat /\ n * K < curr_size
      /\ n < num_fence_ptrs - 1 => (n + 1) * K < curr_size
      /\ n = num_fence_ptrs - 1 => curr_size <= (n + 1) * K
  BY <1>1, <1>2, SegmentEnds
<1>5. (n + 1) * K = n * K + K /\ K \in Nat \ {0}
  BY <1>3, Multiples
<1>6. fp_array[n] =
        LET first == n * K
            next  == (n + 1) * K
            last  == IF next - 1 >= curr_size THEN curr_size - 1 ELSE next - 1
        IN  [min_key |-> Entries[first + 1].key,
             max_key |-> Entries[last + 1].key,
             offset  |-> first]
  BY <1>1, <1>2 DEF Constructed, K
<1>7. EntriesToRead(n) = IF n = num_fence_ptrs - 1 THEN curr_size - n * K ELSE K
  BY DEF EntriesToRead, K
<1> HIDE DEF K
<1> DEFINE first == n * K
           next == (n + 1) * K
           last == IF next - 1 >= curr_size THEN curr_size - 1 ELSE next - 1
<1>8. first \in Nat /\ first < curr_size /\ next = first + K
  BY <1>4, <1>5
<1>9. SegmentEnd(n) = IF next <= curr_size THEN next ELSE curr_size
  BY DEF SegmentEnd
<1>10. /\ fp_array[n].offset = first
       /\ fp_array[n].min_key = Entries[first + 1].key
       /\ fp_array[n].max_key = Entries[last + 1].key
  BY <1>6
<1>11. /\ n < num_fence_ptrs - 1 => next < curr_size
       /\ n = num_fence_ptrs - 1 => curr_size <= next
  BY <1>4
<1> HIDE DEF first, next
<1>12. first + 1 \in 1 .. curr_size
  BY <1>2, <1>8
<1>13. last + 1 = SegmentEnd(n)
  BY <1>2, <1>5, <1>8, <1>9
<1>14. SegmentEnd(n) \in (first + 1) .. curr_size /\ SegmentEnd(n) \in 1 .. curr_size
  BY <1>2, <1>5, <1>8, <1>9
<1>15. (IF n = num_fence_ptrs - 1 THEN curr_size - first ELSE K) = SegmentEnd(n) - first
  BY <1>2, <1>3, <1>5, <1>8, <1>9, <1>11
<1>16. /\ fp_array[n].min_key = data[first + 1].key
       /\ fp_array[n].max_key = data[SegmentEnd(n)].key
  BY <1>2, <1>10, <1>12, <1>13, <1>14
<1> QED
  BY <1>3, <1>4, <1>7, <1>10, <1>12, <1>14, <1>15, <1>16 DEF first

(* What is read for a fence pointer is its segment.                        *)
LEMMA SegmentRead ==
  ASSUME LInv, Arrays, pc # "merge", NEW n \in 0 .. (num_fence_ptrs - 1)
  PROVE  LET s == Segment(fp_array[n].offset, EntriesToRead(n))
         IN  /\ IsArray(s) /\ Len(s) = SegmentEnd(n) - n * K
             /\ \A p \in 1 .. Len(s) : n * K + p \in (n * K + 1) .. SegmentEnd(n) /\ s[p] = data[n * K + p]
<1> DEFINE first == n * K
           end == SegmentEnd(n)
           s == SubSeq(data, first + 1, end)
<1>1. /\ first \in Nat /\ end \in (first + 1) .. curr_size /\ curr_size \in Nat
      /\ fp_array[n].offset = first /\ EntriesToRead(n) = end - first
      /\ curr_size \in 0 .. Len(data) /\ Len(data) \in Nat
  BY FenceAt, LenEntries DEF LInv, Pointers
<1> HIDE DEF first, end
<1>2. first + (end - first) = end /\ ~ (end > Len(data)) /\ end \in Nat
  BY <1>1
<1>3. Segment(fp_array[n].offset, EntriesToRead(n)) = s
  BY <1>1, <1>2 DEF Segment
<1>4. \A p \in (first + 1) .. end : p \in 1 .. Len(data)
  BY <1>1, <1>2
<1>5. \A p \in (first + 1) .. end : data[p] \in lsm_data
  <2>1. \A p \in 1 .. Len(data) : data[p] \in lsm_data
    BY ArrayEntries DEF Arrays
  <2> QED
    BY <1>4, <2>1
<1>6. /\ s \in Seq(lsm_data)
      /\ Len(s) = IF first + 1 <= end THEN end - (first + 1) + 1 ELSE 0
      /\ \A p \in 1 .. end - (first + 1) + 1 : s[p] = data[(first + 1) + p - 1]
  <2>1. first + 1 \in Int /\ end \in Int
    BY <1>1, <1>2
  <2> QED
    BY <1>5, <2>1, SubSeqProperties
<1> HIDE DEF s
<1>7. Len(s) = end - first
  BY <1>1, <1>2, <1>6
<1>8. ASSUME NEW p \in 1 .. Len(s)
      PROVE  first + p \in (first + 1) .. end /\ s[p] = data[first + p]
  <2>1. p \in 1 .. end - (first + 1) + 1 /\ (first + 1) + p - 1 = first + p
    BY <1>1, <1>2, <1>7
  <2>2. first + p \in (first + 1) .. end
    BY <1>1, <1>2, <1>7
  <2> QED
    BY <1>6, <2>1, <2>2
<1>9. Sorted(s)
  <2> SUFFICES ASSUME NEW p \in 1 .. Len(s), NEW q \in 1 .. Len(s), p < q
               PROVE  s[p].key < s[q].key
    BY DEF Sorted
  <2>1. s[p] = data[first + p] /\ s[q] = data[first + q]
    BY <1>8
  <2>2. first + p \in 1 .. Len(data) /\ first + q \in 1 .. Len(data)
    BY <1>4, <1>8
  <2>3. first + p < first + q
    BY <1>1, <1>2, <1>7
  <2> QED
    BY <2>1, <2>2, <2>3 DEF Arrays, IsArray, Sorted
<1> QED
  BY <1>3, <1>6, <1>7, <1>8, <1>9 DEF IsArray, first, end

(* Positions in a level, and keys there.                                   *)
LEMMA KeysAt ==
  ASSUME LInv, Arrays, NEW p \in 1 .. curr_size, NEW q \in 1 .. curr_size
  PROVE  /\ data[p].key \in Int /\ data[q].key \in Int
         /\ p <= q <=> data[p].key <= data[q].key
         /\ p \in Int /\ q \in Int
<1>1. p \in 1 .. Len(data) /\ q \in 1 .. Len(data) /\ curr_size \in Nat
  BY EntriesArray DEF LInv, Arrays
<1>2. data[p].key \in Int /\ data[q].key \in Int
  BY <1>1, ArrayEntries DEF Arrays
<1>3. p \in Int /\ q \in Int
  BY <1>1
<1>4. (p < q => data[p].key < data[q].key) /\ (q < p => data[q].key < data[p].key)
  BY <1>1 DEF Arrays, IsArray, Sorted
<1>5. p = q \/ p < q \/ q < p
  BY <1>3
<1> QED
  BY <1>2, <1>3, <1>4, <1>5

(* The smallest and the largest keys of the segments grow.                 *)
LEMMA FencesGrow ==
  ASSUME LInv, Arrays, pc # "merge",
         NEW n \in 0 .. (num_fence_ptrs - 1), NEW m \in 0 .. (num_fence_ptrs - 1), n <= m
  PROVE  /\ fp_array[n].min_key <= fp_array[m].min_key
         /\ fp_array[n].max_key <= fp_array[m].max_key
         /\ fp_array[n].min_key \in Int /\ fp_array[m].min_key \in Int
         /\ fp_array[n].max_key \in Int /\ fp_array[m].max_key \in Int
<1>1. /\ n * K + 1 \in 1 .. curr_size /\ m * K + 1 \in 1 .. curr_size
      /\ SegmentEnd(n) \in 1 .. curr_size /\ SegmentEnd(m) \in 1 .. curr_size
      /\ n \in Nat /\ m \in Nat
  BY FenceAt
<1>2. /\ n * K <= m * K /\ (n + 1) * K <= (m + 1) * K
      /\ n * K \in Int /\ m * K \in Int /\ (n + 1) * K \in Int /\ (m + 1) * K \in Int
  <2>1. n + 1 <= m + 1 /\ n \in Int /\ m \in Int /\ n + 1 \in Int /\ m + 1 \in Int
    BY <1>1
  <2> QED
    BY <2>1, Multiples
<1>3. n * K + 1 <= m * K + 1
  BY <1>2
<1>4. SegmentEnd(n) <= SegmentEnd(m)
  <2>1. curr_size \in Nat
    BY EntriesArray DEF LInv, Arrays
  <2> DEFINE x == (n + 1) * K
             y == (m + 1) * K
  <2>2. x <= y /\ x \in Int /\ y \in Int
    BY <1>2
  <2> HIDE DEF x, y
  <2>3. (IF x <= curr_size THEN x ELSE curr_size) <= (IF y <= curr_size THEN y ELSE curr_size)
    BY <2>1, <2>2
  <2> QED
    BY <2>3 DEF SegmentEnd, x, y
<1>5. /\ data[n * K + 1].key <= data[m * K + 1].key
      /\ data[n * K + 1].key \in Int /\ data[m * K + 1].key \in Int
  BY <1>1, <1>3, KeysAt
<1>6. /\ data[SegmentEnd(n)].key <= data[SegmentEnd(m)].key
      /\ data[SegmentEnd(n)].key \in Int /\ data[SegmentEnd(m)].key \in Int
  BY <1>1, <1>4, KeysAt
<1> QED
  BY <1>5, <1>6, FenceAt

(* Every entry is in the segment of a fence pointer, and in that of any    *)
(* fence pointer with its key.                                             *)
LEMMA SegmentOf ==
  ASSUME LInv, Arrays, pc # "merge", NEW p \in 1 .. curr_size
  PROVE  \E n \in 0 .. (num_fence_ptrs - 1) : /\ fp_array[n].min_key <= data[p].key
                                              /\ data[p].key <= fp_array[n].max_key
<1> DEFINE n == (p - 1) \div K
<1>1. num_fence_ptrs = NumFencePtrs(curr_size) /\ curr_size \in Nat
  BY EntriesArray DEF LInv, FencesAsConstructed, Arrays
<1>2. p \in Nat /\ p > 0 /\ p <= curr_size
  BY <1>1
<1>3. n \in 0 .. (num_fence_ptrs - 1)
  BY <1>1, <1>2, SegmentAllocated
<1>4. K \in Nat \ {0}
  BY Multiples
<1>5. n \in Nat /\ n * K <= p - 1 /\ p - 1 < n * K + K
  <2> HIDE DEF K
  <2> QED
    BY <1>2, <1>4, SMT
<1> HIDE DEF n
<1>6. (n + 1) * K = n * K + K /\ n * K \in Int
  BY <1>5, Multiples
<1>7. n * K + 1 <= p /\ p <= SegmentEnd(n)
  <2> DEFINE x == n * K
             y == (n + 1) * K
  <2>1. x \in Int /\ y = x + K /\ x <= p - 1 /\ p - 1 < x + K
    BY <1>5, <1>6
  <2> HIDE DEF x, y
  <2>2. x + 1 <= p /\ p <= IF y <= curr_size THEN y ELSE curr_size
    BY <1>1, <1>2, <1>4, <2>1
  <2> QED
    BY <2>2 DEF x, y, SegmentEnd
<1>8. n * K + 1 \in 1 .. curr_size /\ SegmentEnd(n) \in 1 .. curr_size
  BY <1>3, FenceAt
<1>9. data[n * K + 1].key <= data[p].key /\ data[p].key <= data[SegmentEnd(n)].key
  BY <1>7, <1>8, KeysAt
<1> QED
  BY <1>3, <1>9, FenceAt

LEMMA InSegment ==
  ASSUME LInv, Arrays, pc # "merge", NEW n \in 0 .. (num_fence_ptrs - 1),
         NEW p \in 1 .. curr_size,
         fp_array[n].min_key <= data[p].key, data[p].key <= fp_array[n].max_key
  PROVE  LET s == Segment(fp_array[n].offset, EntriesToRead(n))
         IN  \E t \in 1 .. Len(s) : s[t] = data[p]
<1> DEFINE s == Segment(fp_array[n].offset, EntriesToRead(n))
<1>1. n * K + 1 \in 1 .. curr_size /\ SegmentEnd(n) \in 1 .. curr_size /\ n * K \in Nat
  BY FenceAt
<1>2. n * K + 1 <= p /\ p <= SegmentEnd(n) /\ p \in Int
  <2>1. data[n * K + 1].key <= data[p].key /\ data[p].key <= data[SegmentEnd(n)].key
    BY FenceAt
  <2> QED
    BY <1>1, <2>1, KeysAt
<1>3. /\ Len(s) = SegmentEnd(n) - n * K
      /\ \A t \in 1 .. Len(s) : s[t] = data[n * K + t]
  BY SegmentRead
<1> HIDE DEF s
<1> DEFINE first == n * K
           end == SegmentEnd(n)
           t == p - first
<1>4. first \in Nat /\ end \in Int /\ first + 1 <= p /\ p <= end /\ Len(s) = end - first
  BY <1>1, <1>2, <1>3
<1>5. \A j \in 1 .. Len(s) : s[j] = data[first + j]
  BY <1>3
<1> HIDE DEF first, end
<1>6. t \in 1 .. Len(s) /\ first + t = p
  BY <1>2, <1>4
<1>7. s[t] = data[p]
  BY <1>5, <1>6
<1> QED
  BY <1>6, <1>7 DEF s

-----------------------------------------------------------------------------
(* Searches.                                                               *)

(* The level has the key searched for.                                     *)
Present == \E p \in 1 .. curr_size : data[p].key = key

FenceHas(n) == fp_array[n].min_key <= key /\ key <= fp_array[n].max_key

SearchTypes ==
  /\ low \in Nat /\ high \in Int /\ left \in Nat /\ right \in Int
  /\ segment_buffer = NotRead \/ IsArray(segment_buffer)
  /\ avoid_infinite_loop \in BOOLEAN
  /\ result \in Stored \cup {None}
  /\ key \in Probes \cup {None}
  /\ pc \in {"idle", "merge", "filter", "fences", "segment", "done"}
  /\ pc \notin {"idle", "merge"} => key \in Probes

(* The fence pointers with the key are within the bounds, and so is the    *)
(* key within those of the search in a segment.                            *)
Bounds ==
  /\ pc = "filter" => low = 0 /\ high = num_fence_ptrs - 1
  /\ pc \in {"filter", "fences", "segment"} => high < num_fence_ptrs /\ result = None
  /\ pc \in {"fences", "segment"} =>
       \A n \in 0 .. (num_fence_ptrs - 1) : FenceHas(n) => low <= n /\ n <= high
  /\ pc = "filter" => ~ avoid_infinite_loop
  /\ pc = "fences" /\ avoid_infinite_loop => ~ Present

SegmentSearched ==
  pc = "segment" =>
    /\ IsArray(segment_buffer) /\ right < Len(segment_buffer)
    /\ \A p \in 1 .. Len(segment_buffer) :
         segment_buffer[p].key = key => left <= p - 1 /\ p - 1 <= right
    /\ \A p \in 1 .. Len(segment_buffer) :
         \E q \in 1 .. curr_size : segment_buffer[p] = data[q]
    /\ \A q \in 1 .. curr_size : data[q].key = key =>
         \E p \in 1 .. Len(segment_buffer) : segment_buffer[p] = data[q]

SearchInv == /\ SearchTypes /\ Bounds /\ SegmentSearched /\ FindsVersion
             /\ pc \in {"idle", "merge"} => NoSearch

(* The answer of the level.                                                *)
LEMMA AnswerOf ==
  ASSUME LInv, Arrays, NEW k
  PROVE  /\ \A p \in 1 .. curr_size : data[p].key = k =>
              k \in Keys /\ RunOf(Entries)[k] = data[p].value
         /\ (~ \E p \in 1 .. curr_size : data[p].key = k) =>
              (IF k \in Keys THEN RunOf(Entries)[k] ELSE None) = None
<1>1. /\ IsArray(Entries) /\ Len(Entries) = curr_size
      /\ \A p \in 1 .. curr_size : p \in 1 .. Len(data) /\ Entries[p] = data[p]
      /\ KeysIn(Entries) = KeysFrom(data, 1, curr_size)
  BY EntriesArray DEF LInv, Arrays
<1>2. ASSUME NEW p \in 1 .. curr_size, data[p].key = k
      PROVE  k \in Keys /\ RunOf(Entries)[k] = data[p].value
  <2>1. p \in 1 .. Len(Entries) /\ Entries[p] = data[p]
    BY <1>1
  <2>2. RunOf(Entries)[Entries[p].key] = Entries[p].value
    BY <1>1, <2>1, RunOfArray
  <2>3. Entries[p].key \in Keys
    BY <1>1, <2>1, ArrayEntries
  <2> QED
    BY <1>2, <2>1, <2>2, <2>3
<1>3. ASSUME ~ \E p \in 1 .. curr_size : data[p].key = k, k \in Keys
      PROVE  RunOf(Entries)[k] = None
  <2>1. k \notin KeysIn(Entries)
    BY <1>1, <1>3 DEF KeysFrom
  <2> QED
    BY <1>1, <1>3, <2>1, RunOfArray
<1> QED
  BY <1>2, <1>3

LEMMA NotPresent ==
  ASSUME LInv, Arrays, ~ Present
  PROVE  (IF key \in Keys THEN RunOf(Entries)[key] ELSE None) = None
BY AnswerOf DEF Present

(* What a search leaves alone.                                             *)
LEMMA LevelAlone ==
  ASSUME UNCHANGED level
  PROVE  /\ data' = data /\ curr_size' = curr_size /\ fp_array' = fp_array
         /\ num_fence_ptrs' = num_fence_ptrs /\ filter' = filter
         /\ Entries' = Entries
BY DEF level, Entries

LEMMA MidBetween ==
  ASSUME LInv, SearchTypes, Bounds, pc = "fences", low <= high
  PROVE  /\ mid \in Int /\ low <= mid /\ mid <= high
         /\ mid \in 0 .. (num_fence_ptrs - 1)
<1>1. low \in Nat /\ high \in Int /\ low <= high
  BY DEF SearchTypes
<1> DEFINE h == (high - low) \div 2
<1>2. h \in Int /\ 0 <= h /\ h <= high - low
  BY <1>1, SMT
<1>3. mid = low + h
  BY DEF mid
<1> HIDE DEF h
<1>4. mid \in Int /\ low <= mid /\ mid <= high
  BY <1>1, <1>2, <1>3
<1>5. high < num_fence_ptrs
  BY DEF Bounds
<1>6. num_fence_ptrs \in Nat
  BY FencesReach, LenEntries DEF LInv, FencesAsConstructed
<1> QED
  BY <1>1, <1>4, <1>5, <1>6

LEMMA AskKeeps ==
  ASSUME LInv, Arrays, SearchInv, NEW k \in Probes, Ask(k)
  PROVE  SearchInv'
<1>1. /\ pc = "idle" /\ pc' = "filter" /\ key' = k /\ high' = num_fence_ptrs - 1
      /\ UNCHANGED level
      /\ low' = low /\ left' = left /\ right' = right /\ segment_buffer' = segment_buffer
      /\ avoid_infinite_loop' = avoid_infinite_loop /\ result' = result
  BY DEF Ask
<1>2. low = 0 /\ result = None /\ avoid_infinite_loop = FALSE /\ SearchTypes
  BY <1>1 DEF SearchInv, NoSearch
<1>3. num_fence_ptrs \in Nat /\ num_fence_ptrs' = num_fence_ptrs
  BY <1>1, LevelAlone, FencesReach, LenEntries DEF LInv, FencesAsConstructed
<1>4. SearchTypes'
  BY <1>1, <1>2, <1>3 DEF SearchTypes
<1>5. Bounds'
  BY <1>1, <1>2, <1>3 DEF Bounds
<1> QED
  BY <1>1, <1>4, <1>5 DEF SearchInv, SegmentSearched, FindsVersion

LEMMA FilterStepKeeps ==
  ASSUME LInv, Arrays, SearchInv, FilterExcludes \/ FilterContains
  PROVE  SearchInv'
<1>1. /\ pc = "filter" /\ key' = key
      /\ UNCHANGED level
      /\ low' = low /\ high' = high /\ left' = left /\ right' = right
      /\ segment_buffer' = segment_buffer
      /\ avoid_infinite_loop' = avoid_infinite_loop /\ result' = result
      /\ pc' \in {"fences", "done"}
  BY DEF FilterExcludes, FilterContains, search
<1>2. data' = data /\ curr_size' = curr_size /\ num_fence_ptrs' = num_fence_ptrs /\ Entries' = Entries
  BY <1>1, LevelAlone
<1>3. /\ low = 0 /\ high = num_fence_ptrs - 1 /\ result = None /\ ~ avoid_infinite_loop
      /\ high < num_fence_ptrs
  BY <1>1 DEF SearchInv, Bounds
<1>4. SearchTypes'
  BY <1>1 DEF SearchInv, SearchTypes
<1>5. Bounds'
  <2>1. \A n \in 0 .. (num_fence_ptrs - 1) : low <= n /\ n <= high
    BY <1>3
  <2> QED
    BY <1>1, <1>2, <1>3, <2>1 DEF Bounds
<1>6. FindsVersion'
  <2> SUFFICES ASSUME pc' = "done"
               PROVE  result = IF key \in Keys THEN RunOf(Entries)[key] ELSE None
    BY <1>1, <1>2 DEF FindsVersion
  <2>1. ~ (filter # nullptr /\ contains(filter, key))
    BY DEF FilterExcludes, FilterContains
  <2>2. key \notin KeysIn(Entries)
    BY <1>1, <2>1 DEF LInv, FilterCovers
  <2>3. ~ Present
    BY <2>2, EntriesArray DEF LInv, Arrays, Present, KeysFrom
  <2> QED
    BY <1>3, <2>3, NotPresent
<1> QED
  BY <1>1, <1>4, <1>5, <1>6 DEF SearchInv, SegmentSearched

LEMMA NarrowKeeps ==
  ASSUME LInv, Arrays, SearchInv, Narrow
  PROVE  SearchInv'
<1>1. /\ pc = "fences" /\ pc' = pc /\ key' = key /\ low <= high
      /\ UNCHANGED level
      /\ left' = left /\ right' = right
      /\ segment_buffer' = segment_buffer
      /\ avoid_infinite_loop' = avoid_infinite_loop /\ result' = result
  BY DEF Narrow
<1>2. /\ data' = data /\ curr_size' = curr_size /\ num_fence_ptrs' = num_fence_ptrs
      /\ fp_array' = fp_array
  BY <1>1, LevelAlone
<1>3. /\ mid \in Int /\ low <= mid /\ mid <= high /\ mid \in 0 .. (num_fence_ptrs - 1)
      /\ low \in Nat /\ high \in Int /\ high < num_fence_ptrs /\ key \in Int
  BY <1>1, MidBetween, ProbesAssumption DEF SearchInv, SearchTypes, Bounds
<1>4. num_fence_ptrs \in Nat
  BY <1>1, FencesReach, LenEntries DEF LInv, FencesAsConstructed
<1>5. \A n \in 0 .. (num_fence_ptrs - 1) : FenceHas(n) => low <= n /\ n <= high
  BY <1>1 DEF SearchInv, Bounds
<1>6. CASE key < fp_array[mid].min_key /\ high' = mid - 1 /\ low' = low
  <2>1. ASSUME NEW n \in 0 .. (num_fence_ptrs - 1), FenceHas(n)
        PROVE  n <= mid - 1
    <3>1. CASE mid <= n
      <4>1. /\ fp_array[mid].min_key <= fp_array[n].min_key
            /\ fp_array[mid].min_key \in Int /\ fp_array[n].min_key \in Int
        BY <1>1, <1>3, <3>1, FencesGrow
      <4>2. fp_array[n].min_key <= key
        BY <2>1 DEF FenceHas
      <4> QED
        BY <1>3, <1>6, <4>1, <4>2
    <3>2. CASE ~ (mid <= n)
      BY <1>3, <3>2
    <3> QED
      BY <3>1, <3>2
  <2>2. high' \in Int /\ high' < num_fence_ptrs
    BY <1>3, <1>4, <1>6
  <2>3. SearchTypes'
    BY <1>1, <1>6, <2>2 DEF SearchInv, SearchTypes
  <2>4. Bounds'
    BY <1>1, <1>2, <1>5, <1>6, <2>1, <2>2 DEF SearchInv, Bounds, FenceHas, Present
  <2> QED
    BY <1>1, <2>3, <2>4 DEF SearchInv, SegmentSearched, FindsVersion
<1>7. CASE key > fp_array[mid].max_key /\ low' = mid + 1 /\ high' = high
  <2>1. ASSUME NEW n \in 0 .. (num_fence_ptrs - 1), FenceHas(n)
        PROVE  mid + 1 <= n
    <3>1. CASE n <= mid
      <4>1. /\ fp_array[n].max_key <= fp_array[mid].max_key
            /\ fp_array[mid].max_key \in Int /\ fp_array[n].max_key \in Int
        BY <1>1, <1>3, <3>1, FencesGrow
      <4>2. key <= fp_array[n].max_key
        BY <2>1 DEF FenceHas
      <4> QED
        BY <1>3, <1>7, <4>1, <4>2
    <3>2. CASE ~ (n <= mid)
      BY <1>3, <3>2
    <3> QED
      BY <3>1, <3>2
  <2>2. low' \in Nat
    BY <1>3, <1>7
  <2>3. SearchTypes'
    BY <1>1, <1>7, <2>2 DEF SearchInv, SearchTypes
  <2>4. Bounds'
    BY <1>1, <1>2, <1>3, <1>5, <1>7, <2>1 DEF SearchInv, Bounds, FenceHas, Present
  <2> QED
    BY <1>1, <2>3, <2>4 DEF SearchInv, SegmentSearched, FindsVersion
<1> QED
  BY <1>6, <1>7 DEF Narrow

LEMMA ReadKeeps ==
  ASSUME LInv, Arrays, SearchInv, Read
  PROVE  SearchInv'
<1> DEFINE s == Segment(fp_array[mid].offset, EntriesToRead(mid))
<1>1. /\ pc = "fences" /\ pc' = "segment" /\ key' = key /\ low <= high
      /\ fp_array[mid].min_key <= key /\ key <= fp_array[mid].max_key
      /\ UNCHANGED level
      /\ low' = low /\ high' = high
      /\ segment_buffer' = s /\ left' = 0 /\ right' = Len(segment_buffer') - 1
      /\ avoid_infinite_loop' = avoid_infinite_loop /\ result' = result
  BY DEF Read, InFence
<1>2. /\ data' = data /\ curr_size' = curr_size /\ num_fence_ptrs' = num_fence_ptrs
      /\ fp_array' = fp_array
  BY <1>1, LevelAlone
<1>3. mid \in 0 .. (num_fence_ptrs - 1)
  BY <1>1, MidBetween DEF SearchInv
<1> DEFINE n == mid
<1>4. n \in 0 .. (num_fence_ptrs - 1)
  BY <1>3
<1>5. PICK m \in 0 .. (num_fence_ptrs - 1) : m = n
  BY <1>4
<1>6. s = Segment(fp_array[m].offset, EntriesToRead(m))
  BY <1>5
<1>7. /\ IsArray(s) /\ Len(s) \in Nat
      /\ \A p \in 1 .. Len(s) : \E q \in 1 .. curr_size : s[p] = data[q]
  <2>1. /\ IsArray(s)
        /\ \A p \in 1 .. Len(s) : m * K + p \in (m * K + 1) .. SegmentEnd(m) /\ s[p] = data[m * K + p]
    BY <1>1, <1>6, SegmentRead
  <2>2. m * K + 1 \in 1 .. curr_size /\ SegmentEnd(m) \in 1 .. curr_size /\ curr_size \in Nat
    BY <1>1, FenceAt, LenEntries DEF LInv
  <2>3. (m * K + 1) .. SegmentEnd(m) \subseteq 1 .. curr_size
    BY <2>2
  <2> QED
    BY <2>1, <2>3, ArrayEntries
<1>8. ASSUME NEW q \in 1 .. curr_size, data[q].key = key
      PROVE  \E p \in 1 .. Len(s) : s[p] = data[q]
  <2>1. fp_array[m].min_key <= data[q].key /\ data[q].key <= fp_array[m].max_key
    BY <1>1, <1>5, <1>8
  <2> QED
    BY <1>1, <1>6, <2>1, InSegment
<1> HIDE DEF s, n
<1>9. \A p \in 1 .. Len(s) : 0 <= p - 1 /\ p - 1 <= Len(s) - 1
  BY <1>7
<1>10. right' = Len(s) - 1 /\ right' < Len(s) /\ right' \in Int
  BY <1>1, <1>7
<1>11. SegmentSearched'
  BY <1>1, <1>2, <1>7, <1>8, <1>9, <1>10 DEF SegmentSearched
<1>12. SearchTypes'
  BY <1>1, <1>7, <1>10 DEF SearchInv, SearchTypes
<1>13. Bounds'
  BY <1>1, <1>2 DEF SearchInv, Bounds, FenceHas
<1> QED
  BY <1>1, <1>11, <1>12, <1>13 DEF SearchInv, FindsVersion

LEMMA MidpointBetween ==
  ASSUME SearchTypes, SegmentSearched, pc = "segment", left <= right
  PROVE  /\ midpoint \in Int /\ left <= midpoint /\ midpoint <= right
         /\ midpoint + 1 \in 1 .. Len(segment_buffer)
<1>1. left \in Nat /\ right \in Int /\ left <= right
  BY DEF SearchTypes
<1>2. right < Len(segment_buffer) /\ Len(segment_buffer) \in Nat
  BY ArrayEntries DEF SegmentSearched
<1> DEFINE m == (left + right) \div 2
<1>3. m \in Int /\ left <= m /\ m <= right
  BY <1>1, SMT
<1> HIDE DEF m
<1>4. m + 1 \in 1 .. Len(segment_buffer)
  BY <1>1, <1>2, <1>3
<1> QED
  BY <1>3, <1>4 DEF m, midpoint

LEMMA HitKeeps ==
  ASSUME LInv, Arrays, SearchInv, Hit
  PROVE  SearchInv'
<1>1. /\ pc = "segment" /\ pc' = "done" /\ left <= right /\ key' = key
      /\ probed.key = key /\ result' = probed.value
      /\ UNCHANGED level
      /\ low' = low /\ high' = high /\ left' = left /\ right' = right
      /\ segment_buffer' = segment_buffer /\ avoid_infinite_loop' = avoid_infinite_loop
  BY DEF Hit
<1>2. Entries' = Entries
  BY <1>1, LevelAlone
<1>3. midpoint + 1 \in 1 .. Len(segment_buffer)
  BY <1>1, MidpointBetween DEF SearchInv
<1>4. PICK q \in 1 .. curr_size : probed = data[q]
  BY <1>1, <1>3 DEF SearchInv, SegmentSearched, probed
<1>5. data[q].key = key /\ result' = data[q].value
  BY <1>1, <1>4
<1>6. key \in Keys /\ RunOf(Entries)[key] = data[q].value
  BY <1>5, AnswerOf
<1>7. result' \in Stored
  <2>1. q \in 1 .. Len(data)
    BY EntriesArray DEF LInv, Arrays
  <2> QED
    BY <1>5, <2>1, ArrayEntries DEF Arrays
<1>8. SearchTypes'
  BY <1>1, <1>7 DEF SearchInv, SearchTypes
<1>9. FindsVersion'
  BY <1>1, <1>2, <1>5, <1>6 DEF FindsVersion
<1> QED
  BY <1>1, <1>8, <1>9 DEF SearchInv, Bounds, SegmentSearched

LEMMA HalveKeeps ==
  ASSUME LInv, Arrays, SearchInv, Halve
  PROVE  SearchInv'
<1>1. /\ pc = "segment" /\ pc' = pc /\ left <= right /\ key' = key
      /\ UNCHANGED level
      /\ low' = low /\ high' = high /\ result' = result
      /\ segment_buffer' = segment_buffer /\ avoid_infinite_loop' = avoid_infinite_loop
  BY DEF Halve
<1>2. /\ data' = data /\ curr_size' = curr_size /\ num_fence_ptrs' = num_fence_ptrs
      /\ fp_array' = fp_array
  BY <1>1, LevelAlone
<1>3. /\ midpoint \in Int /\ left <= midpoint /\ midpoint <= right
      /\ midpoint + 1 \in 1 .. Len(segment_buffer)
  BY <1>1, MidpointBetween DEF SearchInv
<1>4. /\ IsArray(segment_buffer) /\ right < Len(segment_buffer)
      /\ \A p \in 1 .. Len(segment_buffer) :
           segment_buffer[p].key = key => left <= p - 1 /\ p - 1 <= right
      /\ left \in Nat /\ right \in Int /\ key \in Int
  BY <1>1, ProbesAssumption DEF SearchInv, SegmentSearched, SearchTypes
<1>5. /\ Len(segment_buffer) \in Nat
      /\ \A p \in 1 .. Len(segment_buffer) : segment_buffer[p].key \in Int
      /\ \A p, q \in 1 .. Len(segment_buffer) : segment_buffer[p].key < segment_buffer[q].key => p < q
  BY <1>4, ArrayEntries
<1> DEFINE m == midpoint
<1>6. PICK r \in Int : r = midpoint /\ left <= r /\ r <= right /\ r + 1 \in 1 .. Len(segment_buffer)
  BY <1>3
<1>7. Bounds'
  BY <1>1, <1>2 DEF SearchInv, Bounds, FenceHas
<1>8. CASE probed.key < key /\ left' = midpoint + 1 /\ right' = right
  <2>1. ASSUME NEW p \in 1 .. Len(segment_buffer), segment_buffer[p].key = key
        PROVE  r + 1 <= p - 1
    <3>1. segment_buffer[r + 1].key < segment_buffer[p].key
      BY <1>6, <1>8, <2>1 DEF probed
    <3>2. r + 1 < p
      BY <1>5, <1>6, <3>1
    <3> QED
      BY <1>5, <1>6, <3>2
  <2>2. SearchTypes'
    BY <1>1, <1>4, <1>6, <1>8 DEF SearchInv, SearchTypes
  <2>3. SegmentSearched'
    BY <1>1, <1>2, <1>4, <1>6, <1>8, <2>1 DEF SearchInv, SegmentSearched
  <2> QED
    BY <1>1, <1>7, <2>2, <2>3 DEF SearchInv, FindsVersion
<1>9. CASE probed.key > key /\ right' = midpoint - 1 /\ left' = left
  <2>1. ASSUME NEW p \in 1 .. Len(segment_buffer), segment_buffer[p].key = key
        PROVE  p - 1 <= r - 1
    <3>1. segment_buffer[p].key < segment_buffer[r + 1].key
      <4>1. segment_buffer[r + 1].key > key
        BY <1>6, <1>9 DEF probed
      <4>2. segment_buffer[r + 1].key \in Int
        BY <1>5, <1>6
      <4> QED
        BY <1>4, <2>1, <4>1, <4>2
    <3>2. p < r + 1
      BY <1>5, <1>6, <3>1
    <3> QED
      BY <1>5, <1>6, <3>2
  <2>2. SearchTypes'
    BY <1>1, <1>4, <1>6, <1>9 DEF SearchInv, SearchTypes
  <2>3. right' < Len(segment_buffer)
    BY <1>4, <1>5, <1>6, <1>9
  <2>4. SegmentSearched'
    BY <1>1, <1>2, <1>4, <1>6, <1>9, <2>1, <2>3 DEF SearchInv, SegmentSearched
  <2> QED
    BY <1>1, <1>7, <2>2, <2>4 DEF SearchInv, FindsVersion
<1> QED
  BY <1>8, <1>9 DEF Halve

LEMMA MissKeeps ==
  ASSUME LInv, Arrays, SearchInv, Miss
  PROVE  SearchInv'
<1>1. /\ pc = "segment" /\ pc' = "fences" /\ left > right /\ key' = key
      /\ UNCHANGED level
      /\ low' = low /\ high' = high /\ result' = result /\ left' = left /\ right' = right
      /\ segment_buffer' = segment_buffer /\ avoid_infinite_loop' = TRUE
  BY DEF Miss, search
<1>2. /\ data' = data /\ curr_size' = curr_size /\ num_fence_ptrs' = num_fence_ptrs
      /\ fp_array' = fp_array
  BY <1>1, LevelAlone
<1>3. ~ Present
  <2> SUFFICES ASSUME NEW q \in 1 .. curr_size, data[q].key = key PROVE FALSE
    BY DEF Present
  <2>1. PICK p \in 1 .. Len(segment_buffer) : segment_buffer[p] = data[q]
    BY <1>1 DEF SearchInv, SegmentSearched
  <2>2. left <= p - 1 /\ p - 1 <= right
    BY <1>1, <2>1 DEF SearchInv, SegmentSearched
  <2>3. left \in Nat /\ right \in Int /\ p \in Int
    <3>1. Len(segment_buffer) \in Nat
      BY <1>1, ArrayEntries DEF SearchInv, SegmentSearched
    <3> QED
      BY <3>1 DEF SearchInv, SearchTypes
  <2> QED
    BY <1>1, <2>2, <2>3
<1>4. Bounds'
  BY <1>1, <1>2, <1>3 DEF SearchInv, Bounds, FenceHas, Present
<1>5. SearchTypes'
  BY <1>1 DEF SearchInv, SearchTypes
<1> QED
  BY <1>1, <1>4, <1>5 DEF SearchInv, SegmentSearched, FindsVersion

LEMMA GiveUpKeeps ==
  ASSUME LInv, Arrays, SearchInv, GiveUp
  PROVE  SearchInv'
<1>1. /\ pc = "fences" /\ pc' = "done" /\ key' = key
      /\ low > high \/ avoid_infinite_loop
      /\ UNCHANGED level
      /\ low' = low /\ high' = high /\ result' = result /\ left' = left /\ right' = right
      /\ segment_buffer' = segment_buffer /\ avoid_infinite_loop' = avoid_infinite_loop
  BY DEF GiveUp, search
<1>2. Entries' = Entries
  BY <1>1, LevelAlone
<1>3. result = None
  BY <1>1 DEF SearchInv, Bounds
<1>4. ~ Present
  <2>1. CASE avoid_infinite_loop
    BY <1>1, <2>1 DEF SearchInv, Bounds
  <2>2. CASE low > high
    <3> SUFFICES ASSUME NEW q \in 1 .. curr_size, data[q].key = key PROVE FALSE
      BY DEF Present
    <3>1. PICK n \in 0 .. (num_fence_ptrs - 1) :
             fp_array[n].min_key <= data[q].key /\ data[q].key <= fp_array[n].max_key
      BY <1>1, SegmentOf
    <3>2. low <= n /\ n <= high
      BY <1>1, <3>1 DEF SearchInv, Bounds, FenceHas
    <3>3. low \in Nat /\ high \in Int /\ n \in Int
      <4>1. num_fence_ptrs \in Nat
        BY <1>1, FencesReach, LenEntries DEF LInv, FencesAsConstructed
      <4> QED
        BY <4>1 DEF SearchInv, SearchTypes
    <3> QED
      BY <2>2, <3>2, <3>3
  <2> QED
    BY <1>1, <2>1, <2>2
<1>5. FindsVersion'
  BY <1>1, <1>2, <1>3, <1>4, NotPresent DEF FindsVersion
<1>6. SearchTypes'
  BY <1>1 DEF SearchInv, SearchTypes
<1> QED
  BY <1>1, <1>5, <1>6 DEF SearchInv, Bounds, SegmentSearched

LEMMA ReturnKeeps ==
  ASSUME SearchInv, Return
  PROVE  SearchInv'
<1>1. pc' = "idle" /\ key' = None /\ low' = 0 /\ high' = -1 /\ left' = 0 /\ right' = -1
      /\ segment_buffer' = NotRead /\ avoid_infinite_loop' = FALSE /\ reads' = 0
      /\ result' = None
  BY DEF Return
<1>2. NoSearch'
  BY <1>1 DEF NoSearch
<1>3. SearchTypes'
  <2>1. low' \in Nat /\ high' \in Int /\ left' \in Nat /\ right' \in Int
    BY <1>1
  <2>2. segment_buffer' = NotRead \/ IsArray(segment_buffer')
    BY <1>1
  <2>3. /\ avoid_infinite_loop' \in BOOLEAN
        /\ result' \in Stored \cup {None} /\ key' \in Probes \cup {None}
    BY <1>1
  <2>4. /\ pc' \in {"idle", "merge", "filter", "fences", "segment", "done"}
        /\ pc' \notin {"idle", "merge"} => key' \in Probes
    BY <1>1
  <2>5. (segment_buffer = NotRead \/ IsArray(segment_buffer))'
    BY <2>2
  <2> QED
    BY <2>1, <2>3, <2>4, <2>5 DEF SearchTypes
<1>4. Bounds'
  BY <1>1 DEF Bounds
<1>5. SegmentSearched' /\ FindsVersion'
  BY <1>1 DEF SegmentSearched, FindsVersion
<1> QED
  BY <1>2, <1>3, <1>4, <1>5 DEF SearchInv

LEMMA SearchStepKeeps ==
  ASSUME LInv, Arrays, SearchInv, (\E k \in Probes : Ask(k)) \/ SearchStep
  PROVE  SearchInv'
BY AskKeeps, FilterStepKeeps, NarrowKeeps, ReadKeeps, GiveUpKeeps, HitKeeps, HalveKeeps,
   MissKeeps, ReturnKeeps DEF SearchStep

(* Whatever changes the level finds no search under way, and leaves none.  *)
LEMMA NoSearchKeeps ==
  ASSUME SearchInv, UNCHANGED <<key, search>>,
         pc \in {"idle", "merge"}, pc' \in {"idle", "merge"}
  PROVE  SearchInv'
<1>1. key' = key /\ low' = low /\ high' = high /\ left' = left /\ right' = right
      /\ segment_buffer' = segment_buffer /\ avoid_infinite_loop' = avoid_infinite_loop
      /\ reads' = reads /\ result' = result
  BY DEF search
<1>2. NoSearch'
  BY <1>1 DEF SearchInv, NoSearch
<1>3. SearchTypes'
  BY <1>1 DEF SearchInv, SearchTypes, IsArray
<1>4. Bounds' /\ SegmentSearched' /\ FindsVersion'
  BY DEF Bounds, SegmentSearched, FindsVersion
<1> QED
  BY <1>2, <1>3, <1>4 DEF SearchInv

-----------------------------------------------------------------------------
(* All of it is invariant.                                                 *)

(* The fence pointers counted are there.                                   *)
FenceRoom ==
  /\ num_fence_ptrs \in Nat
  /\ \E m \in Nat : DOMAIN fp_array = 0 .. (m - 1) /\ num_fence_ptrs <= m

VInv == LInv /\ Arrays /\ MergedSoFar /\ SearchInv /\ FenceRoom

LEMMA InitVInv ==
  ASSUME Init
  PROVE  VInv
<1>1. /\ data = <<>> /\ child = <<>> /\ temp = <<>> /\ pc = "idle"
      /\ fp_array = <<>> /\ num_fence_ptrs = 0
      /\ NoSearch
  BY DEF Init, NoMerge
<1>2. LInv
  BY InitLInv
<1>3. Arrays /\ MergedSoFar
  BY <1>1, EmptyArray DEF Arrays, MergedSoFar
<1>4. SearchInv
  <2>1. /\ key = None /\ low = 0 /\ high = -1 /\ left = 0 /\ right = -1
        /\ segment_buffer = NotRead /\ avoid_infinite_loop = FALSE /\ result = None
    BY <1>1 DEF NoSearch
  <2>2. low \in Nat /\ high \in Int /\ left \in Nat /\ right \in Int
    BY <2>1
  <2>3. SearchTypes
    BY <1>1, <2>1, <2>2 DEF SearchTypes
  <2>4. Bounds /\ SegmentSearched /\ FindsVersion
    BY <1>1 DEF Bounds, SegmentSearched, FindsVersion
  <2> QED
    BY <1>1, <2>3, <2>4 DEF SearchInv
<1>5. FenceRoom
  <2>1. DOMAIN fp_array = 0 .. (0 - 1)
    BY <1>1
  <2> QED
    BY <1>1, <2>1 DEF FenceRoom
<1> QED
  BY <1>2, <1>3, <1>4, <1>5 DEF VInv

LEMMA BeginRoom ==
  ASSUME LInv, NEW run \in Run, BeginMerge(run)
  PROVE  FenceRoom'
<1> DEFINE count == curr_size + Size(run)
<1>1. count \in Nat
  BY SizeType, PointerTypes DEF LInv
<1> HIDE DEF count
<1>2. fp_array' = Allocated(count) /\ num_fence_ptrs' = NumFencePtrs(count)
  BY DEF BeginMerge, count
<1>3. NumFencePtrs(count) \in Nat
  BY <1>1, FencesReach
<1>4. DOMAIN fp_array' = 0 .. (NumFencePtrs(count) - 1)
  BY <1>2 DEF Allocated
<1>5. PICK m \in Nat : m = NumFencePtrs(count)
  BY <1>3
<1>6. DOMAIN fp_array' = 0 .. (m - 1) /\ num_fence_ptrs' = m
  BY <1>2, <1>4, <1>5
<1>7. num_fence_ptrs' \in Nat /\ num_fence_ptrs' <= m
  BY <1>6
<1> QED
  BY <1>6, <1>7 DEF FenceRoom

LEMMA FinishRoom ==
  ASSUME LInv, Finish
  PROVE  FenceRoom'
<1> DEFINE t == Len(temp)
           count == curr_size + Len(child)
<1>1. /\ pc = "merge" /\ num_fence_ptrs' = NumFencePtrs(t)
      /\ fp_array' = IF NumFencePtrs(t) - 1 < 0 THEN fp_array
                     ELSE [fp_array EXCEPT ![NumFencePtrs(t) - 1].max_key = Last(temp).key]
  BY DEF Finish, AllWritten, Replaced
<1>2. DOMAIN fp_array' = DOMAIN fp_array
  BY <1>1
<1>3. DOMAIN fp_array = 0 .. (NumFencePtrs(count) - 1)
  BY <1>1 DEF LInv, FencesWritten
<1>4. t \in Nat /\ count \in Nat /\ t <= count
  BY PointerTypes DEF LInv
<1> HIDE DEF t, count
<1>5. NumFencePtrs(t) \in Nat /\ NumFencePtrs(count) \in Nat /\ NumFencePtrs(t) <= NumFencePtrs(count)
  BY <1>4, FencesReach, SegmentAllocated
<1>6. PICK m \in Nat : m = NumFencePtrs(count)
  BY <1>5
<1>7. num_fence_ptrs' \in Nat /\ num_fence_ptrs' <= m
  BY <1>1, <1>5, <1>6
<1>8. DOMAIN fp_array' = 0 .. (m - 1)
  BY <1>2, <1>3, <1>6
<1> QED
  BY <1>7, <1>8 DEF FenceRoom

(* An entry that is written moves no fence pointer.                        *)
LEMMA MergeRoom ==
  ASSUME LInv, FenceRoom, MergeStep
  PROVE  FenceRoom'
<1>1. ASSUME NEW entry, Write(entry)
      PROVE  num_fence_ptrs' = num_fence_ptrs /\ DOMAIN fp_array' = DOMAIN fp_array
  BY <1>1 DEF Write, Fenced
<1>2. CASE ~ Finish
  <2>1. num_fence_ptrs' = num_fence_ptrs /\ DOMAIN fp_array' = DOMAIN fp_array
    BY <1>1, <1>2 DEF MergeStep, SkipBoth, TakeMine, TakeTheirs, Replace, CopyMine, CopyTheirs, level
  <2> QED
    BY <2>1 DEF FenceRoom
<1> QED
  BY <1>2, FinishRoom

LEMMA BeginV ==
  ASSUME FilterParameters, VInv, UNCHANGED <<key, search>>, NEW run \in Run, BeginMerge(run)
  PROVE  VInv'
<1>1. LInv' /\ FenceRoom'
  BY BeginKeeps, BeginRoom DEF VInv
<1>2. Arrays' /\ MergedSoFar'
  BY BeginInOrder DEF VInv, LInv
<1>3. SearchInv'
  <2>1. pc = "idle" /\ pc' = "merge"
    BY DEF BeginMerge
  <2> QED
    BY <2>1, NoSearchKeeps DEF VInv
<1> QED
  BY <1>1, <1>2, <1>3 DEF VInv

LEMMA MergeV ==
  ASSUME FilterParameters, VInv, UNCHANGED <<key, search>>, MergeStep
  PROVE  VInv'
<1>1. LInv' /\ FenceRoom'
  BY MergeKeeps, MergeRoom DEF VInv
<1>2. Arrays' /\ MergedSoFar'
  BY MergeStepInOrder DEF VInv, LInv
<1>3. SearchInv'
  <2>1. pc = "merge" /\ pc' \in {"idle", "merge"}
    BY DEF MergeStep, SkipBoth, TakeMine, TakeTheirs, Replace, CopyMine, CopyTheirs, Finish,
           BothLeft, OneLeft, AllWritten, Replaced, Write
  <2> QED
    BY <2>1, NoSearchKeeps DEF VInv
<1> QED
  BY <1>1, <1>2, <1>3 DEF VInv

LEMMA DrainV ==
  ASSUME FilterParameters, VInv, UNCHANGED <<merge, key, search>>, Drain
  PROVE  VInv'
<1>1. /\ pc = "idle" /\ pc' = "idle" /\ data' = data /\ fp_array' = <<>> /\ num_fence_ptrs' = 0
      /\ child' = child /\ temp' = temp
  BY DEF Drain, merge
<1>2. LInv'
  BY DrainKeeps DEF VInv
<1>3. Arrays' /\ MergedSoFar'
  BY <1>1 DEF VInv, Arrays, MergedSoFar
<1>4. SearchInv'
  BY <1>1, NoSearchKeeps DEF VInv
<1>5. FenceRoom'
  <2>1. DOMAIN fp_array' = 0 .. (0 - 1)
    BY <1>1
  <2> QED
    BY <1>1, <2>1 DEF FenceRoom
<1> QED
  BY <1>2, <1>3, <1>4, <1>5 DEF VInv

LEMMA ConstructV ==
  ASSUME FilterParameters, VInv, UNCHANGED <<merge, key, search>>, bf_fp_construct
  PROVE  VInv'
<1>1. /\ pc = "idle" /\ pc' = "idle" /\ data' = data
      /\ fp_array' = Constructed(Entries) /\ num_fence_ptrs' = NumFencePtrs(curr_size)
      /\ child' = child /\ temp' = temp
  BY DEF bf_fp_construct, merge
<1>2. LInv'
  BY ConstructKeeps DEF VInv
<1>3. Arrays' /\ MergedSoFar'
  BY <1>1 DEF VInv, Arrays, MergedSoFar
<1>4. SearchInv'
  BY <1>1, NoSearchKeeps DEF VInv
<1>5. FenceRoom'
  <2>1. Len(Entries) = curr_size /\ NumFencePtrs(curr_size) \in Nat
    BY LenEntries, FencesReach DEF VInv, LInv
  <2>2. DOMAIN fp_array' = 0 .. (NumFencePtrs(curr_size) - 1)
    BY <1>1, <2>1 DEF Constructed
  <2>3. PICK m \in Nat : m = NumFencePtrs(curr_size)
    BY <2>1
  <2>4. DOMAIN fp_array' = 0 .. (m - 1) /\ num_fence_ptrs' = m
    BY <1>1, <2>2, <2>3
  <2>5. num_fence_ptrs' \in Nat /\ num_fence_ptrs' <= m
    BY <2>4
  <2> QED
    BY <2>4, <2>5 DEF FenceRoom
<1> QED
  BY <1>2, <1>3, <1>4, <1>5 DEF VInv

LEMMA SearchV ==
  ASSUME VInv, UNCHANGED merge, (\E k \in Probes : Ask(k)) \/ SearchStep
  PROVE  VInv'
<1>1. LInv' /\ SearchInv'
  BY SearchKeeps, SearchStepKeeps DEF VInv
<1>2. UNCHANGED level /\ pc' # "merge"
  <2>1. CASE \E k \in Probes : Ask(k)
    BY <2>1 DEF Ask
  <2>2. CASE SearchStep
    BY <2>2 DEF SearchStep, FilterExcludes, FilterContains, Narrow, Read, GiveUp,
                Hit, Halve, Miss, Return, VInv, SearchInv
  <2> QED
    BY <2>1, <2>2
<1>3. Arrays' /\ MergedSoFar' /\ FenceRoom'
  BY <1>2 DEF VInv, Arrays, MergedSoFar, FenceRoom, level, merge
<1> QED
  BY <1>1, <1>3 DEF VInv

LEMMA NextVInv ==
  ASSUME FilterParameters, VInv, [Next]_vars
  PROVE  VInv'
<1>1. CASE (\E run \in Run : BeginMerge(run)) /\ UNCHANGED <<key, search>>
  BY <1>1, BeginV
<1>2. CASE MergeStep /\ UNCHANGED <<key, search>>
  BY <1>2, MergeV
<1>3. CASE (Drain \/ bf_fp_construct) /\ UNCHANGED <<merge, key, search>>
  BY <1>3, DrainV, ConstructV
<1>4. CASE ((\E k \in Probes : Ask(k)) \/ SearchStep) /\ UNCHANGED merge
  BY <1>4, SearchV
<1>5. CASE UNCHANGED vars
  <2>1. UNCHANGED <<level, merge, key, search, pc>>
    BY <1>5 DEF vars
  <2>2. LInv'
    BY <1>5, NextLInv DEF VInv
  <2>3. Arrays' /\ FenceRoom'
    BY <2>1 DEF VInv, Arrays, FenceRoom, level, merge
  <2>4. Entries' = Entries
    BY <2>1 DEF Entries, level
  <2>5. MergedSoFar'
    BY <2>1, <2>4 DEF VInv, MergedSoFar, Consumed, Ahead, Merging, level, merge
  <2>6. SearchTypes' /\ Bounds' /\ FindsVersion'
    BY <2>1, <2>4 DEF VInv, SearchInv, SearchTypes, Bounds, FenceHas, Present,
                      FindsVersion, level, search
  <2>7. SegmentSearched'
    BY <2>1 DEF VInv, SearchInv, SegmentSearched, level, search
  <2>8. pc' \in {"idle", "merge"} => NoSearch'
    BY <2>1 DEF VInv, SearchInv, NoSearch, search
  <2> QED
    BY <2>2, <2>3, <2>5, <2>6, <2>7, <2>8 DEF VInv, SearchInv
<1> QED
  BY <1>1, <1>2, <1>3, <1>4, <1>5 DEF Next

LEMMA AlwaysVInv ==
  ASSUME FilterParameters
  PROVE  Spec => []VInv
<1>1. Init => VInv
  BY InitVInv
<1>2. VInv /\ [Next]_vars => VInv'
  BY NextVInv
<1> QED
  BY <1>1, <1>2, PTL DEF Spec

(* A level's files, pointers and counters, and the variables of a merge    *)
(* and of a search in it, have the types the code gives them.              *)
THEOREM LevelTypeCorrect ==
  ASSUME FilterParameters
  PROVE  Spec => []TypeOK
<1>1. VInv => TypeOK
  <2> SUFFICES ASSUME VInv PROVE TypeOK
    OBVIOUS
  <2>1. /\ data \in Seq(lsm_data) /\ temp \in Seq(lsm_data) /\ child \in Seq(lsm_data)
    BY DEF VInv, Arrays, IsArray
  <2>2. /\ curr_size \in 0 .. Len(data)
        /\ my_ptr \in 0 .. curr_size /\ child_ptr \in 0 .. Len(child)
    BY DEF VInv, LInv, Pointers
  <2>3. num_fence_ptrs \in 0 .. Cardinality(DOMAIN fp_array)
    <3>1. PICK m \in Nat : DOMAIN fp_array = 0 .. (m - 1) /\ num_fence_ptrs <= m
      BY DEF VInv, FenceRoom
    <3>2. Cardinality(0 .. (m - 1)) = m
      <4>1. 0 \in Int /\ m - 1 \in Int /\ 0 <= (m - 1) - 0 + 1 /\ (m - 1) - 0 + 1 = m
        OBVIOUS
      <4>2. Cardinality(0 .. (m - 1)) = IF 0 > m - 1 THEN 0 ELSE m - 1 - 0 + 1
        BY <4>1, FS_Interval
      <4> HIDE DEF Cardinality
      <4> QED
        BY <4>2
    <3>3. num_fence_ptrs \in 0 .. m
      BY <3>1 DEF VInv, FenceRoom
    <3> QED
      BY <3>1, <3>2, <3>3
  <2>4. reads \in 0 .. ReadsCounted
    BY DEF VInv, LInv, ReadNoted, ReadsCounted
  <2>5. /\ pc \in {"idle", "merge", "filter", "fences", "segment", "done"}
        /\ key \in Probes \cup {None}
        /\ low \in Nat /\ high \in Int /\ left \in Nat /\ right \in Int
        /\ avoid_infinite_loop \in BOOLEAN
        /\ result \in Stored \cup {None}
    BY DEF VInv, SearchInv, SearchTypes
  <2>6. segment_buffer = NotRead \/ segment_buffer \in Seq(lsm_data)
    BY DEF VInv, SearchInv, SearchTypes, IsArray
  <2> QED
    BY <2>1, <2>2, <2>3, <2>4, <2>5, <2>6 DEF TypeOK
<1> QED
  BY <1>1, AlwaysVInv, PTL

(* The three loops of level::merge() write the merge of the two runs, in   *)
(* order, each key once and in its newer version, whatever the runs are.   *)
THEOREM MergedRunCorrect ==
  ASSUME FilterParameters
  PROVE  Spec => []WritesMergedRun
<1>1. VInv => WritesMergedRun
  BY WritesAll DEF VInv, LInv, WritesMergedRun, Merging
<1> QED
  BY <1>1, AlwaysVInv, PTL

(* A search ends with the level's entry for the key, and with none exactly *)
(* if the level has none.                                                  *)
THEOREM FindsVersionCorrect ==
  ASSUME FilterParameters
  PROVE  Spec => []FindsVersion
<1>1. VInv => FindsVersion
  BY DEF VInv, SearchInv
<1> QED
  BY <1>1, AlwaysVInv, PTL

(* The entries that a range query finds are those of the level, and the    *)
(* other way around.                                                       *)
LEMMA RangeFinds ==
  ASSUME LInv, Arrays, pc # "merge", NEW start \in Int, NEW end \in Int, NEW e
  PROVE  e \in process_level(start, end) <=>
           \E p \in 1 .. curr_size : e = data[p] /\ start <= e.key /\ e.key < end
<1> DEFINE Overlapping == {n \in 0 .. (num_fence_ptrs - 1) : Overlaps(start, end, n)}
<1>1. e \in process_level(start, end) <=>
        \E n \in Overlapping :
          \E p \in DOMAIN Segment(fp_array[n].offset, EntriesToRead(n)) :
             /\ e = Segment(fp_array[n].offset, EntriesToRead(n))[p]
             /\ start <= e.key /\ e.key < end
  <2> DEFINE s(n) == Segment(fp_array[n].offset, EntriesToRead(n))
             Part(n) == {s(n)[p] : p \in {p \in DOMAIN s(n) :
                                            start <= s(n)[p].key /\ s(n)[p].key < end}}
  <2>1. process_level(start, end) = UNION {Part(n) : n \in Overlapping}
    BY DEF process_level
  <2>2. ASSUME NEW n \in Overlapping
        PROVE  e \in Part(n) <=> \E p \in DOMAIN s(n) : /\ e = s(n)[p]
                                                      /\ start <= e.key /\ e.key < end
    <3> DEFINE seq == s(n)
    <3>1. Part(n) = {seq[p] : p \in {p \in DOMAIN seq : start <= seq[p].key /\ seq[p].key < end}}
      OBVIOUS
    <3>2. (e \in Part(n) <=> \E p \in DOMAIN seq : /\ e = seq[p]
                                                  /\ start <= e.key /\ e.key < end)
      <4> HIDE DEF seq, Part
      <4> QED
        BY <3>1
    <3> QED
      BY <3>2
  <2>3. e \in process_level(start, end) <=> \E n \in Overlapping : e \in Part(n)
    <3> HIDE DEF Part, Overlapping, process_level
    <3> QED
      BY <2>1, Zenon
  <2> QED
    BY <2>2, <2>3
<1>2. ASSUME NEW n \in Overlapping,
             NEW p \in DOMAIN Segment(fp_array[n].offset, EntriesToRead(n)),
             e = Segment(fp_array[n].offset, EntriesToRead(n))[p]
      PROVE  \E q \in 1 .. curr_size : e = data[q]
  <2> DEFINE s == Segment(fp_array[n].offset, EntriesToRead(n))
  <2>1. n \in 0 .. (num_fence_ptrs - 1)
    OBVIOUS
  <2>2. /\ IsArray(s)
        /\ \A t \in 1 .. Len(s) : n * K + t \in (n * K + 1) .. SegmentEnd(n) /\ s[t] = data[n * K + t]
    BY <2>1, SegmentRead
  <2>3. /\ n * K \in Nat /\ SegmentEnd(n) \in 1 .. curr_size
    BY <2>1, FenceAt
  <2>4. p \in 1 .. Len(s)
    BY <2>2, LenProperties DEF IsArray
  <2> HIDE DEF s
  <2>5. n * K + p \in (n * K + 1) .. SegmentEnd(n) /\ s[p] = data[n * K + p]
    BY <2>2, <2>4
  <2>6. curr_size \in Nat
    BY LenEntries DEF LInv
  <2>7. n * K + p \in 1 .. curr_size
    <3> DEFINE m == n * K
               l == SegmentEnd(n)
    <3>1. m \in Nat /\ l \in 1 .. curr_size /\ m + p \in (m + 1) .. l
      BY <2>3, <2>5
    <3> HIDE DEF m, l
    <3>2. m + p \in 1 .. curr_size
      BY <2>6, <3>1
    <3> QED
      BY <3>2 DEF m
  <2>8. e = data[n * K + p]
    BY <1>2, <2>5 DEF s
  <2> QED
    BY <2>7, <2>8
<1>3. ASSUME NEW p \in 1 .. curr_size, e = data[p], start <= e.key, e.key < end
      PROVE  \E n \in Overlapping :
               \E t \in DOMAIN Segment(fp_array[n].offset, EntriesToRead(n)) :
                  e = Segment(fp_array[n].offset, EntriesToRead(n))[t]
  <2>1. PICK n \in 0 .. (num_fence_ptrs - 1) : /\ fp_array[n].min_key <= data[p].key
                                               /\ data[p].key <= fp_array[n].max_key
    BY SegmentOf
  <2>2. /\ fp_array[n].min_key \in Int /\ fp_array[n].max_key \in Int
        /\ data[p].key \in Int
    BY FencesGrow, KeysAt
  <2>3. Overlaps(start, end, n)
    <3>1. start <= data[p].key /\ data[p].key < end
      BY <1>3
    <3>2. fp_array[n].min_key < end
      BY <2>1, <2>2, <3>1
    <3>3. start <= fp_array[n].max_key
      BY <2>1, <2>2, <3>1
    <3> QED
      BY <3>2, <3>3 DEF Overlaps
  <2> DEFINE s == Segment(fp_array[n].offset, EntriesToRead(n))
  <2>4. PICK t \in 1 .. Len(s) : s[t] = data[p]
    BY <2>1, InSegment
  <2>5. t \in DOMAIN s
    <3>1. IsArray(s)
      BY SegmentRead
    <3> HIDE DEF s
    <3> QED
      BY <3>1, LenProperties DEF IsArray
  <2> QED
    BY <1>3, <2>3, <2>4, <2>5
<1> HIDE DEF Overlapping
<1> QED
  BY <1>1, <1>2, <1>3

(* A range query reads of a level all entries of its interval: no fence    *)
(* pointer hides one, and none of those read is from elsewhere.            *)
THEOREM RangeReadsCorrect ==
  ASSUME FilterParameters
  PROVE  Spec => []RangeReadsAll
<1>1. VInv => RangeReadsAll
  <2> SUFFICES ASSUME VInv, pc = "idle", NEW start \in Probes, NEW end \in Probes
               PROVE  process_level(start, end) =
                        {e \in {Entries[p] : p \in DOMAIN Entries} : start <= e.key /\ e.key < end}
    BY DEF RangeReadsAll
  <2>1. LInv /\ Arrays /\ start \in Int /\ end \in Int
    BY ProbesAssumption DEF VInv
  <2>2. /\ IsArray(Entries) /\ Len(Entries) = curr_size
        /\ \A p \in 1 .. curr_size : Entries[p] = data[p]
    BY <2>1, EntriesArray DEF LInv, Arrays
  <2>3. DOMAIN Entries = 1 .. curr_size
    BY <2>2, LenProperties DEF IsArray
  <2> HIDE DEF Entries
  <2>4. ASSUME NEW e
        PROVE  e \in process_level(start, end) <=>
                 e \in {x \in {Entries[p] : p \in DOMAIN Entries} : start <= x.key /\ x.key < end}
    <3>1. e \in process_level(start, end) <=>
            \E p \in 1 .. curr_size : e = data[p] /\ start <= e.key /\ e.key < end
      BY <2>1, RangeFinds
    <3> HIDE DEF process_level
    <3>2. e \in {x \in {Entries[p] : p \in DOMAIN Entries} : start <= x.key /\ x.key < end}
            <=> \E p \in 1 .. curr_size : e = data[p] /\ start <= e.key /\ e.key < end
      BY <2>2, <2>3
    <3> QED
      BY <3>1, <3>2
  <2>5. \A e : e \in process_level(start, end) <=>
                 e \in {x \in {Entries[p] : p \in DOMAIN Entries} : start <= x.key /\ x.key < end}
    BY <2>4
  <2> DEFINE R == {x \in {Entries[p] : p \in DOMAIN Entries} : start <= x.key /\ x.key < end}
             L == process_level(start, end)
  <2>6. \A e : e \in L <=> e \in R
    BY <2>5
  <2> HIDE DEF L, R
  <2>7. L = R
    BY <2>6
  <2> QED
    BY <2>7 DEF L, R
<1> QED
  BY <1>1, AlwaysVInv, PTL

-----------------------------------------------------------------------------
(* The level as a store of one run.                                        *)

StoreRun == RunOf(Entries)

Doing == CASE pc = "idle"  -> [op |-> "nothing"]
           [] pc = "merge" -> [op |-> "merge", incoming |-> RunOf(child)]
           [] pc = "done"  -> [op |-> "answer", value |-> result]
           [] OTHER        -> [op |-> "get", key |-> key]

LEMMA DoingAt ==
  /\ pc = "idle" => Doing = [op |-> "nothing"]
  /\ pc = "merge" => Doing = [op |-> "merge", incoming |-> RunOf(child)]
  /\ pc = "done" => Doing = [op |-> "answer", value |-> result]
  /\ pc \in {"filter", "fences", "segment"} => Doing = [op |-> "get", key |-> key]
BY DEF Doing

LEMMA DoingNext ==
  /\ pc' = "idle" => Doing' = [op |-> "nothing"]
  /\ pc' = "merge" => Doing' = [op |-> "merge", incoming |-> RunOf(child')]
  /\ pc' = "done" => Doing' = [op |-> "answer", value |-> result']
  /\ pc' \in {"filter", "fences", "segment"} => Doing' = [op |-> "get", key |-> key']
BY DEF Doing

StoreStep == [Store!Next]_<<StoreRun, Doing>>

LEMMA StoreStutters ==
  ASSUME StoreRun' = StoreRun, Doing' = Doing
  PROVE  StoreStep
BY DEF StoreStep

(* The actions of the store, said of the level.                            *)
LEMMA StoreActions ==
  /\ Store!Begin <=> /\ Doing = [op |-> "nothing"]
                     /\ Doing' \in [op : {"merge"}, incoming : Run]
                     /\ StoreRun' = StoreRun
  /\ Store!MergeIn <=> /\ Doing.op = "merge"
                       /\ StoreRun' = MergeRuns(StoreRun, Doing.incoming)
                       /\ Doing' = [op |-> "nothing"]
  /\ Store!Drain <=> /\ Doing = [op |-> "nothing"]
                     /\ StoreRun' = Empty
                     /\ Doing' = Doing
  /\ Store!Ask <=> /\ Doing = [op |-> "nothing"]
                   /\ Doing' \in [op : {"get"}, key : Probes]
                   /\ StoreRun' = StoreRun
  /\ Store!Answer <=> /\ Doing.op = "get"
                      /\ Doing' = [op |-> "answer",
                                   value |-> IF Doing.key \in Keys THEN StoreRun[Doing.key] ELSE None]
                      /\ StoreRun' = StoreRun
  /\ Store!Reply <=> /\ Doing.op = "answer"
                     /\ Doing' = [op |-> "nothing"]
                     /\ StoreRun' = StoreRun
<1>1. Store!Run = Run /\ Store!Empty = Empty
  BY DEF Store!Run, Store!Stored, Run, Stored, Store!Empty, Empty
<1>2. ASSUME NEW r, NEW s PROVE Store!MergeRuns(r, s) = MergeRuns(r, s)
  BY DEF Store!MergeRuns, MergeRuns
<1> QED
  BY <1>1, <1>2 DEF Store!Begin, Store!MergeIn, Store!Drain, Store!Ask, Store!Answer, Store!Reply,
                    Store!Idle, StoreRun, Doing

LEMMA BeginStores ==
  ASSUME VInv, NEW run \in Run, BeginMerge(run)
  PROVE  StoreStep
<1>1. pc = "idle" /\ pc' = "merge" /\ data' = data /\ curr_size' = curr_size
  BY DEF BeginMerge
<1>2. RunOf(child') = run
  BY BeginInOrder DEF VInv, LInv
<1>3. Doing = [op |-> "nothing"] /\ Doing' = [op |-> "merge", incoming |-> run]
  BY <1>1, <1>2, DoingAt, DoingNext
<1>4. StoreRun' = StoreRun
  BY <1>1 DEF StoreRun, Entries
<1>5. Store!Begin
  BY <1>3, <1>4, StoreActions
<1> QED
  BY <1>5 DEF StoreStep, Store!Next

(* The loops of a merge do not show; its end does, all at once.            *)
LEMMA MergeStores ==
  ASSUME VInv, MergeStep
  PROVE  StoreStep
<1>1. CASE Finish
  <2>1. /\ AllWritten /\ pc = "merge" /\ pc' = "idle"
        /\ data' = temp /\ curr_size' = Len(temp)
    BY <1>1 DEF Finish, AllWritten, Replaced
  <2>2. RunOf(temp) = Merging
    BY <2>1, WritesAll DEF VInv, LInv
  <2>3. Entries' = temp
    BY <2>1, WholeSequence DEF Entries, VInv, LInv, Pointers
  <2>4. StoreRun' = MergeRuns(StoreRun, RunOf(child))
    BY <2>2, <2>3 DEF StoreRun, Merging
  <2>5. Doing = [op |-> "merge", incoming |-> RunOf(child)] /\ Doing' = [op |-> "nothing"]
    BY <2>1, DoingAt, DoingNext
  <2>6. Store!MergeIn
    BY <2>4, <2>5, StoreActions
  <2> QED
    BY <2>6 DEF StoreStep, Store!Next
<1>2. CASE ~ Finish
  <2>1. /\ pc = "merge" /\ pc' = "merge" /\ data' = data /\ curr_size' = curr_size
        /\ child' = child
    BY <1>2 DEF MergeStep, SkipBoth, TakeMine, TakeTheirs, Replace, CopyMine, CopyTheirs,
                BothLeft, OneLeft, Write, level
  <2>2. StoreRun' = StoreRun
    BY <2>1 DEF StoreRun, Entries
  <2>3. Doing' = Doing
    BY <2>1, DoingAt, DoingNext
  <2> QED
    BY <2>2, <2>3, StoreStutters
<1> QED
  BY <1>1, <1>2

LEMMA DrainStores ==
  ASSUME VInv, Drain \/ bf_fp_construct
  PROVE  StoreStep
<1>1. pc = "idle" /\ pc' = "idle" /\ data' = data
  BY DEF Drain, bf_fp_construct
<1>2. Doing = [op |-> "nothing"] /\ Doing' = [op |-> "nothing"]
  BY <1>1, DoingAt, DoingNext
<1>3. CASE Drain
  <2>1. Entries' = <<>>
    BY <1>1, <1>3, SubSeqEmpty DEF Entries, Drain
  <2>2. StoreRun' = Empty
    BY <2>1, EmptyArray DEF StoreRun
  <2>3. Store!Drain
    BY <1>2, <2>2, StoreActions
  <2> QED
    BY <2>3 DEF StoreStep, Store!Next
<1>4. CASE bf_fp_construct
  <2>1. StoreRun' = StoreRun
    BY <1>1, <1>4 DEF StoreRun, Entries, bf_fp_construct
  <2> QED
    BY <1>2, <2>1, StoreStutters
<1> QED
  BY <1>3, <1>4

LEMMA SearchStores ==
  ASSUME VInv, VInv', (\E k \in Probes : Ask(k)) \/ SearchStep
  PROVE  StoreStep
<1>1. UNCHANGED level
  BY DEF Ask, SearchStep, FilterExcludes, FilterContains, Narrow, Read, GiveUp,
         Hit, Halve, Miss, Return
<1>2. Entries' = Entries /\ StoreRun' = StoreRun
  BY <1>1 DEF Entries, StoreRun, level
<1>3. ASSUME NEW k \in Probes, Ask(k)
      PROVE  StoreStep
  <2>1. pc = "idle" /\ pc' = "filter" /\ key' = k
    BY <1>3 DEF Ask
  <2>2. Doing = [op |-> "nothing"] /\ Doing' = [op |-> "get", key |-> k]
    BY <2>1, DoingAt, DoingNext
  <2>3. Store!Ask
    BY <1>2, <2>2, StoreActions
  <2> QED
    BY <2>3 DEF StoreStep, Store!Next
<1>4. CASE FilterContains \/ Narrow \/ Read \/ Halve \/ Miss
  <2>1. pc \in {"filter", "fences", "segment"} /\ pc' \in {"filter", "fences", "segment"} /\ key' = key
    BY <1>4 DEF FilterContains, Narrow, Read, Halve, Miss
  <2>2. Doing' = Doing
    BY <2>1, DoingAt, DoingNext
  <2> QED
    BY <1>2, <2>2, StoreStutters
<1>5. CASE FilterExcludes \/ GiveUp \/ Hit
  <2>1. pc \in {"filter", "fences", "segment"} /\ pc' = "done" /\ key' = key
    BY <1>5 DEF FilterExcludes, GiveUp, Hit
  <2>2. FindsVersion'
    BY DEF VInv, SearchInv
  <2>3. result' = IF key \in Keys THEN StoreRun[key] ELSE None
    BY <1>2, <2>1, <2>2 DEF FindsVersion, StoreRun
  <2>4. Doing = [op |-> "get", key |-> key] /\ Doing' = [op |-> "answer", value |-> result']
    BY <2>1, DoingAt, DoingNext
  <2>5. Store!Answer
    BY <1>2, <2>3, <2>4, StoreActions
  <2> QED
    BY <2>5 DEF StoreStep, Store!Next
<1>6. CASE Return
  <2>1. pc = "done" /\ pc' = "idle"
    BY <1>6 DEF Return
  <2>2. Doing = [op |-> "answer", value |-> result] /\ Doing' = [op |-> "nothing"]
    BY <2>1, DoingAt, DoingNext
  <2>3. Store!Reply
    BY <1>2, <2>2, StoreActions
  <2> QED
    BY <2>3 DEF StoreStep, Store!Next
<1> QED
  BY <1>3, <1>4, <1>5, <1>6 DEF SearchStep

LEMMA StepStores ==
  ASSUME VInv, VInv', [Next]_vars
  PROVE  StoreStep
<1>1. CASE \E run \in Run : BeginMerge(run)
  BY <1>1, BeginStores
<1>2. CASE MergeStep
  BY <1>2, MergeStores
<1>3. CASE Drain \/ bf_fp_construct
  BY <1>3, DrainStores
<1>4. CASE (\E k \in Probes : Ask(k)) \/ SearchStep
  BY <1>4, SearchStores
<1>5. CASE UNCHANGED vars
  <2>1. StoreRun' = StoreRun
    BY <1>5 DEF vars, level, StoreRun, Entries
  <2>2. Doing' = Doing
    BY <1>5 DEF vars, merge, search, Doing
  <2> QED
    BY <2>1, <2>2, StoreStutters
<1> QED
  BY <1>1, <1>2, <1>3, <1>4, <1>5 DEF Next

(* A level implements the run store: whatever its file, its filter, its    *)
(* fence pointers and the loops over them do, what shows is a run that is  *)
(* merged into, handed on, and asked for its entries.                      *)
THEOREM RefinementCorrect ==
  ASSUME FilterParameters
  PROVE  Spec => ImplementsRunStore
<1>1. Init => Store!Init
  <2> SUFFICES ASSUME Init PROVE Store!Init
    OBVIOUS
  <2>1. data = <<>> /\ curr_size = 0 /\ pc = "idle"
    BY DEF Init
  <2>2. Entries = <<>>
    BY <2>1, SubSeqEmpty DEF Entries
  <2>3. StoreRun = Empty
    BY <2>2, EmptyArray DEF StoreRun
  <2>4. Doing = [op |-> "nothing"]
    BY <2>1, DoingAt
  <2> QED
    BY <2>3, <2>4 DEF Store!Init, Store!Idle, Store!Empty, Empty, StoreRun, Doing
<1>2. VInv /\ VInv' /\ [Next]_vars => StoreStep
  BY StepStores
<1>3. VInv /\ VInv' /\ [Next]_vars =>
        [Store!Next]_<<RunOf(Entries),
                       CASE pc = "idle"  -> [op |-> "nothing"]
                         [] pc = "merge" -> [op |-> "merge", incoming |-> RunOf(child)]
                         [] pc = "done"  -> [op |-> "answer", value |-> result]
                         [] OTHER        -> [op |-> "get", key |-> key]>>
  BY <1>2 DEF StoreStep, StoreRun, Doing
<1>4. Spec => []VInv
  BY AlwaysVInv
<1> QED
  BY <1>1, <1>3, <1>4, PTL DEF Spec, ImplementsRunStore, Store!Spec
=============================================================================
