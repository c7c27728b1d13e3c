--------------------------- MODULE LSMTree_proofs ---------------------------
(***************************************************************************)
(* Theorems about LSMTree, for every set of keys and values, every number  *)
(* of levels and every choice of the capacities.                           *)
(***************************************************************************)
EXTENDS LSMTree, SSTable_proofs

(* What a level holds is the whole of its file or nothing: the sizes that  *)
(* merge() and merge_level() leave are the length of the run just written  *)
(* and zero.                                                               *)
WholeFiles == \A i \in Levels : curr_size[i] \in {0, Size(file[i])}

(* The live keys have a newest version, with the dictionary's value.       *)
LiveNewest == \A k \in Keys : store[k] # None =>
                \E i \in 0 .. MAX_LEVELS : /\ Newest(i, k)
                                           /\ Version(i, k) = store[k]

(* The metadata page, which holds an entry for the last level too.         *)
OnRecord == \A i \in Levels : meta[i] = curr_size[i]

(* The part of the invariant about the shape of levels, and all of it.     *)
Shape == /\ TypeOK
         /\ WholeFiles
         /\ SizeWithinCapacity
         /\ OnRecord
         /\ IndexMatches

IInv == Shape /\ LiveNewest

(* The run at position i: the buffer, or a level.                          *)
Content(i) == IF i = 0 THEN buffer ELSE Level(i)

-----------------------------------------------------------------------------
(* Levels in a state of the right shape.                                   *)

LEMMA LevelShape ==
  ASSUME Shape, NEW i \in Levels
  PROVE  /\ Level(i) \in Run
         /\ Size(Level(i)) = curr_size[i]
         /\ \A k \in Keys : Version(i, k) = Level(i)[k]
<1>1. file[i] \in Run /\ curr_size[i] \in {0, Size(file[i])}
  BY DEF Shape, TypeOK, WholeFiles
<1>2. CASE curr_size[i] = 0
  <2>1. Level(i) = Empty
    BY <1>1, <1>2, PrefixNone DEF Level
  <2> QED
    BY <1>2, <2>1, EmptyRun DEF Shape, IndexMatches, Version, Levels, Empty
<1>3. CASE curr_size[i] = Size(file[i])
  <2>1. Level(i) = file[i]
    BY <1>1, <1>3, PrefixAll DEF Level
  <2>2. /\ filter[i] = {k \in Keys : Level(i)[k] # None}
        /\ fences[i] = {k \in Keys : Level(i)[k] # None}
    BY DEF Shape, IndexMatches, KeysOf
  <2>3. i # 0
    BY DEF Levels
  <2> QED
    BY <1>1, <1>3, <2>1, <2>2, <2>3 DEF Version
<1> QED
  BY <1>1, <1>2, <1>3

LEMMA ContentShape ==
  ASSUME Shape, NEW i \in 0 .. MAX_LEVELS
  PROVE  /\ Content(i) \in Run
         /\ Size(Content(i)) \in Nat
         /\ \A k \in Keys : Version(i, k) = Content(i)[k]
<1>1. CASE i = 0
  BY <1>1, SizeType DEF Content, Version, Shape, TypeOK
<1>2. CASE i # 0
  <2>1. i \in Levels
    BY <1>2, ParametersAssumption DEF Levels
  <2> QED
    BY <1>2, <2>1, LevelShape, SizeType DEF Content
<1> QED
  BY <1>1, <1>2

(* Each level has room for the one above it: what a merge brings to an     *)
(* emptied level always fits.                                              *)
LEMMA CapacityGrows ==
  ASSUME NEW i \in Levels, i > 1
  PROVE  Capacity[i - 1] \in Nat /\ Capacity[i] \in Nat /\ Capacity[i - 1] <= Capacity[i]
<1>1. i \in 2 .. MAX_LEVELS /\ i - 1 \in Levels
  BY ParametersAssumption DEF Levels
<1>2. Capacity[i - 1] \in Nat /\ Capacity[i] \in Nat
  BY <1>1, CapacityAssumption
<1>3. Capacity[i] = Capacity[i - 1] * SIZE_RATIO
  BY <1>1, CapacityAssumption
<1>4. \A m \in Nat, n \in Nat \ {0} : m <= m * n
  BY SMTT(30)
<1> QED
  BY <1>2, <1>3, <1>4, ParametersAssumption

-----------------------------------------------------------------------------
(* A merge of the run at position i - 1 into level i.                      *)

LEMMA ChildContent ==
  ASSUME NEW i \in Levels, NEW j \in Levels, i <= j
  PROVE  /\ Child(i, Content(i - 1), j) = Content(j - 1)
         /\ j - 1 \in 0 .. MAX_LEVELS
<1>1. i \in Nat /\ j \in Nat /\ MAX_LEVELS \in Nat /\ 1 <= i /\ 1 <= j /\ j <= MAX_LEVELS
  BY ParametersAssumption DEF Levels
<1>2. j # i => j - 1 # 0
  BY <1>1
<1> QED
  BY <1>1, <1>2 DEF Child, Content

(* The levels that a cascade rewrites follow one another.                  *)
LEMMA CascadeIsContiguous ==
  ASSUME NEW i \in Levels, NEW src, NEW j \in Levels,
         Rewritten(i, src, j), i < j
  PROVE  /\ Rewritten(i, src, j - 1)
         /\ Overflows(i, src, j - 1)
<1>1. i \in Int /\ j \in Int
  BY DEF Levels
<1>2. j - 1 >= i /\ j - 1 \in i .. (j - 1)
  BY <1>1
<1>3. /\ \A m \in i .. j : Size(Child(i, src, m)) > 0
      /\ \A m \in i .. (j - 1) : Overflows(i, src, m)
  BY DEF Rewritten
<1>4. \A m \in i .. (j - 1) : m \in i .. j
  BY <1>1
<1>5. \A m \in i .. ((j - 1) - 1) : m \in i .. (j - 1)
  BY <1>1
<1> QED
  BY <1>2, <1>3, <1>4, <1>5 DEF Rewritten

(* What is merged into a level that remains, and what it is merged with,   *)
(* fit together: the unsigned capacity_ - curr_size_ does not wrap.        *)
LEMMA MergeFits ==
  ASSUME Shape, NEW i \in Levels, NEW j \in Levels,
         Merge(i, Content(i - 1)), Rewritten(i, Content(i - 1), j)
  PROVE  /\ NewRun(i, Content(i - 1), j) \in Run
         /\ Size(NewRun(i, Content(i - 1), j)) \in Nat
         /\ Size(NewRun(i, Content(i - 1), j)) <= Capacity[j]
<1> DEFINE src == Content(i - 1)
           child == Child(i, src, j)
           rest == Remaining(i, src, j)
<1>1. i \in Nat /\ j \in Nat /\ i <= j /\ 1 <= i /\ 1 <= j
  BY DEF Levels, Rewritten
<1>2. child = Content(j - 1) /\ j - 1 \in 0 .. MAX_LEVELS
  BY <1>1, ChildContent
<1>3. child \in Run /\ Size(child) \in Nat
  BY <1>2, ContentShape
<1>4. Level(j) \in Run /\ Size(Level(j)) = curr_size[j]
  BY LevelShape
<1>5. Size(child) <= Capacity[j] /\ Capacity[j] \in Nat
  <2>1. CASE j = 1
    <3>1. child = buffer
      BY <1>2, <2>1 DEF Content
    <3> QED
      BY <2>1, <3>1, <1>3, ParametersAssumption, CapacityAssumption
      DEF Shape, TypeOK, Levels
  <2>2. CASE j > 1
    <3>1. j - 1 \in Levels /\ j - 1 # 0
      BY <2>2, ParametersAssumption DEF Levels
    <3>2. Size(child) = curr_size[j - 1]
      BY <1>2, <3>1, LevelShape DEF Content
    <3>3. curr_size[j - 1] \in Nat /\ curr_size[j - 1] <= Capacity[j - 1]
      BY <3>1 DEF Shape, TypeOK, SizeWithinCapacity
    <3> QED
      BY <2>2, <3>2, <3>3, CapacityGrows
  <2> QED
    BY <1>1, <2>1, <2>2
<1>6. rest \in Run /\ Size(rest) \in Nat /\ Size(rest) + Size(child) <= Capacity[j]
  <2>1. CASE Overflows(i, src, j)
    BY <2>1, <1>3, <1>5, EmptyRun DEF Remaining
  <2>2. CASE ~ Overflows(i, src, j)
    <3>1. curr_size[j] \in Nat
      BY DEF Shape, TypeOK
    <3> QED
      BY <2>2, <3>1, <1>3, <1>4, <1>5 DEF Remaining, Overflows
  <2> QED
    BY <2>1, <2>2
<1>7. NewRun(i, src, j) \in Run
  BY <1>3, <1>6, MergeRunsType DEF NewRun
<1>8. Size(NewRun(i, src, j)) <= Size(rest) + Size(child)
  BY <1>3, <1>6, MergeRunsSize DEF NewRun
<1>9. Size(NewRun(i, src, j)) \in Nat
  BY SizeType
<1> QED
  BY <1>3, <1>5, <1>6, <1>7, <1>8, <1>9

(* A merge leaves the levels in the right shape.                           *)
LEMMA MergeShape ==
  ASSUME Shape, NEW i \in Levels, Merge(i, Content(i - 1))
  PROVE  /\ file' \in [Levels -> Run]
         /\ curr_size' \in [Levels -> Nat]
         /\ filter' \in [Levels -> SUBSET Keys]
         /\ fences' \in [Levels -> SUBSET Keys]
         /\ meta' \in [Levels -> Nat]
         /\ WholeFiles' /\ SizeWithinCapacity' /\ OnRecord' /\ IndexMatches'
<1> DEFINE src == Content(i - 1)
<1> SUFFICES ASSUME NEW j \in Levels
             PROVE  /\ file'[j] \in Run
                    /\ curr_size'[j] \in Nat
                    /\ filter'[j] \in SUBSET Keys
                    /\ fences'[j] \in SUBSET Keys
                    /\ curr_size'[j] \in {0, Size(file'[j])}
                    /\ curr_size'[j] <= Capacity[j]
                    /\ meta'[j] = curr_size'[j]
                    /\ filter'[j] = KeysOf(Prefix(file'[j], curr_size'[j]))
                    /\ fences'[j] = KeysOf(Prefix(file'[j], curr_size'[j]))
  BY DEF Merge, WholeFiles, SizeWithinCapacity, OnRecord, IndexMatches, Level
<1>1. /\ file'[j] = IF Rewritten(i, src, j) THEN NewRun(i, src, j) ELSE file[j]
      /\ curr_size'[j] = SizeAfter(i, src, j)
      /\ filter'[j] = IndexAfter(filter, i, src, j)
      /\ fences'[j] = IndexAfter(fences, i, src, j)
      /\ meta'[j] = MetadataAfter(i, src, j)
  BY DEF Merge
<1>2. /\ file[j] \in Run /\ curr_size[j] \in Nat
      /\ filter[j] \in SUBSET Keys /\ fences[j] \in SUBSET Keys
      /\ curr_size[j] \in {0, Size(file[j])} /\ curr_size[j] <= Capacity[j]
      /\ meta[j] = curr_size[j]
      /\ filter[j] = KeysOf(Prefix(file[j], curr_size[j]))
      /\ fences[j] = KeysOf(Prefix(file[j], curr_size[j]))
  BY DEF Shape, TypeOK, WholeFiles, SizeWithinCapacity, OnRecord, IndexMatches, Level
<1>3. CASE Rewritten(i, src, j)
  <2>1. NewRun(i, src, j) \in Run /\ Size(NewRun(i, src, j)) \in Nat
        /\ Size(NewRun(i, src, j)) <= Capacity[j]
    BY <1>3, MergeFits
  <2>2. Prefix(NewRun(i, src, j), Size(NewRun(i, src, j))) = NewRun(i, src, j)
    BY <2>1, PrefixAll
  <2> QED
    BY <1>1, <1>3, <2>1, <2>2 DEF SizeAfter, IndexAfter, MetadataAfter, KeysOf
<1>4. CASE ~ Rewritten(i, src, j) /\ Drained(i, src, j)
  <2>1. Prefix(file[j], 0) = Empty
    BY <1>2, PrefixNone
  <2>2. 0 <= Capacity[j]
    BY CapacityAssumption
  <2> QED
    BY <1>1, <1>2, <1>4, <2>1, <2>2, EmptyRun DEF SizeAfter, IndexAfter, MetadataAfter
<1>5. CASE ~ Rewritten(i, src, j) /\ ~ Drained(i, src, j)
  BY <1>1, <1>2, <1>5 DEF SizeAfter, IndexAfter, MetadataAfter
<1> QED
  BY <1>3, <1>4, <1>5

-----------------------------------------------------------------------------
(* Where the versions of a key are after a merge.                          *)

(* What a merge leaves of the versions c, below, and d, above, of a key.   *)
Merged(c, d) == IF d = None THEN c
                ELSE IF d = DELETED_FLAG /\ c # None THEN None
                ELSE d

(* The cascade of Merge(i, Content(i - 1)) rewrites position p.            *)
Moved(i, p) == p \in Levels /\ Rewritten(i, Content(i - 1), p)

(* Every level of a cascade but the lowest takes over the run of the level *)
(* above; the lowest merges it with its own.                               *)
LEMMA NewRunValue ==
  ASSUME Shape, NEW i \in Levels, Merge(i, Content(i - 1)),
         NEW p \in Levels, Moved(i, p), NEW k \in Keys
  PROVE  NewRun(i, Content(i - 1), p)[k] =
           IF Moved(i, p + 1) THEN Version(p - 1, k)
           ELSE Merged(Version(p, k), Version(p - 1, k))
<1> DEFINE src == Content(i - 1)
<1>1. i \in Nat /\ p \in Nat /\ i <= p /\ 1 <= p /\ p <= MAX_LEVELS /\ MAX_LEVELS \in Nat
  BY ParametersAssumption DEF Levels, Moved, Rewritten
<1>2. /\ Child(i, src, p) = Content(p - 1)
      /\ Content(p - 1) \in Run
      /\ Version(p - 1, k) = Content(p - 1)[k]
  BY <1>1, ChildContent, ContentShape
<1>3. /\ Level(p) \in Run
      /\ Version(p, k) = Level(p)[k]
      /\ Size(Level(p)) = curr_size[p]
  BY LevelShape
<1>4. CASE Moved(i, p + 1)
  <2>1. (p + 1) - 1 = p
    BY <1>1
  <2>2. Overflows(i, src, p)
    BY <1>1, <1>4, <2>1, CascadeIsContiguous DEF Moved
  <2>3. Remaining(i, src, p) = Empty
    BY <2>2 DEF Remaining
  <2> QED
    BY <1>2, <1>4, <2>3, MergeIntoEmpty DEF NewRun
<1>5. CASE ~ Moved(i, p + 1)
  <2>1. Remaining(i, src, p) = Level(p)
    <3>1. CASE ~ Overflows(i, src, p)
      BY <3>1 DEF Remaining
    <3>2. CASE Overflows(i, src, p)
      <4>1. p # MAX_LEVELS
        BY <3>2 DEF Moved, Merge, Fails
      <4>2. p + 1 \in Levels /\ p + 1 # i /\ p + 1 >= i /\ (p + 1) - 1 = p
        BY <1>1, <4>1 DEF Levels
      <4>3. Child(i, src, p + 1) = Level(p)
        BY <4>2 DEF Child
      <4>4. \A m \in i .. p : Overflows(i, src, m)
        <5>1. \A m \in i .. p : m = p \/ m \in i .. (p - 1)
          BY <1>1
        <5> QED
          BY <5>1, <3>2 DEF Moved, Rewritten
      <4>5. \A m \in i .. (p + 1) : m = p + 1 \/ m \in i .. p
        BY <1>1
      <4>6. ~ (Size(Level(p)) > 0)
        BY <1>5, <4>2, <4>3, <4>4, <4>5 DEF Moved, Rewritten
      <4>7. Size(Level(p)) = 0
        BY <4>6, SizeType
      <4> QED
        BY <1>3, <3>2, <4>7, SizeZero DEF Remaining
    <3> QED
      BY <3>1, <3>2
  <2> QED
    BY <1>2, <1>3, <1>5, <2>1 DEF NewRun, MergeRuns, Merged
<1> QED
  BY <1>4, <1>5

(* The versions of k after a merge, position by position, given that the   *)
(* command empties the buffer of k when it is the buffer that is merged,   *)
(* and leaves it alone when it is not.                                     *)
LEMMA VersionAfter ==
  ASSUME Shape, NEW i \in Levels, Merge(i, Content(i - 1)), NEW k \in Keys,
         IF i = 1 THEN buffer'[k] = None ELSE buffer' = buffer,
         NEW p \in 0 .. MAX_LEVELS
  PROVE  Version(p, k)' = IF Moved(i, p)
                          THEN IF Moved(i, p + 1) THEN Version(p - 1, k)
                               ELSE Merged(Version(p, k), Version(p - 1, k))
                          ELSE IF p = i - 1 /\ Moved(i, i) THEN None
                          ELSE Version(p, k)
<1> DEFINE src == Content(i - 1)
<1>1. i \in Nat /\ 1 <= i
  BY DEF Levels
<1>2. CASE p = 0
  <2>1. ~ Moved(i, p) /\ Version(p, k)' = buffer'[k]
    BY <1>2 DEF Moved, Levels, Version
  <2>2. CASE i = 1 /\ ~ Moved(i, i)
    <3>1. src = buffer /\ Child(i, src, i) = buffer
      BY <2>2 DEF Content, Child
    <3>2. i >= i /\ (\A m \in i .. i : m = i) /\ i .. (i - 1) = {}
      BY <1>1
    <3>3. ~ (Size(buffer) > 0)
      BY <2>2, <3>1, <3>2 DEF Moved, Rewritten
    <3>4. Size(buffer) = 0 /\ buffer \in Run
      BY <3>3, SizeType DEF Shape, TypeOK
    <3>5. buffer[k] = None
      BY <3>4, SizeZero DEF Empty
    <3> QED
      BY <1>2, <2>1, <2>2, <3>5 DEF Version
  <2>3. CASE i = 1 /\ Moved(i, i)
    BY <1>2, <2>1, <2>3
  <2>4. CASE i # 1
    <3>1. i - 1 # 0
      BY <1>1, <2>4
    <3> QED
      BY <1>2, <2>1, <2>4, <3>1 DEF Version
  <2> QED
    BY <2>2, <2>3, <2>4
<1>3. CASE p # 0
  <2>1. p \in Levels
    BY <1>3, ParametersAssumption DEF Levels
  <2>2. Version(p, k)' = IF k \in filter'[p] \cap fences'[p] THEN Prefix(file'[p], curr_size'[p])[k] ELSE None
    BY <1>3 DEF Version, Level
  <2>3. /\ file'[p] \in Run
        /\ filter'[p] = KeysOf(Prefix(file'[p], curr_size'[p]))
        /\ fences'[p] = KeysOf(Prefix(file'[p], curr_size'[p]))
    BY <2>1, MergeShape DEF IndexMatches, Level
  <2>4. Version(p, k)' = Prefix(file'[p], curr_size'[p])[k]
    BY <2>2, <2>3 DEF KeysOf
  <2>5. /\ file'[p] = IF Rewritten(i, src, p) THEN NewRun(i, src, p) ELSE file[p]
        /\ curr_size'[p] = SizeAfter(i, src, p)
    BY <2>1 DEF Merge
  <2>6. CASE Moved(i, p)
    <3>1. Rewritten(i, src, p) /\ NewRun(i, src, p) \in Run
      BY <2>1, <2>6, MergeFits DEF Moved
    <3>2. Version(p, k)' = NewRun(i, src, p)[k]
      BY <2>4, <2>5, <3>1, PrefixAll DEF SizeAfter
    <3> QED
      BY <2>1, <2>6, <3>2, NewRunValue
  <2>7. CASE ~ Moved(i, p) /\ p = i - 1 /\ Moved(i, i)
    <3>1. Drained(i, src, p) /\ ~ Rewritten(i, src, p)
      BY <2>1, <2>7 DEF Drained, Moved
    <3>2. Version(p, k)' = None
      BY <2>1, <2>3, <2>4, <2>5, <3>1, PrefixNone DEF SizeAfter, Empty
    <3> QED
      BY <2>7, <3>2
  <2>8. CASE ~ Moved(i, p) /\ ~ (p = i - 1 /\ Moved(i, i))
    <3>1. ~ Drained(i, src, p) /\ ~ Rewritten(i, src, p)
      BY <2>1, <2>8 DEF Drained, Moved
    <3>2. Version(p, k)' = Prefix(file[p], curr_size[p])[k]
      BY <2>4, <2>5, <3>1 DEF SizeAfter
    <3>3. Version(p, k) = Level(p)[k]
      BY <2>1, LevelShape
    <3> QED
      BY <2>8, <3>2, <3>3 DEF Level
  <2> QED
    BY <2>6, <2>7, <2>8
<1> QED
  BY <1>2, <1>3

(* The newest version of a key goes one level down, to be merged there, or *)
(* stays where it is.                                                      *)
LEMMA NewestMoves ==
  ASSUME Shape, NEW i \in Levels, Merge(i, Content(i - 1)), NEW k \in Keys,
         IF i = 1 THEN buffer'[k] = None ELSE buffer' = buffer,
         NEW h \in 0 .. MAX_LEVELS, Newest(h, k)
  PROVE  \/ /\ Moved(i, h + 1) /\ i <= h + 1
            /\ \A j \in 0 .. h : Version(j, k)' = None
            /\ Version(h + 1, k)' = IF Moved(i, h + 2) THEN Version(h, k)
                                    ELSE Merged(Version(h + 1, k), Version(h, k))
         \/ /\ ~ Moved(i, h + 1)
            /\ Newest(h, k)' /\ Version(h, k)' = Version(h, k)
<1>1. i \in Nat /\ 1 <= i /\ i <= MAX_LEVELS /\ MAX_LEVELS \in Nat /\ h \in Nat /\ h <= MAX_LEVELS
  BY ParametersAssumption DEF Levels
<1>2. \A p \in 0 .. MAX_LEVELS : Moved(i, p) => i <= p /\ 1 <= p
  BY <1>1 DEF Moved, Rewritten, Levels
<1>3. \A p \in 0 .. MAX_LEVELS : Moved(i, p) /\ i < p => Moved(i, p - 1)
  BY <1>1, CascadeIsContiguous DEF Moved, Levels
<1>4. /\ Version(h, k) # None
      /\ \A j \in 0 .. (h - 1) : Version(j, k) = None
  BY DEF Newest
<1>5. CASE h + 1 \in 0 .. MAX_LEVELS /\ Moved(i, h + 1)
  <2>1. (h + 1) - 1 = h /\ (h + 1) + 1 = h + 2 /\ i <= h + 1
    BY <1>1, <1>2, <1>5
  <2>2. Version(h + 1, k)' = IF Moved(i, h + 2) THEN Version(h, k)
                             ELSE Merged(Version(h + 1, k), Version(h, k))
    BY <1>5, <2>1, VersionAfter
  <2>3. ASSUME NEW j \in 0 .. h
        PROVE  Version(j, k)' = None
    <3>1. j \in 0 .. MAX_LEVELS
      BY <1>1
    <3>2. CASE Moved(i, j)
      <4>1. j <= h /\ i <= j /\ j - 1 \in 0 .. (h - 1)
        BY <1>1, <1>2, <3>1, <3>2
      <4>2. Version(j - 1, k) = None
        BY <1>4, <4>1
      <4>3. j = h \/ j \in 0 .. (h - 1)
        BY <1>1
      <4>4. CASE j = h
        BY <1>5, <3>1, <3>2, <4>2, <4>4, VersionAfter
      <4>5. CASE j \in 0 .. (h - 1)
        BY <1>4, <3>1, <3>2, <4>2, <4>5, VersionAfter DEF Merged
      <4> QED
        BY <4>3, <4>4, <4>5
    <3>3. CASE ~ Moved(i, j) /\ j = i - 1
      <4>1. Moved(i, i)
        <5>1. CASE i = h + 1
          BY <1>5, <5>1
        <5>2. CASE i # h + 1
          <6>1. j # h
            BY <1>1, <3>3, <5>2
          <6>2. j \in 0 .. (h - 1)
            BY <1>1, <6>1
          <6>3. i \in Levels /\ i <= h + 1 /\ h + 1 \in Levels
            BY <2>1, <1>5 DEF Moved
          <6>4. Rewritten(i, Content(i - 1), i)
            <7>1. /\ \A m \in i .. (h + 1) : Size(Child(i, Content(i - 1), m)) > 0
                  /\ i \in i .. (h + 1) /\ i >= i /\ i .. (i - 1) = {} /\ \A m \in i .. i : m = i
              BY <1>1, <1>5, <6>3 DEF Moved, Rewritten
            <7> QED
              BY <7>1 DEF Rewritten
          <6> QED
            BY <6>3, <6>4 DEF Moved
        <5> QED
          BY <5>1, <5>2
      <4> QED
        BY <3>1, <3>3, <4>1, VersionAfter
    <3>4. CASE ~ Moved(i, j) /\ j # i - 1
      <4>1. j # h
        <5>1. CASE i = h + 1
          BY <1>1, <3>4, <5>1
        <5>2. CASE i # h + 1
          <6>1. i < h + 1
            BY <1>1, <2>1, <5>2
          <6> QED
            BY <1>3, <1>5, <2>1, <3>4, <6>1
        <5> QED
          BY <5>1, <5>2
      <4>2. j \in 0 .. (h - 1)
        BY <1>1, <4>1
      <4> QED
        BY <1>4, <3>1, <3>4, <4>2, VersionAfter
    <3> QED
      BY <3>2, <3>3, <3>4
  <2> QED
    BY <1>5, <2>1, <2>2, <2>3
<1>6. CASE ~ (h + 1 \in 0 .. MAX_LEVELS /\ Moved(i, h + 1))
  <2>1. ~ Moved(i, h + 1)
    BY <1>1, <1>6 DEF Moved, Levels
  <2>2. ~ (h = i - 1 /\ Moved(i, i))
    BY <1>1, <2>1
  <2>3. h # 0 => h - 1 \in 0 .. (h - 1)
    BY <1>1
  <2>4. Version(h, k)' = Version(h, k)
    <3>1. CASE Moved(i, h)
      <4>1. Version(h - 1, k) = None
        BY <1>2, <1>4, <2>3, <3>1
      <4> QED
        BY <2>1, <3>1, <4>1, VersionAfter DEF Merged
    <3>2. CASE ~ Moved(i, h)
      BY <2>2, <3>2, VersionAfter
    <3> QED
      BY <3>1, <3>2
  <2>5. ASSUME NEW j \in 0 .. (h - 1)
        PROVE  Version(j, k)' = None
    <3>1. j \in 0 .. MAX_LEVELS /\ Version(j, k) = None
      BY <1>1, <1>4
    <3>2. CASE Moved(i, j)
      <4>1. j - 1 \in 0 .. (h - 1)
        BY <1>1, <1>2, <3>1, <3>2
      <4> QED
        BY <1>4, <3>1, <3>2, <4>1, VersionAfter DEF Merged
    <3>3. CASE ~ Moved(i, j)
      BY <3>1, <3>3, VersionAfter
    <3> QED
      BY <3>2, <3>3
  <2>6. Newest(h, k)'
    BY <1>4, <2>4, <2>5 DEF Newest
  <2> QED
    BY <2>1, <2>4, <2>6
<1> QED
  BY <1>5, <1>6

(* Unless it is a tombstone, it stays the newest version of its key.       *)
LEMMA NewestKept ==
  ASSUME Shape, NEW i \in Levels, Merge(i, Content(i - 1)), NEW k \in Keys,
         IF i = 1 THEN buffer'[k] = None ELSE buffer' = buffer,
         NEW h \in 0 .. MAX_LEVELS, Newest(h, k), Version(h, k) # DELETED_FLAG
  PROVE  \E g \in 0 .. MAX_LEVELS : Newest(g, k)' /\ Version(g, k)' = Version(h, k)
<1>1. Version(h, k) # None
  BY DEF Newest
<1>2. CASE Moved(i, h + 1)
  <2>1. h + 1 \in 0 .. MAX_LEVELS /\ 0 .. ((h + 1) - 1) = 0 .. h
    BY <1>2, ParametersAssumption DEF Moved, Levels
  <2>2. Version(h + 1, k)' = Version(h, k) /\ \A j \in 0 .. h : Version(j, k)' = None
    BY <1>1, <1>2, NewestMoves DEF Merged
  <2>3. Newest(h + 1, k)'
    BY <1>1, <2>1, <2>2 DEF Newest
  <2> QED
    BY <2>1, <2>2, <2>3
<1>3. CASE ~ Moved(i, h + 1)
  BY <1>3, NewestMoves
<1> QED
  BY <1>2, <1>3

-----------------------------------------------------------------------------
(* The shape is an invariant.                                              *)

LEMMA InitShape == Init => Shape
<1> SUFFICES ASSUME Init PROVE Shape
  OBVIOUS
<1>1. \A i \in Levels : Level(i) = Empty
  BY PrefixNone, EmptyRun DEF Init, Level
<1>2. \A i \in Levels : 0 <= Capacity[i]
  BY CapacityAssumption
<1>3. store \in [Keys -> Vals \cup {None}]
  BY DEF Init
<1>4. 0 <= BUFFER_CAPACITY
  BY ParametersAssumption
<1> QED
  BY <1>1, <1>2, <1>3, <1>4, EmptyRun
  DEF Init, Shape, TypeOK, WholeFiles, SizeWithinCapacity, OnRecord, IndexMatches

(* What a command writes into the buffer fits.                             *)
LEMMA InsertShape ==
  ASSUME Shape, NEW k \in Keys, NEW v \in Stored, Insert(k, v),
         store' \in [Keys -> Vals \cup {None}], UNCHANGED status
  PROVE  Shape'
<1>1. buffer \in Run /\ Size(buffer) \in Nat /\ Size(buffer) <= BUFFER_CAPACITY
  BY SizeType DEF Shape, TypeOK
<1>2. BUFFER_CAPACITY \in Nat /\ 1 <= BUFFER_CAPACITY
  BY ParametersAssumption
<1>3. CASE /\ k \in KeysOf(buffer) \/ Size(buffer) < BUFFER_CAPACITY
           /\ buffer' = [buffer EXCEPT ![k] = v]
           /\ UNCHANGED disk
  <2>1. /\ buffer' \in Run
        /\ Size(buffer') = IF k \in KeysOf(buffer) THEN Size(buffer) ELSE Size(buffer) + 1
    <3>1. buffer' = [buffer EXCEPT ![k] = v]
      BY <1>3
    <3> QED
      BY ONLY <1>1, <3>1, WriteSize, k \in Keys, v \in Stored
  <2>3. Size(buffer') <= BUFFER_CAPACITY
    BY <1>1, <1>2, <1>3, <2>1
  <2>2. Size(buffer)' = Size(buffer')
    BY DEF Size, KeysOf
  <2> QED
    BY <1>3, <2>1, <2>2, <2>3
    DEF disk, Shape, TypeOK, WholeFiles, SizeWithinCapacity, OnRecord,
        IndexMatches, Level
<1>4. CASE /\ Merge(1, buffer)
           /\ buffer' = [Empty EXCEPT ![k] = v]
  <2>1. buffer' \in Run /\ Size(buffer') = 0 + 1
    <3>1. buffer' = [Empty EXCEPT ![k] = v]
      BY <1>4
    <3> QED
      BY ONLY <3>1, EmptyRun, WriteSize, k \in Keys, v \in Stored
  <2>2. 1 \in Levels /\ Content(1 - 1) = buffer
    BY ParametersAssumption DEF Levels, Content
  <2> QED
    BY <1>2, <1>4, <2>1, <2>2, MergeShape DEF Shape, TypeOK, Size, KeysOf
<1> QED
  BY <1>3, <1>4 DEF Insert

LEMMA NextShape == Shape /\ [Next]_vars => Shape'
<1> SUFFICES ASSUME Shape, [Next]_vars PROVE Shape'
  OBVIOUS
<1> USE DEF Shape
<1>1. 1 \in Levels /\ Content(1 - 1) = buffer
  BY ParametersAssumption DEF Levels, Content
<1>2. 0 <= BUFFER_CAPACITY /\ Size(Empty) = 0 /\ Empty \in Run
  BY ParametersAssumption, EmptyRun
<1>3. ASSUME NEW k \in Keys, NEW v \in Vals, Put(k, v)
      PROVE  Shape'
  <2>1. store' \in [Keys -> Vals \cup {None}]
    BY <1>3 DEF Put, TypeOK
  <2> QED
    BY <1>3, <2>1, InsertShape DEF Put, Stored
<1>4. ASSUME NEW k \in DeletableKeys, Delete(k)
      PROVE  Shape'
  <2>1. k \in Keys /\ DELETED_FLAG \in Stored
    BY ParametersAssumption DEF Stored
  <2>2. store' \in [Keys -> Vals \cup {None}]
    BY <1>4, <2>1 DEF Delete, TypeOK
  <2>3. Insert(k, DELETED_FLAG)
    BY <1>4 DEF Delete, Insert
  <2> QED
    BY <1>4, <2>1, <2>2, <2>3, InsertShape DEF Delete
<1>5. ASSUME Merge(1, buffer), buffer' = Empty, status' \in {"running", "stopped"},
             UNCHANGED store
      PROVE  Shape'
  BY <1>1, <1>2, <1>5, MergeShape DEF TypeOK, Size, KeysOf
<1>6. ASSUME NEW i \in 1 .. (MAX_LEVELS - 1), MergeLevel(i)
      PROVE  Shape'
  <2>1. i + 1 \in Levels /\ Content((i + 1) - 1) = Level(i)
    BY ParametersAssumption DEF Levels, Content
  <2> QED
    BY <1>6, <2>1, MergeShape DEF MergeLevel, TypeOK, Size, KeysOf
<1>7. ASSUME UNCHANGED <<buffer, disk, store>>, status' \in {"running", "stopped", "full"}
      PROVE  Shape'
  BY <1>7 DEF disk, TypeOK, WholeFiles, SizeWithinCapacity, OnRecord,
              IndexMatches, Level, Size, KeysOf
<1>8. CASE Startup
  <2>1. PICK n \in {0, meta[MAX_LEVELS]} : meta' = [meta EXCEPT ![MAX_LEVELS] = n]
    BY <1>8 DEF Startup
  <2>2. MAX_LEVELS \in Levels
    BY ParametersAssumption DEF Levels
  <2>3. /\ meta' \in [Levels -> Nat]
        /\ curr_size' = meta' /\ file' = file /\ buffer' = Empty
        /\ \A i \in Levels : meta'[i] \in {0, meta[i]}
    BY <1>8, <2>1, <2>2 DEF Startup, TypeOK
  <2>4. \A i \in Levels : curr_size'[i] \in {0, Size(file[i])} /\ curr_size'[i] <= Capacity[i]
    BY <2>3, CapacityAssumption DEF TypeOK, WholeFiles, SizeWithinCapacity, OnRecord
  <2>5. /\ filter' = [i \in Levels |-> KeysOf(Prefix(file[i], meta'[i]))]
        /\ fences' = filter'
    BY <1>8 DEF Startup
  <2>6. \A k \in Keys : get(k)' \in Vals \cup {None}
    <3>1. ASSUME NEW k \in Keys, NEW i \in 0 .. MAX_LEVELS
          PROVE  Version(i, k)' \in Stored \cup {None}
      <4>1. CASE i = 0
        BY <2>3, <4>1 DEF Version, Empty
      <4>2. CASE i # 0
        <5>1. i \in Levels
          BY <4>2, ParametersAssumption DEF Levels
        <5>2. Prefix(file'[i], curr_size'[i]) \in Run
          BY <2>3, <5>1, PrefixType DEF TypeOK
        <5> QED
          BY <4>2, <5>2 DEF Version, Level, Run
      <4> QED
        BY <4>1, <4>2
    <3> QED
      BY <3>1 DEF get, Visible, Stored
  <2>7. store' \in [Keys -> Vals \cup {None}]
    BY <1>8, <2>6 DEF Startup, TypeOK
  <2>8. /\ status' = "running"
        /\ filter' \in [Levels -> SUBSET Keys] /\ fences' \in [Levels -> SUBSET Keys]
    BY <1>8, <2>5 DEF Startup, KeysOf
  <2>9. TypeOK'
    BY <1>2, <2>3, <2>7, <2>8 DEF TypeOK, Size, KeysOf
  <2>10. WholeFiles' /\ SizeWithinCapacity' /\ OnRecord'
    BY <2>3, <2>4 DEF WholeFiles, SizeWithinCapacity, OnRecord, Size, KeysOf
  <2>11. IndexMatches'
    BY <2>3, <2>5 DEF IndexMatches, Level
  <2> QED
    BY <2>9, <2>10, <2>11
<1>9. CASE UNCHANGED vars
  BY <1>7, <1>9 DEF vars, disk, TypeOK
<1> QED
  BY <1>3, <1>4, <1>5, <1>6, <1>7, <1>8, <1>9
  DEF Next, Command, Flush, Shutdown, Kill, DatabaseFull

(* Types, room, metadata and index are right in every reachable state.     *)
THEOREM ShapeCorrect == Spec => []Shape
<1> QED
  BY InitShape, NextShape, PTL DEF Spec

THEOREM TypeCorrect == Spec => []TypeOK
<1>1. Shape => TypeOK
  BY DEF Shape
<1> QED
  BY <1>1, ShapeCorrect, PTL

(* No level is ever asked to hold more than it was created for.            *)
THEOREM SizeCorrect == Spec => []SizeWithinCapacity
<1>1. Shape => SizeWithinCapacity
  BY DEF Shape
<1> QED
  BY <1>1, ShapeCorrect, PTL

(* Filters and fence pointers are never stale.                             *)
THEOREM IndexCorrect == Spec => []IndexMatches
<1>1. Shape => IndexMatches
  BY DEF Shape
<1> QED
  BY <1>1, ShapeCorrect, PTL

-----------------------------------------------------------------------------
(* Live keys are read.                                                     *)

LEMMA NewestIsUnique ==
  ASSUME NEW k, NEW i \in 0 .. MAX_LEVELS, NEW j \in 0 .. MAX_LEVELS,
         Newest(i, k), Newest(j, k)
  PROVE  i = j
<1>1. i \in Int /\ j \in Int /\ 0 <= i /\ 0 <= j
  BY ParametersAssumption
<1>2. ~ (i < j) /\ ~ (j < i)
  BY <1>1 DEF Newest
<1> QED
  BY <1>1, <1>2

(* A search stops at the newest version.                                   *)
LEMMA GetNewest ==
  ASSUME NEW k, NEW h \in 0 .. MAX_LEVELS, Newest(h, k)
  PROVE  get(k) = Visible(Version(h, k))
<1> DEFINE c == CHOOSE i \in 0 .. MAX_LEVELS : Newest(i, k)
<1>1. c \in 0 .. MAX_LEVELS /\ Newest(c, k)
  OBVIOUS
<1>2. c = h
  BY <1>1, NewestIsUnique
<1> QED
  BY <1>2 DEF get

LEMMA LiveNewestSuffices == Shape /\ LiveNewest => LiveKeysRead
<1> SUFFICES ASSUME Shape, LiveNewest, NEW k \in Keys, store[k] # None
             PROVE  get(k) = store[k]
  BY DEF LiveKeysRead
<1>1. PICK h \in 0 .. MAX_LEVELS : Newest(h, k) /\ Version(h, k) = store[k]
  BY DEF LiveNewest
<1>2. store[k] # DELETED_FLAG
  BY ValuesAssumption DEF Shape, TypeOK
<1> QED
  BY <1>1, <1>2, GetNewest DEF Visible

(* A step that leaves the levels, and k in the buffer, alone.              *)
LEMMA VersionSame ==
  ASSUME UNCHANGED disk, NEW k, buffer'[k] = buffer[k]
  PROVE  \A i \in 0 .. MAX_LEVELS : /\ Version(i, k)' = Version(i, k)
                                    /\ Newest(i, k)' = Newest(i, k)
<1>1. \A i : Version(i, k)' = Version(i, k)
  BY DEF disk, Version, Level
<1> QED
  BY <1>1 DEF Newest

(* A merge keeps the live keys that the command does not write.            *)
LEMMA LiveMerged ==
  ASSUME Shape, LiveNewest, NEW i \in Levels, Merge(i, Content(i - 1)),
         NEW k \in Keys, IF i = 1 THEN buffer'[k] = None ELSE buffer' = buffer,
         store'[k] = store[k], store[k] # None
  PROVE  \E g \in 0 .. MAX_LEVELS : Newest(g, k)' /\ Version(g, k)' = store'[k]
<1>1. PICK h \in 0 .. MAX_LEVELS : Newest(h, k) /\ Version(h, k) = store[k]
  BY DEF LiveNewest
<1>2. store[k] # DELETED_FLAG
  BY ValuesAssumption DEF Shape, TypeOK
<1> QED
  BY <1>1, <1>2, NewestKept

(* What is in the buffer is the newest version.                            *)
LEMMA BufferIsNewest ==
  ASSUME NEW k, buffer'[k] # None
  PROVE  Newest(0, k)' /\ Version(0, k)' = buffer'[k]
BY DEF Newest, Version

LEMMA LiveInserted ==
  ASSUME Shape, LiveNewest, NEW k \in Keys, NEW v \in Stored, Insert(k, v),
         NEW l \in Keys, l # k, store'[l] = store[l], store[l] # None
  PROVE  \E g \in 0 .. MAX_LEVELS : Newest(g, l)' /\ Version(g, l)' = store'[l]
<1>1. 1 \in Levels /\ Content(1 - 1) = buffer
  BY ParametersAssumption DEF Levels, Content
<1>2. CASE buffer' = [buffer EXCEPT ![k] = v] /\ UNCHANGED disk
  <2>1. buffer'[l] = buffer[l]
    BY <1>2 DEF Shape, TypeOK, Run
  <2>2. PICK h \in 0 .. MAX_LEVELS : Newest(h, l) /\ Version(h, l) = store[l]
    BY DEF LiveNewest
  <2> QED
    BY <1>2, <2>1, <2>2, VersionSame
<1>3. CASE Merge(1, buffer) /\ buffer' = [Empty EXCEPT ![k] = v]
  <2>1. buffer'[l] = None
    BY <1>3 DEF Empty
  <2> QED
    BY <1>1, <1>3, <2>1, LiveMerged
<1> QED
  BY <1>2, <1>3 DEF Insert

(* A restart finds the newest version of a durable key where it was.       *)
LEMMA DurableStays ==
  ASSUME Shape, Startup, NEW k \in Keys, Durable(k)
  PROVE  \E h \in 1 .. (MAX_LEVELS - 1) : /\ Newest(h, k)
                                         /\ Newest(h, k)'
                                         /\ Version(h, k)' = Version(h, k)
<1>1. PICK h \in 1 .. (MAX_LEVELS - 1) : Newest(h, k)
  BY DEF Durable
<1>2. ASSUME NEW j \in 1 .. (MAX_LEVELS - 1)
      PROVE  Version(j, k)' = Version(j, k)
  <2>1. j \in Levels /\ j # MAX_LEVELS /\ j # 0
    BY ParametersAssumption DEF Levels
  <2>2. meta'[j] = meta[j] /\ curr_size'[j] = meta'[j] /\ file' = file
    BY <2>1 DEF Startup, Shape, TypeOK
  <2>3. /\ filter'[j] = KeysOf(Prefix(file[j], meta'[j]))
        /\ fences'[j] = KeysOf(Prefix(file[j], meta'[j]))
    BY <2>1 DEF Startup
  <2>4. /\ curr_size'[j] = curr_size[j]
        /\ filter'[j] = filter[j] /\ fences'[j] = fences[j]
    BY <2>1, <2>2, <2>3 DEF Shape, OnRecord, IndexMatches, Level
  <2> QED
    BY <2>2, <2>4 DEF Version, Level
<1>3. Version(0, k)' = None
  BY DEF Startup, Version, Empty
<1>4. Version(h, k)' = Version(h, k)
  BY <1>1, <1>2
<1>5. \A j \in 0 .. (h - 1) : j = 0 \/ j \in 1 .. (MAX_LEVELS - 1)
  BY <1>1, ParametersAssumption
<1>6. \A j \in 0 .. (h - 1) : Version(j, k)' = None
  BY <1>1, <1>2, <1>3, <1>5 DEF Newest
<1> QED
  BY <1>1, <1>4, <1>6 DEF Newest

LEMMA NextLive == IInv /\ [Next]_vars => LiveNewest'
<1> SUFFICES ASSUME Shape, LiveNewest, [Next]_vars,
                    NEW l \in Keys, store'[l] # None
             PROVE  \E g \in 0 .. MAX_LEVELS : Newest(g, l)' /\ Version(g, l)' = store'[l]
  BY DEF IInv, LiveNewest
<1>1. 1 \in Levels /\ Content(1 - 1) = buffer /\ 0 \in 0 .. MAX_LEVELS
  BY ParametersAssumption DEF Levels, Content
<1>2. store \in [Keys -> Vals \cup {None}]
  BY DEF Shape, TypeOK
<1>3. ASSUME NEW k \in Keys, NEW v \in Vals, Put(k, v)
      PROVE  \E g \in 0 .. MAX_LEVELS : Newest(g, l)' /\ Version(g, l)' = store'[l]
  <2>1. store' = [store EXCEPT ![k] = v] /\ Insert(k, v) /\ v \in Stored /\ v # None
    BY <1>3, ValuesAssumption DEF Put, Stored
  <2>2. CASE l = k
    <3>1. buffer'[k] = v /\ store'[k] = v
      BY <2>1, <1>2 DEF Insert, Shape, TypeOK, Run, Empty
    <3> QED
      BY <1>1, <2>1, <2>2, <3>1, BufferIsNewest
  <2>3. CASE l # k
    BY <2>1, <2>3, <1>2, LiveInserted
  <2> QED
    BY <2>2, <2>3
<1>4. ASSUME NEW k \in DeletableKeys, Delete(k)
      PROVE  \E g \in 0 .. MAX_LEVELS : Newest(g, l)' /\ Version(g, l)' = store'[l]
  <2>1. /\ k \in Keys /\ DELETED_FLAG \in Stored
        /\ store' = [store EXCEPT ![k] = None] /\ Insert(k, DELETED_FLAG)
    BY <1>4, ParametersAssumption DEF Delete, Insert, Stored
  <2>2. l # k /\ store'[l] = store[l]
    BY <2>1, <1>2
  <2> QED
    BY <2>1, <2>2, LiveInserted
<1>5. ASSUME Merge(1, buffer), buffer' = Empty, UNCHANGED store
      PROVE  \E g \in 0 .. MAX_LEVELS : Newest(g, l)' /\ Version(g, l)' = store'[l]
  BY <1>1, <1>5, LiveMerged DEF Empty
<1>6. ASSUME NEW i \in 1 .. (MAX_LEVELS - 1), MergeLevel(i)
      PROVE  \E g \in 0 .. MAX_LEVELS : Newest(g, l)' /\ Version(g, l)' = store'[l]
  <2>1. i + 1 \in Levels /\ i + 1 # 1 /\ Content((i + 1) - 1) = Level(i)
    BY ParametersAssumption DEF Levels, Content
  <2> QED
    BY <1>6, <2>1, LiveMerged DEF MergeLevel
<1>7. ASSUME UNCHANGED <<buffer, disk, store>>
      PROVE  \E g \in 0 .. MAX_LEVELS : Newest(g, l)' /\ Version(g, l)' = store'[l]
  BY <1>7, VersionSame DEF LiveNewest
<1>8. CASE Startup
  <2>1. store'[l] = IF Durable(l) THEN store[l] ELSE get(l)'
    BY <1>8 DEF Startup
  <2>2. CASE Durable(l)
    <3>1. PICK h \in 1 .. (MAX_LEVELS - 1) : /\ Newest(h, l)
                                             /\ Newest(h, l)'
                                             /\ Version(h, l)' = Version(h, l)
      BY <1>8, <2>2, DurableStays
    <3>2. PICK i \in 0 .. MAX_LEVELS : Newest(i, l) /\ Version(i, l) = store[l]
      BY <2>1, <2>2 DEF LiveNewest
    <3>3. h \in 0 .. MAX_LEVELS /\ h = i
      BY <3>1, <3>2, ParametersAssumption, NewestIsUnique
    <3> QED
      BY <2>1, <2>2, <3>1, <3>2, <3>3
  <2>3. CASE ~ Durable(l)
    <3>1. get(l)' # None /\ store'[l] = get(l)'
      BY <2>1, <2>3
    <3>2. \E i \in 0 .. MAX_LEVELS : Newest(i, l)'
      BY <3>1 DEF get
    <3>3. PICK h \in 0 .. MAX_LEVELS : Newest(h, l)' /\ get(l)' = Visible(Version(h, l)')
      BY <3>2 DEF get, Visible
    <3> QED
      BY <3>1, <3>3 DEF Visible
  <2> QED
    BY <2>2, <2>3
<1>9. CASE UNCHANGED vars
  BY <1>7, <1>9 DEF vars, disk
<1> QED
  BY <1>3, <1>4, <1>5, <1>6, <1>7, <1>8, <1>9
  DEF Next, Command, Flush, Shutdown, Kill, DatabaseFull

LEMMA InitLive == Init => LiveNewest
BY DEF Init, LiveNewest

THEOREM InvariantHolds == Spec => []IInv
<1>1. Init => IInv
  BY InitShape, InitLive DEF IInv
<1>2. IInv /\ [Next]_vars => IInv'
  BY NextShape, NextLive DEF IInv
<1> QED
  BY <1>1, <1>2, PTL DEF Spec

(* Every key of the dictionary is read with its value, whatever has been   *)
(* flushed, cascaded, merged by hand, deleted beside it or restarted.      *)
THEOREM LiveKeysCorrect == Spec => []LiveKeysRead
<1>1. IInv => LiveKeysRead
  BY LiveNewestSuffices DEF IInv
<1> QED
  BY <1>1, InvariantHolds, PTL

-----------------------------------------------------------------------------
(* Range scans.                                                            *)

(* A key that has a version has a newest one.                              *)
LEMMA SomeNewest ==
  ASSUME NEW k, NEW j \in 0 .. MAX_LEVELS, Version(j, k) # None
  PROVE  \E i \in 0 .. MAX_LEVELS : Newest(i, k)
<1> DEFINE S == {i \in 0 .. MAX_LEVELS : Version(i, k) # None}
<1>1. S \subseteq Nat /\ S # {}
  OBVIOUS
<1>2. \A i \in S : i \in 0 .. MAX_LEVELS /\ Version(i, k) # None
  OBVIOUS
<1>3. \A i \in 0 .. MAX_LEVELS : Version(i, k) # None => i \in S
  OBVIOUS
<1> HIDE DEF S
<1>4. PICK h \in S : \A m \in S : h <= m
  BY <1>1, LeastElement
<1>5. h \in 0 .. MAX_LEVELS /\ MAX_LEVELS \in Nat
  BY <1>2, ParametersAssumption
<1>6. ASSUME NEW m \in 0 .. (h - 1), Version(m, k) # None
      PROVE  FALSE
  <2>1. m \in 0 .. MAX_LEVELS /\ ~ (h <= m)
    BY <1>5
  <2> QED
    BY <1>3, <1>4, <1>6, <2>1
<1> QED
  BY <1>2, <1>5, <1>6 DEF Newest

(* The positions visited after n levels, those of them that have a version *)
(* of k, and the smallest of these.                                        *)
Visited(order, n) == {0} \cup {order[m] : m \in 1 .. n}
Holding(order, n, k) == {i \in Visited(order, n) : Version(i, k) # None}
Top(order, n, k) == CHOOSE i \in Holding(order, n, k) :
                       \A j \in Holding(order, n, k) : i <= j

(* What found_keys holds then: the entry of the smallest position.         *)
Best(order, start, end, n) ==
  [k \in Keys |-> IF start <= k /\ k < end /\ Holding(order, n, k) # {}
                  THEN [level |-> Top(order, n, k), value |-> Version(Top(order, n, k), k)]
                  ELSE [level |-> 0, value |-> None]]

LEMMA VisitedType ==
  ASSUME NEW order \in Orders, NEW n \in 0 .. (MAX_LEVELS - 1)
  PROVE  /\ Visited(order, n) \subseteq 0 .. (MAX_LEVELS - 1)
         /\ \A k : Holding(order, n, k) \subseteq Nat
<1>1. MAX_LEVELS \in Nat /\ 1 <= MAX_LEVELS
  BY ParametersAssumption
<1>2. \A m \in 1 .. n : order[m] \in 1 .. (MAX_LEVELS - 1)
  BY <1>1 DEF Orders
<1>3. Visited(order, n) \subseteq 0 .. (MAX_LEVELS - 1)
  BY <1>1, <1>2 DEF Visited
<1> QED
  BY <1>1, <1>3 DEF Holding

LEMMA TopLeast ==
  ASSUME NEW order \in Orders, NEW n \in 0 .. (MAX_LEVELS - 1), NEW k,
         Holding(order, n, k) # {}
  PROVE  /\ Top(order, n, k) \in Holding(order, n, k)
         /\ \A j \in Holding(order, n, k) : Top(order, n, k) <= j
<1>1. \E i \in Holding(order, n, k) : \A j \in Holding(order, n, k) : i <= j
  BY VisitedType, LeastElement
<1> QED
  BY <1>1 DEF Top

LEMMA TopIs ==
  ASSUME NEW order \in Orders, NEW n \in 0 .. (MAX_LEVELS - 1), NEW k,
         NEW i \in Holding(order, n, k), \A j \in Holding(order, n, k) : i <= j
  PROVE  Top(order, n, k) = i
<1>1. /\ Top(order, n, k) \in Holding(order, n, k)
      /\ Top(order, n, k) <= i
  BY TopLeast
<1> QED
  BY <1>1, VisitedType

LEMMA BestStart ==
  ASSUME NEW order \in Orders, NEW start, NEW end
  PROVE  InBuffer(start, end) = Best(order, start, end, 0)
<1>1. 0 \in 0 .. (MAX_LEVELS - 1) /\ 1 .. 0 = {}
  BY ParametersAssumption
<1>2. Visited(order, 0) = {0}
  BY <1>1 DEF Visited
<1>3. ASSUME NEW k \in Keys
      PROVE  InBuffer(start, end)[k] = Best(order, start, end, 0)[k]
  <2>1. Version(0, k) = buffer[k]
    BY DEF Version
  <2>2. CASE buffer[k] = None
    BY <1>2, <2>1, <2>2 DEF Holding, InBuffer, Best
  <2>3. CASE buffer[k] # None
    <3>1. Holding(order, 0, k) = {0}
      BY <1>2, <2>1, <2>3 DEF Holding
    <3>2. Top(order, 0, k) = 0
      BY <1>1, <3>1, TopIs
    <3> QED
      BY <2>1, <3>1, <3>2 DEF InBuffer, Best
  <2> QED
    BY <2>2, <2>3
<1> QED
  BY <1>3 DEF InBuffer, Best

(* One more level, by its fence pointers: its entry is kept when the key   *)
(* is new, or known from a larger level only.                              *)
LEMMA BestStep ==
  ASSUME Shape, NEW order \in Orders, NEW start, NEW end,
         NEW n \in 1 .. (MAX_LEVELS - 1)
  PROVE  process_level(Best(order, start, end, n - 1), order[n], start, end)
           = Best(order, start, end, n)
<1> DEFINE i == order[n]
           before == Best(order, start, end, n - 1)
<1>1. /\ MAX_LEVELS \in Nat /\ n \in Nat /\ n - 1 \in 0 .. (MAX_LEVELS - 1)
      /\ n \in 0 .. (MAX_LEVELS - 1)
  BY ParametersAssumption
<1>2. i \in 1 .. (MAX_LEVELS - 1) /\ i \in Levels /\ i \in Nat
  BY <1>1 DEF Orders, Levels
<1>3. Visited(order, n) = Visited(order, n - 1) \cup {i}
  <2>1. \A m : m \in 1 .. n <=> m \in 1 .. (n - 1) \/ m = n
    BY <1>1
  <2> QED
    BY <2>1 DEF Visited
<1>4. ASSUME NEW k \in Keys
      PROVE  process_level(before, i, start, end)[k] = Best(order, start, end, n)[k]
  <2>1. /\ Version(i, k) = Level(i)[k]
        /\ k \in fences[i] <=> Level(i)[k] # None
    BY <1>2, LevelShape DEF Shape, IndexMatches, KeysOf
  <2>2. process_level(before, i, start, end)[k] =
          IF /\ Version(i, k) # None /\ start <= k /\ k < end
             /\ before[k].value = None \/ before[k].level > i
          THEN [level |-> i, value |-> Version(i, k)] ELSE before[k]
    BY <2>1 DEF process_level
  <2>3. CASE ~ (start <= k /\ k < end)
    BY <2>2, <2>3 DEF Best
  <2>4. CASE start <= k /\ k < end /\ Version(i, k) = None
    <3>1. Holding(order, n, k) = Holding(order, n - 1, k)
      BY <1>3, <2>4 DEF Holding
    <3>2. Top(order, n, k) = Top(order, n - 1, k)
      BY <3>1 DEF Top
    <3> QED
      BY <2>2, <2>4, <3>1, <3>2 DEF Best
  <2>5. CASE start <= k /\ k < end /\ Version(i, k) # None
    <3>1. Holding(order, n, k) = Holding(order, n - 1, k) \cup {i}
      BY <1>3, <2>5 DEF Holding
    <3>2. CASE Holding(order, n - 1, k) = {}
      <4>1. before[k].value = None
        BY <3>2 DEF Best
      <4>2. Top(order, n, k) = i
        <5>1. i \in Holding(order, n, k) /\ \A j \in Holding(order, n, k) : i <= j
          BY <1>2, <3>1, <3>2
        <5> QED
          BY <1>1, <5>1, TopIs
      <4> QED
        BY <2>2, <2>5, <3>1, <4>1, <4>2 DEF Best
    <3>3. CASE Holding(order, n - 1, k) # {}
      <4> DEFINE t == Top(order, n - 1, k)
      <4>1. /\ t \in Holding(order, n - 1, k) /\ t \in Nat
            /\ \A j \in Holding(order, n - 1, k) : j \in Nat /\ t <= j
        BY <1>1, <3>3, TopLeast, VisitedType
      <4>2. before[k] = [level |-> t, value |-> Version(t, k)] /\ Version(t, k) # None
        BY <2>5, <3>3, <4>1 DEF Best, Holding
      <4> HIDE DEF t
      <4>3. CASE t > i
        <5>1. \A j \in Holding(order, n, k) : i <= j
          BY <1>2, <3>1, <4>1, <4>3
        <5>2. Top(order, n, k) = i
          BY <1>1, <3>1, <5>1, TopIs
        <5> QED
          BY <2>2, <2>5, <3>1, <4>2, <4>3, <5>2 DEF Best
      <4>4. CASE ~ (t > i)
        <5>1. \A j \in Holding(order, n, k) : t <= j
          BY <1>2, <3>1, <4>1, <4>4
        <5>2. Top(order, n, k) = t
          BY <1>1, <3>1, <4>1, <5>1, TopIs
        <5>3. process_level(before, i, start, end)[k] = before[k]
          BY <2>2, <4>2, <4>4
        <5> QED
          BY <2>5, <3>1, <4>2, <5>2, <5>3 DEF Best
      <4> QED
        BY <4>3, <4>4
    <3> QED
      BY <3>2, <3>3
  <2> QED
    BY <2>3, <2>4, <2>5
<1> QED
  BY <1>4 DEF process_level, Best

(* The recursive definition of found_keys has a solution, and only one.    *)
LEMMA FoundKeysValue ==
  ASSUME Shape, NEW order \in Orders, NEW start, NEW end
  PROVE  found_keys(order, start, end) = Best(order, start, end, MAX_LEVELS - 1)
<1> DEFINE N == MAX_LEVELS - 1
           solution == [n \in 0 .. N |-> Best(order, start, end, n)]
           Step(s) == [n \in 0 .. N |->
                         IF n = 0 THEN InBuffer(start, end)
                         ELSE process_level(s[n - 1], order[n], start, end)]
           visit == CHOOSE s : s = Step(s)
<1>1. N \in Nat
  BY ParametersAssumption
<1>2. ASSUME NEW n \in 0 .. N, n # 0
      PROVE  n \in 1 .. (MAX_LEVELS - 1) /\ n - 1 \in 0 .. N
  BY <1>1, <1>2
<1>3. solution = Step(solution)
  <2>1. ASSUME NEW n \in 0 .. N
        PROVE  Best(order, start, end, n) =
                 IF n = 0 THEN InBuffer(start, end)
                 ELSE process_level(solution[n - 1], order[n], start, end)
    <3>1. CASE n = 0
      BY <3>1, BestStart
    <3>2. CASE n # 0
      <4>1. n \in 1 .. (MAX_LEVELS - 1) /\ solution[n - 1] = Best(order, start, end, n - 1)
        BY <1>2, <3>2
      <4> QED
        BY <3>2, <4>1, BestStep
    <3> QED
      BY <3>1, <3>2
  <2> QED
    BY <2>1
<1>4. found_keys(order, start, end) = visit[N]
  BY DEF found_keys
<1>5. visit = Step(visit)
  BY <1>3
<1>6. \A n \in 0 .. N : visit[n] = IF n = 0 THEN InBuffer(start, end)
                                   ELSE process_level(visit[n - 1], order[n], start, end)
  BY <1>5
<1> DEFINE wrong == {n \in 0 .. N : visit[n] # Best(order, start, end, n)}
<1>7. wrong \subseteq Nat /\ \A n : n \in wrong <=> n \in 0 .. N /\ visit[n] # Best(order, start, end, n)
  BY <1>1
<1> HIDE DEF wrong, Step, visit
<1>8. ASSUME wrong # {} PROVE FALSE
  <2>1. PICK n \in wrong : \A m \in wrong : n <= m
    BY <1>7, <1>8, LeastElement
  <2>2. n \in 0 .. N /\ visit[n] # Best(order, start, end, n)
    BY <1>7
  <2>3. n # 0
    BY <1>6, <2>2, BestStart
  <2>4. n \in 1 .. (MAX_LEVELS - 1) /\ n - 1 \in 0 .. N /\ ~ (n <= n - 1)
    BY <1>1, <1>2, <2>2, <2>3
  <2>5. visit[n - 1] = Best(order, start, end, n - 1)
    BY <1>7, <2>1, <2>4
  <2>6. visit[n] = process_level(visit[n - 1], order[n], start, end)
    BY <1>6, <2>2, <2>3
  <2> QED
    BY <2>2, <2>4, <2>5, <2>6, BestStep
<1>9. N \in 0 .. N
  BY <1>1
<1> QED
  BY <1>4, <1>7, <1>8, <1>9

(* The smallest position of all is the one where a search stops.           *)
LEMMA BestIsNewest ==
  ASSUME NEW order \in Orders, NEW k
  PROVE  /\ Visited(order, MAX_LEVELS - 1) = 0 .. (MAX_LEVELS - 1)
         /\ Holding(order, MAX_LEVELS - 1, k) # {} =>
              /\ Top(order, MAX_LEVELS - 1, k) \in 0 .. (MAX_LEVELS - 1)
              /\ Newest(Top(order, MAX_LEVELS - 1, k), k)
<1> DEFINE N == MAX_LEVELS - 1
           t == Top(order, N, k)
<1>1. N \in Nat /\ N \in 0 .. (MAX_LEVELS - 1)
  BY ParametersAssumption
<1>2. ASSUME NEW i \in 0 .. N PROVE i \in Visited(order, N)
  <2>1. i = 0 \/ i \in 1 .. (MAX_LEVELS - 1)
    BY <1>1
  <2> QED
    BY <2>1 DEF Orders, Visited
<1>3. Visited(order, N) = 0 .. N
  BY <1>1, <1>2, VisitedType
<1>4. ASSUME Holding(order, N, k) # {}
      PROVE  t \in 0 .. N /\ Newest(t, k)
  <2>1. t \in Holding(order, N, k) /\ \A j \in Holding(order, N, k) : t <= j
    BY <1>1, <1>4, TopLeast
  <2>2. t \in 0 .. N /\ Version(t, k) # None
    BY <1>3, <2>1 DEF Holding
  <2> HIDE DEF t
  <2>3. ASSUME NEW j \in 0 .. (t - 1) PROVE Version(j, k) = None
    <3>1. j \in 0 .. N /\ ~ (t <= j)
      BY <1>1, <2>2
    <3> QED
      BY <1>3, <2>1, <3>1 DEF Holding
  <2> QED
    BY <2>2, <2>3 DEF Newest
<1> QED
  BY <1>3, <1>4

LEMMA RangeAnswers ==
  ASSUME Shape
  PROVE  RangeAgreesWithGet
<1> SUFFICES ASSUME NEW order \in Orders, NEW start, NEW end
             PROVE  range(order, start, end) =
                      {<<k, get(k)>> : k \in {k \in Keys : /\ start <= k /\ k < end
                                                          /\ get(k) # None
                                                          /\ ~ Newest(MAX_LEVELS, k)}}
  BY DEF RangeAgreesWithGet
<1> DEFINE N == MAX_LEVELS - 1
           best == Best(order, start, end, N)
           Reported(k) == best[k].value \notin {None, DELETED_FLAG}
           Answered(k) == /\ start <= k /\ k < end
                          /\ get(k) # None /\ ~ Newest(MAX_LEVELS, k)
<1>1. MAX_LEVELS \in Nat /\ 1 <= MAX_LEVELS /\ DELETED_FLAG # None
  BY ParametersAssumption, ValuesAssumption
<1>2. range(order, start, end) = {<<k, best[k].value>> : k \in {k \in Keys : Reported(k)}}
  BY FoundKeysValue DEF range
<1>3. ASSUME NEW k \in Keys
      PROVE  /\ Reported(k) <=> Answered(k)
             /\ Reported(k) => best[k].value = get(k)
  <2>1. CASE start <= k /\ k < end /\ Holding(order, N, k) # {}
    <3> DEFINE t == Top(order, N, k)
    <3>1. t \in 0 .. N /\ Newest(t, k) /\ best[k].value = Version(t, k)
      BY <2>1, BestIsNewest DEF Best
    <3> HIDE DEF t, best
    <3>2. t \in 0 .. MAX_LEVELS /\ MAX_LEVELS \in 0 .. MAX_LEVELS /\ t # MAX_LEVELS
      BY <1>1, <3>1
    <3>3. get(k) = Visible(Version(t, k)) /\ ~ Newest(MAX_LEVELS, k)
      BY <3>1, <3>2, GetNewest, NewestIsUnique
    <3>4. Version(t, k) # None
      BY <3>1 DEF Newest
    <3> QED
      BY <1>1, <2>1, <3>1, <3>3, <3>4 DEF Visible
  <2>2. CASE start <= k /\ k < end /\ Holding(order, N, k) = {}
    <3>1. ~ Reported(k)
      BY <2>2 DEF Best
    <3>2. \A i \in 0 .. N : Version(i, k) = None
      BY <2>2, BestIsNewest DEF Holding
    <3>3. \A i \in 0 .. MAX_LEVELS : i = MAX_LEVELS \/ i \in 0 .. N
      BY <1>1
    <3>4. \A i \in 0 .. MAX_LEVELS : Newest(i, k) => i = MAX_LEVELS
      BY <3>2, <3>3 DEF Newest
    <3>5. get(k) = None \/ Newest(MAX_LEVELS, k)
      BY <3>4 DEF get
    <3> QED
      BY <3>1, <3>5
  <2>3. CASE ~ (start <= k /\ k < end)
    BY <2>3 DEF Best
  <2> QED
    BY <2>1, <2>2, <2>3
<1> HIDE DEF best
<1>4. {k \in Keys : Reported(k)} = {k \in Keys : Answered(k)}
  BY <1>3
<1> QED
  BY <1>2, <1>3, <1>4

(* A range reports of each key what a get answers, but for the last level: *)
(* the fence pointers it reads by lead to the entries that the filters let *)
(* a get find, and the level numbers it compares give the first of them,   *)
(* whatever the order in which the levels are processed.                   *)
THEOREM RangeCorrect == Spec => []RangeAgreesWithGet
<1>1. Shape => RangeAgreesWithGet
  BY RangeAnswers
<1> QED
  BY <1>1, ShapeCorrect, PTL

-----------------------------------------------------------------------------
(* Answers change only by puts and deletes.                                *)

(* The step from the versions of a key to its answer, after a step.        *)
LEMMA GetAfter ==
  ASSUME NEW k
  PROVE  /\ \A h \in 0 .. MAX_LEVELS : Newest(h, k)' => get(k)' = Visible(Version(h, k)')
         /\ (\A h \in 0 .. MAX_LEVELS : Version(h, k)' = None) => get(k)' = None
<1>1. /\ \A h \in 0 .. MAX_LEVELS : Newest(h, k) => get(k) = Visible(Version(h, k))
      /\ (\A h \in 0 .. MAX_LEVELS : Version(h, k) = None) => get(k) = None
  BY GetNewest DEF get, Newest
<1>2. (/\ \A h \in 0 .. MAX_LEVELS : Newest(h, k) => get(k) = Visible(Version(h, k))
       /\ (\A h \in 0 .. MAX_LEVELS : Version(h, k) = None) => get(k) = None)'
  BY <1>1, PTL
<1> QED
  BY <1>2

(* A merge, of a cascade or by itself, changes no answer, but for that of  *)
(* a key whose tombstone it cancels with the second of three versions.     *)
LEMMA MergedAnswer ==
  ASSUME Shape, NEW i \in Levels, Merge(i, Content(i - 1)), NEW k \in Keys,
         IF i = 1 THEN buffer'[k] = None ELSE buffer' = buffer
  PROVE  get(k)' = get(k) \/ Exposed(k)
<1>1. i \in Nat /\ 1 <= i /\ i <= MAX_LEVELS /\ MAX_LEVELS \in Nat
  BY ParametersAssumption DEF Levels
<1>2. CASE \A j \in 0 .. MAX_LEVELS : Version(j, k) = None
  <2>1. get(k) = None
    BY <1>2 DEF get, Newest
  <2>2. ASSUME NEW p \in 0 .. MAX_LEVELS PROVE Version(p, k)' = None
    <3>1. CASE Moved(i, p)
      <4>1. p - 1 \in 0 .. MAX_LEVELS
        BY <1>1, <3>1 DEF Moved, Levels
      <4>2. Version(p - 1, k) = None /\ Version(p, k) = None
        BY <1>2, <4>1
      <4> QED
        BY <3>1, <4>2, VersionAfter DEF Merged
    <3>2. CASE ~ Moved(i, p)
      BY <1>2, <3>2, VersionAfter
    <3> QED
      BY <3>1, <3>2
  <2> QED
    BY <2>1, <2>2, GetAfter
<1>3. ASSUME NEW h \in 0 .. MAX_LEVELS, Newest(h, k), Version(h, k) # DELETED_FLAG
      PROVE  get(k)' = get(k)
  <2>1. PICK g \in 0 .. MAX_LEVELS : Newest(g, k)' /\ Version(g, k)' = Version(h, k)
    BY <1>3, NewestKept
  <2>2. get(k)' = Visible(Version(h, k))
    BY <2>1, GetAfter
  <2> QED
    BY <1>3, <2>2, GetNewest
<1>4. ASSUME NEW h \in 0 .. MAX_LEVELS, Newest(h, k), Version(h, k) = DELETED_FLAG,
             ~ Exposed(k)
      PROVE  get(k)' = get(k)
  <2>1. get(k) = None
    BY <1>4, GetNewest DEF Visible
  <2>2. h \in Nat /\ DELETED_FLAG # None
    BY ValuesAssumption, <1>1
  <2>3. CASE ~ Moved(i, h + 1)
    <3>1. Newest(h, k)' /\ Version(h, k)' = DELETED_FLAG
      BY <1>4, <2>3, NewestMoves
    <3> QED
      BY <2>1, <3>1, GetAfter DEF Visible
  <2>4. CASE Moved(i, h + 1)
    <3>1. /\ i <= h + 1
          /\ \A j \in 0 .. h : Version(j, k)' = None
          /\ Version(h + 1, k)' = IF Moved(i, h + 2) THEN DELETED_FLAG
                                  ELSE Merged(Version(h + 1, k), DELETED_FLAG)
      BY <1>4, <2>4, NewestMoves
    <3>2. h + 1 \in 0 .. MAX_LEVELS /\ h + 1 <= MAX_LEVELS
      BY <1>1, <2>2, <2>4 DEF Moved, Levels
    <3>3. CASE Version(h + 1, k)' = DELETED_FLAG
      <4>1. 0 .. ((h + 1) - 1) = 0 .. h
        BY <2>2
      <4>2. Newest(h + 1, k)'
        BY <2>2, <3>1, <3>3, <4>1 DEF Newest
      <4> QED
        BY <2>1, <3>2, <3>3, <4>2, GetAfter DEF Visible
    <3>4. CASE Version(h + 1, k)' # DELETED_FLAG
      <4>1. /\ ~ Moved(i, h + 2) /\ Version(h + 1, k) # None
            /\ Version(h + 1, k)' = None
        BY <2>2, <3>1, <3>4 DEF Merged
      <4>2. ASSUME NEW p \in 0 .. MAX_LEVELS, p > h + 1
            PROVE  Version(p, k) = None
        <5>1. h < h + 1 /\ h + 1 < p
          BY <2>2, <4>2
        <5> QED
          BY <1>4, <3>2, <4>1, <5>1 DEF Exposed
      <4>3. ASSUME NEW p \in 0 .. MAX_LEVELS, p > h + 1
            PROVE  Version(p, k)' = None
        <5>1. Version(p, k) = None
          BY <4>2, <4>3
        <5>2. CASE Moved(i, p)
          <6>1. p - 1 \in 0 .. MAX_LEVELS /\ p # h + 2 /\ p - 1 > h + 1
            <7>1. p # h + 2
              BY <4>1, <5>2
            <7> QED
              BY <1>1, <2>2, <4>3, <7>1
          <6>2. Version(p - 1, k) = None
            BY <4>2, <6>1
          <6> QED
            BY <5>1, <5>2, <6>2, VersionAfter DEF Merged
        <5>3. CASE ~ Moved(i, p)
          BY <5>1, <5>3, VersionAfter
        <5> QED
          BY <5>2, <5>3
      <4>4. \A p \in 0 .. MAX_LEVELS : p \in 0 .. h \/ p = h + 1 \/ p > h + 1
        BY <2>2
      <4>5. \A p \in 0 .. MAX_LEVELS : Version(p, k)' = None
        BY <3>1, <4>1, <4>3, <4>4
      <4> QED
        BY <2>1, <4>5, GetAfter
    <3> QED
      BY <3>3, <3>4
  <2> QED
    BY <2>3, <2>4
<1> QED
  BY <1>2, <1>3, <1>4, SomeNewest

(* A step that leaves the levels, and k in the buffer, alone leaves the    *)
(* answer for k alone.                                                     *)
LEMMA SameAnswer ==
  ASSUME UNCHANGED disk, NEW k, buffer'[k] = buffer[k]
  PROVE  get(k)' = get(k)
<1>1. \A i \in 0 .. MAX_LEVELS : /\ Version(i, k)' = Version(i, k)
                                 /\ Newest(i, k)' = Newest(i, k)
  BY VersionSame
<1>2. CASE \E h \in 0 .. MAX_LEVELS : Newest(h, k)
  BY <1>1, <1>2, GetNewest, GetAfter
<1>3. CASE ~ \E h \in 0 .. MAX_LEVELS : Newest(h, k)
  <2>1. \A h \in 0 .. MAX_LEVELS : Version(h, k) = None
    BY <1>3, SomeNewest
  <2> QED
    BY <1>1, <1>3, <2>1, GetAfter DEF get
<1> QED
  BY <1>2, <1>3

(* A restart answers as before for each durable key.                       *)
THEOREM DurableAnswersCorrect == Spec => DurableAnswersKept
<1>1. ASSUME Shape, [Next]_vars, status # "running", NEW k \in Keys, Durable(k)
      PROVE  get(k)' = get(k)
  <2>1. CASE Startup
    <3>1. PICK h \in 1 .. (MAX_LEVELS - 1) : /\ Newest(h, k)
                                             /\ Newest(h, k)'
                                             /\ Version(h, k)' = Version(h, k)
      BY <1>1, <2>1, DurableStays
    <3>2. h \in 0 .. MAX_LEVELS
      BY ParametersAssumption
    <3> QED
      BY <3>1, <3>2, GetNewest, GetAfter
  <2>2. CASE UNCHANGED vars
    BY <2>2, SameAnswer DEF vars, disk
  <2> QED
    BY <1>1, <2>1, <2>2
    DEF Next, Command, Put, Delete, Flush, MergeLevel, Shutdown, Kill, DatabaseFull
<1>2. Shape /\ [Next]_vars =>
        [status # "running" => \A k \in Keys : Durable(k) => get(k)' = get(k)]_vars
  BY <1>1
<1> QED
  BY <1>2, ShapeCorrect, PTL DEF Spec, DurableAnswersKept

(* An insertion of k gives the entry inserted as the answer for k; for any *)
(* other key it does what a merge of the buffer does.                      *)
LEMMA InsertedAnswer ==
  ASSUME Shape, NEW k \in Keys, NEW v \in Stored, Insert(k, v), NEW l \in Keys
  PROVE  IF l = k THEN get(k)' = Visible(v) ELSE get(l)' = get(l) \/ Exposed(l)
<1>1. 1 \in Levels /\ Content(1 - 1) = buffer /\ 0 \in 0 .. MAX_LEVELS
  BY ParametersAssumption DEF Levels, Content
<1>2. v # None
  BY ValuesAssumption DEF Stored
<1>3. CASE l = k
  <2>1. buffer'[k] = v
    BY DEF Insert, Shape, TypeOK, Run, Empty
  <2>2. Newest(0, k)' /\ Version(0, k)' = v
    BY <1>2, <2>1, BufferIsNewest
  <2> QED
    BY <1>1, <1>3, <2>2, GetAfter
<1>4. CASE l # k /\ buffer' = [buffer EXCEPT ![k] = v] /\ UNCHANGED disk
  <2>1. buffer'[l] = buffer[l]
    BY <1>4 DEF Shape, TypeOK, Run
  <2> QED
    BY <1>4, <2>1, SameAnswer
<1>5. CASE l # k /\ Merge(1, buffer) /\ buffer' = [Empty EXCEPT ![k] = v]
  <2>1. buffer'[l] = None
    BY <1>5 DEF Empty
  <2> QED
    BY <1>1, <1>5, <2>1, MergedAnswer
<1> QED
  BY <1>3, <1>4, <1>5 DEF Insert

LEMMA StepAnswers ==
  ASSUME Shape, [Next]_vars, status = "running", NEW l \in Keys
  PROVE  get(l)' \in {get(l), store'[l]} \/ Exposed(l)
<1>1. 1 \in Levels /\ Content(1 - 1) = buffer
  BY ParametersAssumption DEF Levels, Content
<1>2. store \in [Keys -> Vals \cup {None}]
  BY DEF Shape, TypeOK
<1>3. ASSUME NEW k \in Keys, NEW v \in Vals, Put(k, v)
      PROVE  get(l)' \in {get(l), store'[l]} \/ Exposed(l)
  <2>1. Insert(k, v) /\ v \in Stored /\ v # DELETED_FLAG /\ store'[k] = v
    BY <1>2, <1>3, ValuesAssumption DEF Put, Stored
  <2>2. IF l = k THEN get(k)' = v ELSE get(l)' = get(l) \/ Exposed(l)
    BY <2>1, InsertedAnswer DEF Visible
  <2> QED
    BY <2>1, <2>2
<1>4. ASSUME NEW k \in DeletableKeys, Delete(k)
      PROVE  get(l)' \in {get(l), store'[l]} \/ Exposed(l)
  <2>1. /\ k \in Keys /\ DELETED_FLAG \in Stored /\ store'[k] = None
        /\ Insert(k, DELETED_FLAG)
    BY <1>2, <1>4, ParametersAssumption DEF Delete, Insert, Stored
  <2>2. IF l = k THEN get(k)' = None ELSE get(l)' = get(l) \/ Exposed(l)
    BY <2>1, InsertedAnswer DEF Visible
  <2> QED
    BY <2>1, <2>2
<1>5. ASSUME Merge(1, buffer), buffer' = Empty
      PROVE  get(l)' = get(l) \/ Exposed(l)
  BY <1>1, <1>5, MergedAnswer DEF Empty
<1>6. ASSUME NEW i \in 1 .. (MAX_LEVELS - 1), MergeLevel(i)
      PROVE  get(l)' = get(l) \/ Exposed(l)
  <2>1. i + 1 \in Levels /\ i + 1 # 1 /\ Content((i + 1) - 1) = Level(i)
    BY ParametersAssumption DEF Levels, Content
  <2> QED
    BY <1>6, <2>1, MergedAnswer DEF MergeLevel
<1>7. ASSUME UNCHANGED <<buffer, disk>>
      PROVE  get(l)' = get(l)
  BY <1>7, SameAnswer
<1>8. UNCHANGED vars => UNCHANGED <<buffer, disk>>
  BY DEF vars, disk
<1>9. ~ Startup
  BY DEF Startup
<1> QED
  BY <1>3, <1>4, <1>5, <1>6, <1>7, <1>8, <1>9
  DEF Next, Command, Flush, Shutdown, Kill, DatabaseFull

(* While a process runs, no flush, cascade or merge and no command for     *)
(* another key changes the answer for a key, except for one whose          *)
(* tombstone meets the second of three versions.                           *)
THEOREM AnswersStableCorrect == Spec => AnswersStable
<1>1. Shape /\ [Next]_vars =>
        [status = "running" =>
           \A k \in Keys : get(k)' \in {get(k), store'[k]} \/ Exposed(k)]_vars
  BY StepAnswers
<1> QED
  BY <1>1, ShapeCorrect, PTL DEF Spec, AnswersStable

-----------------------------------------------------------------------------
(* Statistics.                                                             *)

(* The keys whose newest version in the buffer and the levels to n is an   *)
(* entry, and those for which it is a tombstone.                           *)
Seen(n) ==
  [valid |-> {k \in Keys : \E i \in 0 .. n : Newest(i, k) /\ Version(i, k) # DELETED_FLAG},
   deleted |-> {k \in Keys : \E i \in 0 .. n : Newest(i, k) /\ Version(i, k) = DELETED_FLAG}]

Nothing == [valid |-> {}, deleted |-> {}]

(* One more level tells apart the keys that had no version so far.         *)
LEMMA SeenStart == Scan(Nothing, buffer) = Seen(0)
<1>1. 0 .. 0 = {0} /\ 0 .. (0 - 1) = {}
  OBVIOUS
<1>2. \A k \in Keys : \A i \in 0 .. 0 :
         i = 0 /\ (Newest(i, k) <=> buffer[k] # None) /\ Version(i, k) = buffer[k]
  BY <1>1 DEF Newest, Version
<1>3. 0 \in 0 .. 0
  OBVIOUS
<1>4. Scan(Nothing, buffer).valid = Seen(0).valid
  BY <1>2, <1>3 DEF Scan, Seen, Nothing, KeysOf
<1>5. Scan(Nothing, buffer).deleted = Seen(0).deleted
  BY <1>2, <1>3 DEF Scan, Seen, Nothing, KeysOf
<1> QED
  BY <1>4, <1>5 DEF Scan, Seen

LEMMA SeenStep ==
  ASSUME Shape, NEW n \in Levels
  PROVE  Scan(Seen(n - 1), Level(n)) = Seen(n)
<1>1. n \in Nat /\ 1 <= n /\ n <= MAX_LEVELS /\ MAX_LEVELS \in Nat
  BY ParametersAssumption DEF Levels
<1>2. ASSUME NEW k \in Keys
      PROVE  /\ k \in Seen(n - 1).valid \cup Seen(n - 1).deleted <=>
                  \E i \in 0 .. (n - 1) : Newest(i, k)
             /\ Newest(n, k) <=> Level(n)[k] # None /\ ~ \E i \in 0 .. (n - 1) : Newest(i, k)
             /\ Version(n, k) = Level(n)[k]
  <2>1. k \in Seen(n - 1).valid \cup Seen(n - 1).deleted <=>
           \E i \in 0 .. (n - 1) : Newest(i, k)
    BY DEF Seen
  <2>2. Version(n, k) = Level(n)[k]
    BY LevelShape
  <2>3. (\E i \in 0 .. (n - 1) : Newest(i, k)) => ~ Newest(n, k)
    BY <1>1 DEF Newest
  <2>4. (~ \E i \in 0 .. (n - 1) : Newest(i, k)) =>
           \A j \in 0 .. (n - 1) : Version(j, k) = None
    <3> SUFFICES ASSUME NEW j \in 0 .. (n - 1), Version(j, k) # None
                 PROVE  \E i \in 0 .. (n - 1) : Newest(i, k)
      OBVIOUS
    <3>1. j \in 0 .. MAX_LEVELS
      BY <1>1
    <3>2. PICK i \in 0 .. MAX_LEVELS : Newest(i, k)
      BY <3>1, SomeNewest
    <3>3. ~ (j < i)
      BY <3>1, <3>2 DEF Newest
    <3> QED
      BY <1>1, <3>2, <3>3
  <2> QED
    BY <2>1, <2>2, <2>3, <2>4 DEF Newest
<1>3. \A i : i \in 0 .. n <=> i \in 0 .. (n - 1) \/ i = n
  BY <1>1
<1>4. ASSUME NEW k \in Keys
      PROVE  k \in Scan(Seen(n - 1), Level(n)).valid <=> k \in Seen(n).valid
  <2>1. k \in Seen(n).valid <=> \/ k \in Seen(n - 1).valid
                                \/ Newest(n, k) /\ Version(n, k) # DELETED_FLAG
    BY <1>3 DEF Seen
  <2>2. k \in Scan(Seen(n - 1), Level(n)).valid <=>
          \/ k \in Seen(n - 1).valid
          \/ Level(n)[k] # None /\ Level(n)[k] # DELETED_FLAG /\ k \notin Seen(n - 1).deleted
    BY DEF Scan, KeysOf
  <2> QED
    BY <1>2, <2>1, <2>2
<1>5. ASSUME NEW k \in Keys
      PROVE  k \in Scan(Seen(n - 1), Level(n)).deleted <=> k \in Seen(n).deleted
  <2>1. k \in Seen(n).deleted <=> \/ k \in Seen(n - 1).deleted
                                  \/ Newest(n, k) /\ Version(n, k) = DELETED_FLAG
    BY <1>3 DEF Seen
  <2>2. k \in Scan(Seen(n - 1), Level(n)).deleted <=>
          \/ k \in Seen(n - 1).deleted
          \/ Level(n)[k] # None /\ Level(n)[k] = DELETED_FLAG /\ k \notin Seen(n - 1).valid
    BY DEF Scan, KeysOf
  <2> QED
    BY <1>2, <2>1, <2>2
<1>6. /\ Scan(Seen(n - 1), Level(n)).valid \subseteq Keys /\ Seen(n).valid \subseteq Keys
      /\ Scan(Seen(n - 1), Level(n)).deleted \subseteq Keys /\ Seen(n).deleted \subseteq Keys
  BY DEF Scan, Seen, KeysOf
<1>7. /\ Scan(Seen(n - 1), Level(n)).valid = Seen(n).valid
      /\ Scan(Seen(n - 1), Level(n)).deleted = Seen(n).deleted
  BY <1>4, <1>5, <1>6
<1> QED
  BY <1>7 DEF Scan, Seen

(* The recursive definition of Scanned has a solution, and only one.       *)
LEMMA ScannedValue ==
  ASSUME Shape
  PROVE  Scanned = [n \in 0 .. MAX_LEVELS |-> Seen(n)]
<1> DEFINE solution == [n \in 0 .. MAX_LEVELS |-> Seen(n)]
           Step(s) == [n \in 0 .. MAX_LEVELS |->
                         IF n = 0 THEN Scan(Nothing, buffer) ELSE Scan(s[n - 1], Level(n))]
<1>1. MAX_LEVELS \in Nat
  BY ParametersAssumption
<1>2. ASSUME NEW n \in 0 .. MAX_LEVELS, n # 0
      PROVE  n \in Levels /\ n - 1 \in 0 .. MAX_LEVELS
  BY <1>1, <1>2 DEF Levels
<1>3. solution = Step(solution)
  <2>1. ASSUME NEW n \in 0 .. MAX_LEVELS
        PROVE  Seen(n) = IF n = 0 THEN Scan(Nothing, buffer)
                         ELSE Scan(solution[n - 1], Level(n))
    BY <1>2, SeenStart, SeenStep
  <2> QED
    BY <2>1
<1>4. Scanned = CHOOSE s : s = Step(s)
  BY DEF Scanned, Nothing
<1>5. Scanned = Step(Scanned)
  BY <1>3, <1>4
<1>6. \A n \in 0 .. MAX_LEVELS :
         Scanned[n] = IF n = 0 THEN Scan(Nothing, buffer) ELSE Scan(Scanned[n - 1], Level(n))
  BY <1>5
<1>7. Scanned = [n \in 0 .. MAX_LEVELS |-> Scanned[n]]
  BY <1>5
<1> DEFINE wrong == {n \in 0 .. MAX_LEVELS : Scanned[n] # Seen(n)}
<1>8. wrong \subseteq Nat /\ \A n : n \in wrong <=> n \in 0 .. MAX_LEVELS /\ Scanned[n] # Seen(n)
  BY <1>1
<1> HIDE DEF wrong, Step
<1>9. ASSUME wrong # {} PROVE FALSE
  <2>1. PICK n \in wrong : \A m \in wrong : n <= m
    BY <1>8, <1>9, LeastElement
  <2>2. n \in 0 .. MAX_LEVELS /\ Scanned[n] # Seen(n)
    BY <1>8
  <2>3. n # 0
    BY <1>6, <2>2, SeenStart
  <2>4. n \in Levels /\ n - 1 \in 0 .. MAX_LEVELS /\ ~ (n <= n - 1)
    BY <1>1, <1>2, <2>2, <2>3
  <2>5. Scanned[n - 1] = Seen(n - 1)
    BY <1>8, <2>1, <2>4
  <2> QED
    BY <1>6, <2>2, <2>3, <2>4, <2>5, SeenStep
<1> QED
  BY <1>7, <1>8, <1>9

(* The pairs counted are the keys for which a search answers.              *)
LEMMA StatsAnswers ==
  ASSUME Shape
  PROVE  StatsAgreeWithGet
<1>1. MAX_LEVELS \in 0 .. MAX_LEVELS
  BY ParametersAssumption
<1>2. LogicalPairs = Seen(MAX_LEVELS).valid
  BY <1>1, ScannedValue DEF LogicalPairs
<1>3. ASSUME NEW k \in Keys
      PROVE  k \in Seen(MAX_LEVELS).valid <=> get(k) # None
  <2>1. ASSUME NEW h \in 0 .. MAX_LEVELS, Newest(h, k)
        PROVE  Version(h, k) # DELETED_FLAG <=> get(k) # None
    BY <2>1, GetNewest DEF Visible, Newest
  <2>2. get(k) # None => \E h \in 0 .. MAX_LEVELS : Newest(h, k)
    BY DEF get
  <2> QED
    BY <2>1, <2>2 DEF Seen
<1>4. Seen(MAX_LEVELS).valid \subseteq Keys
  BY DEF Seen
<1> QED
  BY <1>2, <1>3, <1>4 DEF StatsAgreeWithGet

(* The statistics, which scan the files, count the keys that a get, which  *)
(* goes through filters and fence pointers, finds.                         *)
THEOREM StatsCorrect == Spec => []StatsAgreeWithGet
<1>1. Shape => StatsAgreeWithGet
  BY StatsAnswers
<1> QED
  BY <1>1, ShapeCorrect, PTL
=============================================================================
