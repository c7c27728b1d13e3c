--------------------------- MODULE SSTable_proofs ---------------------------
(***************************************************************************)
(* Facts about runs, their prefixes and their merges, and about the arrays *)
(* that hold them, for any finite set of keys.                             *)
(***************************************************************************)
EXTENDS SortedArray, FiniteSetTheorems, SequenceTheorems, WellFoundedInduction, TLAPS

(* A set of numbers, of positions of a search or of indices of an array,   *)
(* has a smallest one: with it, what holds of an index if it holds of all  *)
(* smaller ones holds of all.                                              *)
LEMMA LeastElement ==
  ASSUME NEW S, S \subseteq Nat, S # {}
  PROVE  \E n \in S : \A m \in S : n <= m
<1> DEFINE less == {ss \in Nat \X Nat : ss[1] < ss[2]}
<1>1. IsWellFoundedOn(less, Nat)
  BY NatLessThanWellFounded DEF OpToRel
<1> HIDE DEF less
<1>2. PICK n \in S : \A m \in S : <<m, n>> \notin less
  BY <1>1, WFMin
<1>3. ASSUME NEW m \in S PROVE n <= m
  <2>1. <<m, n>> \notin less /\ m \in Nat /\ n \in Nat
    BY <1>2
  <2>2. ~ (m < n)
    BY <2>1 DEF less
  <2> QED
    BY <2>1, <2>2
<1> QED
  BY <1>3

(* A run has finitely many entries (its array fits in a file).             *)
LEMMA SizeType ==
  ASSUME NEW run
  PROVE  IsFiniteSet(KeysOf(run)) /\ Size(run) \in Nat
<1>1. KeysOf(run) \in SUBSET Keys
  BY DEF KeysOf
<1>2. IsFiniteSet(KeysOf(run))
  BY <1>1, KeysAssumption, FS_Subset
<1> QED
  BY <1>2, FS_CardinalityType DEF Size

(* A run without entries is the empty one: what a level of size 0 holds.   *)
LEMMA SizeZero ==
  ASSUME NEW run \in Run
  PROVE  Size(run) = 0 <=> run = Empty
<1>1. Size(run) = 0 <=> KeysOf(run) = {}
  BY SizeType, FS_EmptySet DEF Size
<1>2. KeysOf(run) = {} <=> \A k \in Keys : run[k] = None
  BY DEF KeysOf
<1>3. (\A k \in Keys : run[k] = None) <=> run = Empty
  BY DEF Run, Empty
<1> QED
  BY <1>1, <1>2, <1>3

LEMMA EmptyRun == Empty \in Run /\ KeysOf(Empty) = {} /\ Size(Empty) = 0
<1>1. Empty \in Run
  BY DEF Empty, Run
<1>2. KeysOf(Empty) = {}
  BY DEF Empty, KeysOf
<1> QED
  BY <1>1, <1>2, SizeZero

(* What a level sees of its file is a run; of size 0, the empty run; and   *)
(* of the size of the file, all of it.                                     *)
LEMMA PrefixType ==
  ASSUME NEW run \in Run, NEW n
  PROVE  Prefix(run, n) \in Run
BY DEF Prefix, Run

LEMMA PrefixNone ==
  ASSUME NEW run \in Run
  PROVE  Prefix(run, 0) = Empty
<1> SUFFICES ASSUME NEW k \in Keys
             PROVE  ~ (Cardinality({j \in KeysOf(run) : j < k}) < 0)
  BY DEF Prefix, Empty
<1>1. IsFiniteSet(KeysOf(run))
  BY SizeType
<1>2. {j \in KeysOf(run) : j < k} \in SUBSET KeysOf(run)
  OBVIOUS
<1>3. Cardinality({j \in KeysOf(run) : j < k}) \in Nat
  BY <1>1, <1>2, FS_Subset, FS_CardinalityType
<1> QED
  BY <1>3

LEMMA PrefixAll ==
  ASSUME NEW run \in Run
  PROVE  Prefix(run, Size(run)) = run
<1> SUFFICES ASSUME NEW k \in Keys, run[k] # None
             PROVE  Cardinality({j \in KeysOf(run) : j < k}) < Size(run)
  BY DEF Prefix, Run
<1> DEFINE below == {j \in KeysOf(run) : j < k}
<1>1. IsFiniteSet(KeysOf(run)) /\ Size(run) \in Nat
  BY SizeType
<1>2. below \in SUBSET KeysOf(run)
  OBVIOUS
<1>3. /\ Cardinality(below) <= Size(run)
      /\ Size(run) = Cardinality(below) => KeysOf(run) = below
  BY <1>1, <1>2, FS_Subset DEF Size
<1>4. k \in KeysOf(run) /\ k \notin below
  BY KeysAssumption DEF KeysOf
<1>5. Cardinality(below) \in Nat
  BY <1>1, <1>2, FS_Subset, FS_CardinalityType
<1> QED
  BY <1>1, <1>3, <1>4, <1>5

(* A merge of runs is a run, no longer than the two together: the room     *)
(* that level::merge() checks for is enough.                               *)
LEMMA MergeRunsType ==
  ASSUME NEW curr \in Run, NEW child \in Run
  PROVE  MergeRuns(curr, child) \in Run
BY DEF MergeRuns, Run

LEMMA MergeRunsSize ==
  ASSUME NEW curr \in Run, NEW child \in Run
  PROVE  Size(MergeRuns(curr, child)) <= Size(curr) + Size(child)
<1> DEFINE both == KeysOf(curr) \cup KeysOf(child)
           inter == KeysOf(curr) \cap KeysOf(child)
<1>1. /\ IsFiniteSet(KeysOf(curr)) /\ Cardinality(KeysOf(curr)) \in Nat
      /\ IsFiniteSet(KeysOf(child)) /\ Cardinality(KeysOf(child)) \in Nat
  BY SizeType DEF Size
<1>2. /\ IsFiniteSet(both)
      /\ Cardinality(both) = Cardinality(KeysOf(curr)) + Cardinality(KeysOf(child))
                             - Cardinality(inter)
  BY <1>1, FS_Union
<1>3. Cardinality(inter) \in Nat
  <2>1. inter \in SUBSET KeysOf(curr)
    OBVIOUS
  <2> QED
    BY <2>1, <1>1, FS_Subset, FS_CardinalityType
<1>4. KeysOf(MergeRuns(curr, child)) \in SUBSET both
  BY DEF KeysOf, MergeRuns
<1>5. Cardinality(KeysOf(MergeRuns(curr, child))) <= Cardinality(both)
  BY <1>2, <1>4, FS_Subset
<1>6. Cardinality(KeysOf(MergeRuns(curr, child))) \in Nat
  BY SizeType DEF Size
<1> QED
  BY <1>1, <1>2, <1>3, <1>5, <1>6 DEF Size

LEMMA MergeIntoEmpty ==
  ASSUME NEW child \in Run
  PROVE  MergeRuns(Empty, child) = child
BY DEF MergeRuns, Run, Empty

(* Writing one entry into a run makes it longer by one at most.            *)
LEMMA WriteSize ==
  ASSUME NEW run \in Run, NEW k \in Keys, NEW v \in Stored
  PROVE  /\ [run EXCEPT ![k] = v] \in Run
         /\ KeysOf([run EXCEPT ![k] = v]) = KeysOf(run) \cup {k}
         /\ Size([run EXCEPT ![k] = v]) =
              IF k \in KeysOf(run) THEN Size(run) ELSE Size(run) + 1
<1>1. v # None
  BY ValuesAssumption DEF Stored
<1>2. [run EXCEPT ![k] = v] \in Run
  BY DEF Run
<1>3. KeysOf([run EXCEPT ![k] = v]) = KeysOf(run) \cup {k}
  BY <1>1 DEF KeysOf, Run
<1> QED
  BY <1>2, <1>3, SizeType, FS_AddElement DEF Size

-----------------------------------------------------------------------------
(* Arrays as sequences.                                                    *)

IsSequence(x) == \E S : x \in Seq(S)

LEMMA EmptySequence ==
  IsSequence(<<>>) /\ Len(<<>>) = 0 /\ KeysIn(<<>>) = {}
<1>1. <<>> \in Seq({}) /\ Len(<<>>) = 0
  BY EmptySeq
<1> QED
  BY <1>1 DEF IsSequence, KeysIn

LEMMA AppendSequence ==
  ASSUME NEW seq, IsSequence(seq), NEW entry
  PROVE  /\ IsSequence(Append(seq, entry))
         /\ Len(seq) \in Nat /\ Len(Append(seq, entry)) = Len(seq) + 1
         /\ \A p \in 1 .. Len(seq) : Append(seq, entry)[p] = seq[p]
         /\ Append(seq, entry)[Len(seq) + 1] = entry
         /\ KeysIn(Append(seq, entry)) = KeysIn(seq) \cup {entry.key}
<1>1. PICK S : seq \in Seq(S)
  BY DEF IsSequence
<1> DEFINE T == S \cup {entry}
           longer == Append(seq, entry)
<1>2. seq \in Seq(T)
  BY <1>1, SeqMonotonic
<1>3. /\ longer \in Seq(T) /\ Len(seq) \in Nat /\ Len(longer) = Len(seq) + 1
      /\ \A p \in 1 .. Len(seq) : longer[p] = seq[p]
      /\ longer[Len(seq) + 1] = entry
  BY <1>2, AppendProperties, LenProperties
<1> HIDE DEF longer
<1>4. KeysIn(longer) = KeysIn(seq) \cup {entry.key}
  <2>1. 1 .. Len(longer) = (1 .. Len(seq)) \cup {Len(seq) + 1}
    BY <1>3
  <2> QED
    BY <2>1, <1>3 DEF KeysIn
<1> QED
  BY <1>3, <1>4 DEF IsSequence, longer

LEMMA WholeSequence ==
  ASSUME NEW seq, IsSequence(seq)
  PROVE  SubSeq(seq, 1, Len(seq)) = seq /\ Len(seq) \in Nat
<1>1. PICK S : seq \in Seq(S)
  BY DEF IsSequence
<1> QED
  BY <1>1, SubSeqFull, LenProperties

(* The array of a run has as many entries as the run.                      *)
LEMMA LenArray ==
  ASSUME NEW run
  PROVE  Len(Array(run)) = Size(run) /\ Size(run) \in Nat
<1> DEFINE array == Array(run)
<1>1. Size(run) \in Nat
  BY SizeType
<1>2. DOMAIN array = 1 .. Size(run)
  BY DEF Array
<1>3. array = [p \in 1 .. Size(run) |-> array[p]]
  BY DEF Array
<1> HIDE DEF array
<1> DEFINE S == {array[p] : p \in 1 .. Size(run)}
<1>4. array \in [1 .. Size(run) -> S]
  BY <1>3
<1>5. array \in Seq(S)
  BY <1>1, <1>4, SeqDef
<1>6. DOMAIN array = 1 .. Len(array) /\ Len(array) \in Nat
  BY <1>5, LenProperties
<1> QED
  BY <1>1, <1>2, <1>6 DEF array

-----------------------------------------------------------------------------
(* Sorted arrays and the runs they hold.                                   *)

Sorted(array) == \A p, q \in 1 .. Len(array) : p < q => array[p].key < array[q].key

IsArray(array) == array \in Seq(lsm_data) /\ Sorted(array)

LEMMA EntryFields ==
  ASSUME NEW e \in lsm_data
  PROVE  /\ e.key \in Keys /\ e.key \in Int
         /\ e.value \in Stored /\ e.value # None
         /\ e = [key |-> e.key, value |-> e.value]
BY KeysAssumption, ValuesAssumption DEF lsm_data, Stored

LEMMA ArrayEntries ==
  ASSUME NEW a, IsArray(a)
  PROVE  /\ Len(a) \in Nat
         /\ \A p \in 1 .. Len(a) : /\ a[p] \in lsm_data
                                   /\ a[p].key \in Keys /\ a[p].key \in Int
                                   /\ a[p].value \in Stored /\ a[p].value # None
                                   /\ a[p] = [key |-> a[p].key, value |-> a[p].value]
         /\ \A p, q \in 1 .. Len(a) : a[p].key = a[q].key => p = q
         /\ \A p, q \in 1 .. Len(a) : a[p].key < a[q].key => p < q
<1>1. a \in Seq(lsm_data) /\ Len(a) \in Nat
  BY LenProperties DEF IsArray
<1>2. \A p \in 1 .. Len(a) : a[p] \in lsm_data
  BY <1>1, ElementOfSeq
<1>3. \A p \in 1 .. Len(a) : /\ a[p].key \in Keys /\ a[p].key \in Int
                             /\ a[p].value \in Stored /\ a[p].value # None
                             /\ a[p] = [key |-> a[p].key, value |-> a[p].value]
  BY <1>2, EntryFields
<1>4. ASSUME NEW p \in 1 .. Len(a), NEW q \in 1 .. Len(a)
      PROVE  (a[p].key = a[q].key => p = q) /\ (a[p].key < a[q].key => p < q)
  <2>1. (p < q => a[p].key < a[q].key) /\ (q < p => a[q].key < a[p].key)
    BY DEF IsArray, Sorted
  <2>2. a[p].key \in Int /\ a[q].key \in Int
    BY <1>3
  <2>3. p \in Int /\ q \in Int
    OBVIOUS
  <2> QED
    BY <2>1, <2>2, <2>3
<1> QED
  BY <1>1, <1>2, <1>3, <1>4

LEMMA RunOfArray ==
  ASSUME NEW a, IsArray(a)
  PROVE  /\ RunOf(a) \in Run
         /\ \A p \in 1 .. Len(a) : RunOf(a)[a[p].key] = a[p].value
         /\ \A k \in Keys : k \notin KeysIn(a) => RunOf(a)[k] = None
         /\ KeysOf(RunOf(a)) = KeysIn(a)
<1>1. ASSUME NEW p \in 1 .. Len(a)
      PROVE  RunOf(a)[a[p].key] = a[p].value
  <2>1. a[p].key \in Keys /\ a[p].key \in KeysIn(a)
    BY ArrayEntries DEF KeysIn
  <2> DEFINE c == CHOOSE q \in 1 .. Len(a) : a[q].key = a[p].key
  <2>2. c \in 1 .. Len(a) /\ a[c].key = a[p].key
    OBVIOUS
  <2>3. c = p
    BY <2>2, ArrayEntries
  <2> QED
    BY <2>1, <2>3 DEF RunOf
<1>2. \A k \in Keys : k \notin KeysIn(a) => RunOf(a)[k] = None
  BY DEF RunOf
<1>3. \A k \in KeysIn(a) : \E p \in 1 .. Len(a) : k = a[p].key
  BY DEF KeysIn
<1>4. ASSUME NEW k \in KeysIn(a)
      PROVE  k \in Keys /\ RunOf(a)[k] \in Stored /\ RunOf(a)[k] # None
  <2>1. PICK p \in 1 .. Len(a) : k = a[p].key
    BY <1>3
  <2>2. a[p].key \in Keys /\ a[p].value \in Stored /\ a[p].value # None
    BY ArrayEntries
  <2>3. RunOf(a)[k] = a[p].value
    BY <1>1, <2>1
  <2> QED
    BY <2>1, <2>2, <2>3
<1>5. RunOf(a) = [k \in Keys |-> RunOf(a)[k]]
  BY DEF RunOf
<1> QED
  BY <1>1, <1>2, <1>4, <1>5 DEF Run, KeysOf

(* The first keys of an array are as many as their positions.              *)
LEMMA FirstKeys ==
  ASSUME NEW a, IsArray(a), NEW n \in 0 .. Len(a)
  PROVE  Cardinality({a[q].key : q \in 1 .. n}) = n
<1> DEFINE T == {a[q].key : q \in 1 .. n}
           f == [q \in 1 .. n |-> a[q].key]
<1>1. Len(a) \in Nat /\ n \in Nat /\ 1 .. n \subseteq 1 .. Len(a)
  BY ArrayEntries
<1>2. f \in [1 .. n -> T]
  OBVIOUS
<1>3. \A p, q \in 1 .. n : f[p] = f[q] => p = q
  BY <1>1, ArrayEntries
<1>4. \A k \in T : \E q \in 1 .. n : f[q] = k
  OBVIOUS
<1> HIDE DEF f, T
<1>5. f \in Bijection(1 .. n, T)
  BY <1>2, <1>3, <1>4 DEF Bijection, Injection, Surjection, IsInjective
<1>6. ExistsBijection(1 .. n, T)
  BY <1>5 DEF ExistsBijection
<1>7. Cardinality(T) = n
  BY <1>1, <1>6, FS_CountingElements
<1> QED
  BY <1>7 DEF T

(* How many keys of a set are smaller than a key: its place in the array.  *)
LEMMA Ranks ==
  ASSUME NEW S, S \subseteq Int, IsFiniteSet(S)
  PROVE  /\ \A k \in S : Cardinality({j \in S : j < k}) \in 0 .. (Cardinality(S) - 1)
         /\ \A k, l \in S : k < l => Cardinality({j \in S : j < k}) < Cardinality({j \in S : j < l})
<1> DEFINE below(k) == {j \in S : j < k}
<1>1. Cardinality(S) \in Nat
  BY FS_CardinalityType
<1>2. ASSUME NEW k \in S
      PROVE  /\ IsFiniteSet(below(k)) /\ Cardinality(below(k)) \in Nat
             /\ IsFiniteSet(below(k) \cup {k})
             /\ Cardinality(below(k) \cup {k}) = Cardinality(below(k)) + 1
  <2>1. below(k) \in SUBSET S /\ k \notin below(k)
    OBVIOUS
  <2>2. IsFiniteSet(below(k))
    BY <2>1, FS_Subset
  <2> QED
    BY <2>1, <2>2, FS_CardinalityType, FS_AddElement
<1>3. ASSUME NEW k \in S
      PROVE  Cardinality(below(k)) + 1 <= Cardinality(S)
  <2>1. below(k) \cup {k} \in SUBSET S
    OBVIOUS
  <2>2. Cardinality(below(k) \cup {k}) <= Cardinality(S)
    BY <2>1, FS_Subset
  <2> QED
    BY <1>2, <2>2
<1>4. ASSUME NEW k \in S, NEW l \in S, k < l
      PROVE  Cardinality(below(k)) + 1 <= Cardinality(below(l))
  <2>1. below(k) \cup {k} \in SUBSET below(l)
    <3>1. \A j \in S : j \in Int
      OBVIOUS
    <3>2. \A j \in S : j < k => j < l
      BY <1>4, <3>1
    <3> QED
      BY <1>4, <3>2
  <2>2. Cardinality(below(k) \cup {k}) <= Cardinality(below(l))
    BY <1>2, <2>1, FS_Subset
  <2> QED
    BY <1>2, <2>2
<1>5. ASSUME NEW k \in S
      PROVE  Cardinality(below(k)) \in 0 .. (Cardinality(S) - 1)
  <2> DEFINE c == Cardinality(below(k))
             n == Cardinality(S)
  <2>1. c \in Nat /\ c + 1 <= n /\ n \in Nat
    BY <1>1, <1>2, <1>3
  <2> HIDE DEF c, n
  <2>2. c \in 0 .. (n - 1)
    BY <2>1
  <2> QED
    BY <2>2 DEF c, n
<1>6. ASSUME NEW k \in S, NEW l \in S, k < l
      PROVE  Cardinality(below(k)) < Cardinality(below(l))
  <2> DEFINE c == Cardinality(below(k))
             d == Cardinality(below(l))
  <2>1. c \in Nat /\ d \in Nat /\ c + 1 <= d
    BY <1>2, <1>4, <1>6
  <2> HIDE DEF c, d
  <2>2. c < d
    BY <2>1
  <2> QED
    BY <2>2 DEF c, d
<1> QED
  BY <1>5, <1>6

LEMMA RankTaken ==
  ASSUME NEW S, S \subseteq Int, IsFiniteSet(S), NEW r \in 0 .. (Cardinality(S) - 1)
  PROVE  \E k \in S : Cardinality({j \in S : j < k}) = r
<1> DEFINE rank == [k \in S |-> Cardinality({j \in S : j < k})]
           T == 0 .. (Cardinality(S) - 1)
<1>1. Cardinality(S) \in Nat
  BY FS_CardinalityType
<1>2. rank \in [S -> T]
  BY Ranks
<1>3. ASSUME NEW k \in S, NEW l \in S, rank[k] = rank[l]
      PROVE  k = l
  <2>1. (k < l => rank[k] < rank[l]) /\ (l < k => rank[l] < rank[k])
    BY Ranks
  <2>2. rank[k] \in Int /\ rank[l] \in Int
    BY <1>2
  <2> QED
    BY <1>3, <2>1, <2>2
<1>4. \A k \in S : rank[k] = Cardinality({j \in S : j < k})
  OBVIOUS
<1> HIDE DEF rank
<1>5. rank \in Injection(S, T)
  BY <1>2, <1>3 DEF Injection, IsInjective
<1>6. IsFiniteSet(T) /\ Cardinality(T) = Cardinality(S)
  BY <1>1, FS_Interval
<1>7. rank \in Surjection(S, T)
  BY <1>5, <1>6, FS_Injection
<1>8. PICK k \in S : rank[k] = r
  BY <1>7 DEF Surjection
<1> QED
  BY <1>4, <1>8

(* The array of a run holds the run.                                       *)
LEMMA ArrayOfRun ==
  ASSUME NEW run \in Run
  PROVE  /\ IsArray(Array(run)) /\ Len(Array(run)) = Size(run)
         /\ \A p \in 1 .. Size(run) :
              /\ Array(run)[p].key \in KeysOf(run)
              /\ Cardinality({j \in KeysOf(run) : j < Array(run)[p].key}) = p - 1
              /\ Array(run)[p].value = run[Array(run)[p].key]
         /\ RunOf(Array(run)) = run
<1> DEFINE keys == KeysOf(run)
           Rank(k) == Cardinality({j \in keys : j < k})
           Nth(p) == CHOOSE k \in keys : Rank(k) = p - 1
           array == Array(run)
<1>1. keys \subseteq Int /\ keys \subseteq Keys /\ IsFiniteSet(keys) /\ Cardinality(keys) = Size(run)
  BY SizeType, KeysAssumption DEF KeysOf, Size
<1>2. Size(run) \in Nat
  BY SizeType
<1>3. ASSUME NEW p \in 1 .. Size(run)
      PROVE  Nth(p) \in keys /\ Rank(Nth(p)) = p - 1
  <2>1. p - 1 \in 0 .. (Cardinality(keys) - 1)
    BY <1>1, <1>2
  <2>2. \E k \in keys : Rank(k) = p - 1
    BY <1>1, <2>1, RankTaken
  <2> QED
    BY <2>2
<1>4. array = [p \in 1 .. Size(run) |-> [key |-> Nth(p), value |-> run[Nth(p)]]]
  BY DEF Array
<1> HIDE DEF array, Nth, Rank, keys
<1>5. ASSUME NEW p \in 1 .. Size(run)
      PROVE  /\ array[p].key = Nth(p) /\ array[p].value = run[Nth(p)]
             /\ array[p] \in lsm_data
  <2>1. array[p] = [key |-> Nth(p), value |-> run[Nth(p)]]
    BY <1>4
  <2>2. Nth(p) \in Keys /\ run[Nth(p)] # None
    BY <1>3 DEF keys, KeysOf
  <2>3. run[Nth(p)] \in Stored
    BY <2>2 DEF Run
  <2> QED
    BY <2>1, <2>2, <2>3 DEF lsm_data
<1>6. Len(array) = Size(run)
  BY LenArray DEF array
<1>7. array \in Seq(lsm_data)
  <2>1. array \in [1 .. Size(run) -> lsm_data]
    BY <1>4, <1>5
  <2> QED
    BY <1>2, <2>1, SeqDef
<1>8. Sorted(array)
  <2> SUFFICES ASSUME NEW p \in 1 .. Size(run), NEW q \in 1 .. Size(run), p < q
               PROVE  Nth(p) < Nth(q)
    BY <1>5, <1>6 DEF Sorted
  <2>1. Nth(p) \in keys /\ Nth(q) \in keys /\ Rank(Nth(p)) = p - 1 /\ Rank(Nth(q)) = q - 1
    BY <1>3
  <2>2. Nth(q) < Nth(p) => Rank(Nth(q)) < Rank(Nth(p))
    BY <1>1, <2>1, Ranks DEF Rank
  <2>3. p - 1 # q - 1 /\ ~ (q - 1 < p - 1)
    BY <1>2
  <2>4. Nth(p) # Nth(q) /\ ~ (Nth(q) < Nth(p))
    BY <2>1, <2>2, <2>3
  <2>5. Nth(p) \in Int /\ Nth(q) \in Int
    BY <1>1, <2>1
  <2> QED
    BY <2>4, <2>5
<1>9. IsArray(array)
  BY <1>7, <1>8 DEF IsArray
<1>10. KeysIn(array) = keys
  <2>1. \A k \in KeysIn(array) : k \in keys
    BY <1>3, <1>5, <1>6 DEF KeysIn
  <2>2. ASSUME NEW k \in keys PROVE k \in KeysIn(array)
    <3>1. Rank(k) \in 0 .. (Size(run) - 1)
      BY <1>1, Ranks DEF Rank
    <3>2. PICK p \in 1 .. Size(run) : p - 1 = Rank(k)
      <4>1. Rank(k) + 1 \in 1 .. Size(run) /\ (Rank(k) + 1) - 1 = Rank(k)
        BY <1>2, <3>1
      <4> QED
        BY <4>1
    <3>3. Nth(p) \in keys /\ Rank(Nth(p)) = Rank(k)
      BY <1>3, <3>2
    <3>4. k < Nth(p) => Rank(k) < Rank(Nth(p))
      BY <1>1, <3>3, Ranks DEF Rank
    <3>5. Nth(p) < k => Rank(Nth(p)) < Rank(k)
      BY <1>1, <3>3, Ranks DEF Rank
    <3>6. ~ (Rank(k) < Rank(k))
      BY <1>2, <3>1
    <3>7. k = Nth(p)
      <4>1. k \in Int /\ Nth(p) \in Int
        BY <1>1, <3>3
      <4> QED
        BY <3>3, <3>4, <3>5, <3>6, <4>1
    <3> QED
      BY <1>5, <1>6, <3>7 DEF KeysIn
  <2> QED
    BY <2>1, <2>2
<1>11. RunOf(array) = run
  <2>1. RunOf(array) \in Run
    BY <1>9, RunOfArray
  <2>2. ASSUME NEW k \in Keys PROVE RunOf(array)[k] = run[k]
    <3>1. CASE k \in keys
      <4>1. PICK p \in 1 .. Len(array) : k = array[p].key
        BY <1>10, <3>1 DEF KeysIn
      <4>2. RunOf(array)[k] = array[p].value
        BY <1>9, <4>1, RunOfArray
      <4> QED
        BY <1>5, <1>6, <4>1, <4>2
    <3>2. CASE k \notin keys
      <4>1. RunOf(array)[k] = None
        BY <1>9, <1>10, <3>2, RunOfArray
      <4> QED
        BY <3>2, <4>1 DEF keys, KeysOf
    <3> QED
      BY <3>1, <3>2
  <2> QED
    BY <2>1, <2>2 DEF Run
<1> QED
  BY <1>3, <1>5, <1>6, <1>9, <1>11 DEF array, Rank, keys

(* Two keys of a set in the same place are the same.                       *)
LEMMA RankUnique ==
  ASSUME NEW S, S \subseteq Int, IsFiniteSet(S), NEW k \in S, NEW l \in S,
         Cardinality({j \in S : j < k}) = Cardinality({j \in S : j < l})
  PROVE  k = l
<1> DEFINE c == Cardinality({j \in S : j < k})
           d == Cardinality({j \in S : j < l})
<1>1. c \in 0 .. (Cardinality(S) - 1) /\ c = d
  BY Ranks
<1>2. (k < l => c < d) /\ (l < k => d < c)
  BY Ranks
<1>3. Cardinality(S) \in Nat
  BY FS_CardinalityType
<1>4. k \in Int /\ l \in Int
  OBVIOUS
<1> HIDE DEF c, d
<1>5. c \in Int
  BY <1>1, <1>3
<1> QED
  BY <1>1, <1>2, <1>4, <1>5

(* An array with the first entries of a run is the beginning of its array. *)
LEMMA FirstOfArray ==
  ASSUME NEW run \in Run, NEW a, IsArray(a),
         \A p \in 1 .. Len(a) : run[a[p].key] = a[p].value,
         \A k \in KeysOf(run) : k \in KeysIn(a) \/ \A p \in 1 .. Len(a) : a[p].key < k
  PROVE  /\ Len(a) <= Len(Array(run))
         /\ \A p \in 1 .. Len(a) : a[p] = Array(run)[p] /\ p \in 1 .. Len(Array(run))
         /\ KeysOf(run) \subseteq KeysIn(a) => a = Array(run)
<1> DEFINE t == Array(run)
           S == KeysOf(run)
<1>1. /\ t \in Seq(lsm_data) /\ Len(t) = Size(run)
      /\ a \in Seq(lsm_data) /\ Len(a) \in Nat
      /\ Size(run) \in Nat /\ Size(run) = Cardinality(S)
  BY ArrayOfRun, ArrayEntries, SizeType DEF IsArray, Size
<1>2. S \subseteq Int /\ IsFiniteSet(S)
  BY SizeType, KeysAssumption DEF KeysOf
<1>3. ASSUME NEW p \in 1 .. Len(a)
      PROVE  a[p].key \in S
  <2>1. a[p].key \in Keys /\ a[p].value # None
    BY ArrayEntries
  <2>2. run[a[p].key] = a[p].value
    OBVIOUS
  <2> QED
    BY <2>1, <2>2 DEF KeysOf
<1>4. ASSUME NEW p \in 1 .. Len(a)
      PROVE  Cardinality({j \in S : j < a[p].key}) = p - 1
  <2> DEFINE below == {j \in S : j < a[p].key}
             first == {a[q].key : q \in 1 .. (p - 1)}
  <2>1. ASSUME NEW j \in below PROVE j \in first
    <3>1. j \in S /\ j < a[p].key /\ j \in Int /\ a[p].key \in Int
      BY <1>2, <1>3
    <3>2. ~ (a[p].key < j)
      BY <3>1
    <3>3. j \in KeysIn(a)
      BY <3>1, <3>2
    <3>4. PICK q \in 1 .. Len(a) : j = a[q].key
      BY <3>3 DEF KeysIn
    <3>5. q < p
      BY <3>1, <3>4, ArrayEntries
    <3>6. q \in 1 .. (p - 1)
      BY <1>1, <3>5
    <3> QED
      BY <3>4, <3>6
  <2>2. ASSUME NEW j \in first PROVE j \in below
    <3>1. PICK q \in 1 .. (p - 1) : j = a[q].key
      OBVIOUS
    <3>2. q \in 1 .. Len(a) /\ q < p
      BY <1>1
    <3>3. a[q].key < a[p].key
      BY <3>2 DEF IsArray, Sorted
    <3> QED
      BY <1>3, <3>1, <3>2, <3>3
  <2>3. below = first
    BY <2>1, <2>2
  <2>4. p - 1 \in 0 .. Len(a)
    BY <1>1
  <2> QED
    BY <2>3, <2>4, FirstKeys
<1>5. Len(a) <= Size(run)
  <2>1. CASE Len(a) = 0
    BY <1>1, <2>1
  <2>2. CASE Len(a) # 0
    <3>1. Len(a) \in 1 .. Len(a)
      BY <1>1, <2>2
    <3>2. Cardinality({j \in S : j < a[Len(a)].key}) \in 0 .. (Cardinality(S) - 1)
      BY <1>2, <1>3, <3>1, Ranks
    <3>3. Len(a) - 1 \in 0 .. (Size(run) - 1)
      BY <1>1, <1>4, <3>1, <3>2
    <3> QED
      BY <1>1, <3>3
  <2> QED
    BY <2>1, <2>2
<1>6. ASSUME NEW p \in 1 .. Len(a)
      PROVE  a[p] = t[p] /\ p \in 1 .. Len(t)
  <2>1. p \in 1 .. Len(t) /\ p \in 1 .. Size(run)
    BY <1>1, <1>5
  <2>2. /\ t[p].key \in S
        /\ Cardinality({j \in S : j < t[p].key}) = p - 1
        /\ t[p].value = run[t[p].key]
    BY <2>1, ArrayOfRun
  <2>3. a[p].key \in S /\ Cardinality({j \in S : j < a[p].key}) = p - 1
    BY <1>3, <1>4
  <2>4. a[p].key = t[p].key
    BY <1>2, <2>2, <2>3, RankUnique
  <2>5. a[p].value = t[p].value
    BY <2>2, <2>4
  <2>6. a[p] = [key |-> a[p].key, value |-> a[p].value]
    BY ArrayEntries
  <2>7. t[p] = [key |-> t[p].key, value |-> t[p].value]
    BY <2>1, ArrayEntries, ArrayOfRun
  <2> QED
    BY <2>1, <2>4, <2>5, <2>6, <2>7
<1> HIDE DEF t
<1>7. ASSUME S \subseteq KeysIn(a)
      PROVE  a = t
  <2>1. KeysIn(a) = S
    BY <1>3, <1>7 DEF KeysIn
  <2>2. Len(a) \in 0 .. Len(a)
    BY <1>1
  <2>3. Cardinality(KeysIn(a)) = Len(a)
    BY <2>2, FirstKeys DEF KeysIn
  <2>4. Len(a) = Len(t)
    BY <1>1, <2>1, <2>3
  <2> QED
    BY <1>1, <1>6, <2>4, SeqEqual
<1> QED
  BY <1>1, <1>5, <1>6, <1>7 DEF t

LEMMA EmptyArray == IsArray(<<>>) /\ RunOf(<<>>) = Empty
<1>1. <<>> \in Seq(lsm_data) /\ Len(<<>>) = 0 /\ KeysIn(<<>>) = {}
  BY EmptySeq, EmptySequence
<1>2. IsArray(<<>>)
  BY <1>1 DEF IsArray, Sorted
<1> QED
  BY <1>1, <1>2 DEF RunOf, Empty
=============================================================================
