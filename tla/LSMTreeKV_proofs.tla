------------------------- MODULE LSMTreeKV_proofs -------------------------
(***************************************************************************)
(* The LSM tree implements the dictionary, for every set of keys and       *)
(* values, every number of levels and every choice of the capacities.      *)
(***************************************************************************)
EXTENDS LSMTreeKV, LSMTree_proofs

(* No version is stored of a key that no workload deletes and the          *)
(* dictionary does not hold.                                               *)
UnputAbsent == \A k \in UndeletedKeys : store[k] = None =>
                 \A i \in 0 .. MAX_LEVELS : Version(i, k) = None

KVInv == IInv /\ UnputAbsent

(* Under the invariant the dictionary is what get() answers.               *)
LEMMA AnswersAreStore ==
  ASSUME KVInv, NEW k \in UndeletedKeys
  PROVE  get(k) = store[k]
<1>1. CASE store[k] # None
  <2>1. PICK h \in 0 .. MAX_LEVELS : Newest(h, k) /\ Version(h, k) = store[k]
    BY <1>1 DEF KVInv, IInv, LiveNewest, UndeletedKeys
  <2>2. store[k] # DELETED_FLAG
    BY <1>1, ValuesAssumption DEF KVInv, IInv, Shape, TypeOK, UndeletedKeys
  <2> QED
    BY <2>1, <2>2, GetNewest DEF Visible
<1>2. CASE store[k] = None
  BY <1>2 DEF KVInv, UnputAbsent, get, Newest
<1> QED
  BY <1>1, <1>2

-----------------------------------------------------------------------------
(* The invariant is kept.                                                  *)

(* A merge brings no version of a key that has none.                       *)
LEMMA AbsentMerged ==
  ASSUME Shape, NEW i \in Levels, Merge(i, Content(i - 1)), NEW k \in Keys,
         IF i = 1 THEN buffer'[k] = None ELSE buffer' = buffer,
         \A p \in 0 .. MAX_LEVELS : Version(p, k) = None
  PROVE  \A p \in 0 .. MAX_LEVELS : Version(p, k)' = None
<1> SUFFICES ASSUME NEW p \in 0 .. MAX_LEVELS PROVE Version(p, k)' = None
  OBVIOUS
<1>1. Moved(i, p) => p - 1 \in 0 .. MAX_LEVELS
  BY ParametersAssumption DEF Moved, Levels
<1> QED
  BY <1>1, VersionAfter DEF Merged

LEMMA AbsentInserted ==
  ASSUME Shape, NEW k \in Keys, NEW v \in Stored, Insert(k, v), NEW l \in Keys, l # k,
         \A p \in 0 .. MAX_LEVELS : Version(p, l) = None
  PROVE  \A p \in 0 .. MAX_LEVELS : Version(p, l)' = None
<1>1. 1 \in Levels /\ Content(1 - 1) = buffer
  BY ParametersAssumption DEF Levels, Content
<1>2. CASE buffer' = [buffer EXCEPT ![k] = v] /\ UNCHANGED disk
  <2>1. buffer'[l] = buffer[l]
    BY <1>2 DEF Shape, TypeOK, Run
  <2> QED
    BY <1>2, <2>1, VersionSame
<1>3. CASE Merge(1, buffer) /\ buffer' = [Empty EXCEPT ![k] = v]
  <2>1. buffer'[l] = None
    BY <1>3 DEF Empty
  <2> QED
    BY <1>1, <1>3, <2>1, AbsentMerged
<1> QED
  BY <1>2, <1>3 DEF Insert

LEMMA LineIsStep == [ExecuteLine]_<<vars, line>> => [Next]_vars
BY DEF ExecuteLine, Next, Command

LEMMA UnputKept ==
  ASSUME Shape, UnputAbsent, [ExecuteLine]_<<vars, line>>
  PROVE  UnputAbsent'
<1> SUFFICES ASSUME NEW l \in UndeletedKeys, store'[l] = None
             PROVE  \A p \in 0 .. MAX_LEVELS : Version(p, l)' = None
  BY DEF UnputAbsent, UndeletedKeys
<1>1. /\ 1 \in Levels /\ Content(1 - 1) = buffer
      /\ l \in Keys /\ l \notin DeletableKeys
      /\ store \in [Keys -> Vals \cup {None}]
  BY ParametersAssumption DEF Levels, Content, UndeletedKeys, Shape, TypeOK
<1>2. ASSUME NEW k \in Keys, NEW v \in Vals, Put(k, v)
      PROVE  \A p \in 0 .. MAX_LEVELS : Version(p, l)' = None
  <2>1. store' = [store EXCEPT ![k] = v] /\ Insert(k, v) /\ v \in Stored /\ v # None
    BY <1>2, ValuesAssumption DEF Put, Stored
  <2>2. l # k /\ store[l] = None
    BY <1>1, <2>1
  <2> QED
    BY <1>1, <2>1, <2>2, AbsentInserted DEF UnputAbsent
<1>3. ASSUME NEW k \in DeletableKeys, Delete(k)
      PROVE  \A p \in 0 .. MAX_LEVELS : Version(p, l)' = None
  <2>1. /\ k \in Keys /\ DELETED_FLAG \in Stored /\ l # k
        /\ store' = [store EXCEPT ![k] = None] /\ Insert(k, DELETED_FLAG)
    BY <1>1, <1>3, ParametersAssumption DEF Delete, Insert, Stored
  <2>2. store[l] = None
    BY <1>1, <2>1
  <2> QED
    BY <1>1, <2>1, <2>2, AbsentInserted DEF UnputAbsent
<1>4. ASSUME Merge(1, buffer), buffer' = Empty, UNCHANGED store
      PROVE  \A p \in 0 .. MAX_LEVELS : Version(p, l)' = None
  BY <1>1, <1>4, AbsentMerged DEF Empty, UnputAbsent
<1>5. ASSUME NEW i \in 1 .. (MAX_LEVELS - 1), MergeLevel(i)
      PROVE  \A p \in 0 .. MAX_LEVELS : Version(p, l)' = None
  <2>1. i + 1 \in Levels /\ i + 1 # 1 /\ Content((i + 1) - 1) = Level(i)
    BY ParametersAssumption DEF Levels, Content
  <2> QED
    BY <1>1, <1>5, <2>1, AbsentMerged DEF MergeLevel, UnputAbsent
<1>6. ASSUME UNCHANGED <<buffer, disk, store>>
      PROVE  \A p \in 0 .. MAX_LEVELS : Version(p, l)' = None
  BY <1>6, VersionSame DEF UnputAbsent
<1>7. CASE UNCHANGED <<vars, line>>
  BY <1>6, <1>7 DEF vars, disk
<1> QED
  BY <1>2, <1>3, <1>4, <1>5, <1>6, <1>7 DEF ExecuteLine, Flush, Shutdown, DatabaseFull

-----------------------------------------------------------------------------
(* Refinement.                                                             *)

LEMMA InitImplements ==
  ASSUME Init, line = <<>>
  PROVE  KVInv /\ Undeleted!Init
<1>1. IInv
  BY InitShape, InitLive DEF IInv
<1>2. \A k \in Keys, i \in 0 .. MAX_LEVELS : Version(i, k) = None
  BY ParametersAssumption DEF Init, Version, Empty, Levels
<1>3. UnputAbsent
  BY <1>2 DEF UnputAbsent, UndeletedKeys
<1>4. \A k \in UndeletedKeys : get(k) = None
  BY <1>1, <1>3, AnswersAreStore DEF KVInv, Init, UndeletedKeys
<1> QED
  BY <1>1, <1>3, <1>4 DEF KVInv, Undeleted!Init, UndeletedLine

(* get() answers what the dictionary holds.                                *)
AnswersMatch == \A k \in UndeletedKeys : get(k) = store[k]

LEMMA StepImplements ==
  ASSUME AnswersMatch, AnswersMatch', Shape, [ExecuteLine]_<<vars, line>>
  PROVE  [Undeleted!Next]_<<[k \in UndeletedKeys |-> get(k)], UndeletedLine>>
<1> DEFINE db == [k \in UndeletedKeys |-> get(k)]
<1>1. /\ \A k \in UndeletedKeys : get(k) = store[k]
      /\ \A k \in UndeletedKeys : get(k)' = store'[k]
      /\ UndeletedKeys \subseteq Keys /\ UndeletedKeys \cap DeletableKeys = {}
      /\ store \in [Keys -> Vals \cup {None}]
  BY DEF AnswersMatch, UndeletedKeys, Shape, TypeOK
<1>2. ASSUME NEW k \in Keys, NEW v \in Vals, Put(k, v), line' = <<"p", k, v>>
      PROVE  Undeleted!Next
  <2>1. store' = [store EXCEPT ![k] = v]
    BY <1>2 DEF Put
  <2>2. line' # <<>> /\ line'[2] = k
    BY <1>2
  <2>3. CASE k \in UndeletedKeys
    <3>1. UndeletedLine' = <<"p", k, v>>
      BY <1>2, <2>2, <2>3 DEF UndeletedLine, UndeletedKeys
    <3>2. db' = [db EXCEPT ![k] = v]
      BY <1>1, <2>1
    <3>3. Undeleted!Put(k, v)
      BY <3>1, <3>2 DEF Undeleted!Put
    <3> QED
      BY <2>3, <3>3 DEF Undeleted!Next
  <2>4. CASE k \notin UndeletedKeys
    <3>1. UndeletedLine' = <<>>
      BY <2>2, <2>4 DEF UndeletedLine, UndeletedKeys
    <3>2. db' = db
      BY <1>1, <2>1, <2>4
    <3> QED
      BY <3>1, <3>2 DEF Undeleted!Next, Undeleted!Other
  <2> QED
    BY <2>3, <2>4
<1>3. ASSUME NEW k \in DeletableKeys, Delete(k), line' = <<"d", k>>
      PROVE  Undeleted!Next
  <2>1. store' = [store EXCEPT ![k] = None]
    BY <1>3 DEF Delete
  <2>2. line' # <<>> /\ line'[2] = k /\ k \notin UndeletedKeys
    BY <1>1, <1>3
  <2>3. UndeletedLine' = <<>>
    BY <2>2 DEF UndeletedLine, UndeletedKeys
  <2>4. db' = db
    BY <1>1, <2>1, <2>2
  <2> QED
    BY <2>3, <2>4 DEF Undeleted!Next, Undeleted!Other
<1>4. ASSUME UNCHANGED store, line' = <<>>
      PROVE  Undeleted!Next
  <2>1. UndeletedLine' = <<>>
    BY <1>4 DEF UndeletedLine
  <2>2. db' = db
    BY <1>1, <1>4
  <2> QED
    BY <2>1, <2>2 DEF Undeleted!Next, Undeleted!Other
<1>5. CASE UNCHANGED <<vars, line>>
  <2>1. UndeletedLine' = UndeletedLine
    BY <1>5 DEF UndeletedLine, UndeletedKeys
  <2>2. db' = db
    BY <1>1, <1>5 DEF vars
  <2> QED
    BY <2>1, <2>2
<1> QED
  BY <1>2, <1>3, <1>4, <1>5
  DEF ExecuteLine, Flush, MergeLevel, DatabaseFull, Shutdown

(* Every behaviour of the tree in one process is, for the keys that are    *)
(* never deleted, a behaviour of the dictionary of evaluate.py.            *)
THEOREM TreeImplementsKVMap == KVSpec => ImplementsKVMap
<1>1. Init /\ line = <<>> => KVInv /\ Undeleted!Init
  BY InitImplements
<1>2. KVInv /\ [ExecuteLine]_<<vars, line>> => KVInv'
  <2> SUFFICES ASSUME KVInv, [ExecuteLine]_<<vars, line>> PROVE KVInv'
    OBVIOUS
  <2>1. IInv'
    BY LineIsStep, NextShape, NextLive DEF KVInv, IInv
  <2>2. UnputAbsent'
    BY UnputKept DEF KVInv, IInv
  <2> QED
    BY <2>1, <2>2 DEF KVInv
<1>3. KVInv => AnswersMatch /\ Shape
  BY AnswersAreStore DEF AnswersMatch, KVInv, IInv
<1>4. AnswersMatch /\ AnswersMatch' /\ Shape /\ [ExecuteLine]_<<vars, line>>
        => [Undeleted!Next]_<<[k \in UndeletedKeys |-> get(k)], UndeletedLine>>
  BY StepImplements
<1> QED
  BY <1>1, <1>2, <1>3, <1>4, PTL DEF KVSpec, ImplementsKVMap, Undeleted!Spec
=============================================================================
