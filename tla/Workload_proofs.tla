-------------------------- MODULE Workload_proofs --------------------------
(***************************************************************************)
(* Theorems about Workload, for any keys and values and any settings: what *)
(* the generator makes, and that the commands which reach the tree through *)
(* script and files are answered as the reference program answers the      *)
(* operations.                                                             *)
(***************************************************************************)
EXTENDS Workload, SequenceTheorems, NaturalsInduction, WellFoundedInduction, TLAPS

-----------------------------------------------------------------------------
(***************************************************************************)
(* The operations of a workload, the lines of a script and the records of  *)
(* a file.                                                                 *)
(***************************************************************************)
Puts == [op : {"put"}, key : RandomKeys, value : RandomVals]
Gets == [op : {"get"}, key : RandomKeys]
RangeQueries == [op : {"range"}, start : RandomKeys, end : RandomKeys]
Deletes == [op : {"delete"}, key : RandomKeys]
Lines == Puts \cup Gets \cup RangeQueries \cup Deletes

Recorded == files \in Seq(Seq(Puts)) /\ operations \in Seq(Lines)

(* What the generator has in its pool was put.                             *)
PoolWasPut ==
  \A p \in DOMAIN old_puts_pool : \E m \in DOMAIN operations :
     operations[m].op = "put" /\ operations[m].key = old_puts_pool[p]

Counting == /\ asked \in [Operations -> Nat] /\ <<asked, external_puts>> \in Settings
            /\ external_puts \in BOOLEAN
            /\ current \in [Operations -> Nat]
            /\ \A op \in Operations : current[op] <= asked[op]
            /\ prev_operation \in Operations \cup {nobody}

Pools == old_puts_pool \in Seq(RandomKeys) /\ old_gets_pool \in Seq(RandomKeys)

GInv == Counting /\ Pools /\ Recorded /\ PoolWasPut /\ NothingUnset /\ DeletesKnownKeys

-----------------------------------------------------------------------------
(* Sequences.                                                              *)
LEMMA EmptyLength ==
  ASSUME NEW S, NEW s \in Seq(S), Len(s) = 0
  PROVE  s = <<>>
BY EmptySeq

LEMMA AppendFacts ==
  ASSUME NEW S, NEW s \in Seq(S), NEW e \in S
  PROVE  /\ Append(s, e) \in Seq(S) /\ Append(s, e) # <<>>
         /\ Len(s) \in Nat /\ DOMAIN s = 1 .. Len(s)
         /\ Len(Append(s, e)) = Len(s) + 1 /\ DOMAIN Append(s, e) = 1 .. (Len(s) + 1)
         /\ \A i \in 1 .. Len(s) : Append(s, e)[i] = s[i] /\ i \in 1 .. (Len(s) + 1)
         /\ Append(s, e)[Len(s) + 1] = e /\ Len(s) + 1 \in 1 .. (Len(s) + 1)
<1>1. Len(s) \in Nat /\ DOMAIN s = 1 .. Len(s)
  BY LenProperties
<1>2. Append(s, e) \in Seq(S) /\ Len(Append(s, e)) = Len(s) + 1
  BY AppendProperties
<1>3. /\ \A i \in 1 .. Len(s) : Append(s, e)[i] = s[i]
      /\ Append(s, e)[Len(s) + 1] = e
  BY AppendProperties
<1>4. DOMAIN Append(s, e) = 1 .. (Len(s) + 1)
  BY <1>2, LenProperties
<1>5. Append(s, e) # <<>>
  BY AppendProperties
<1>6. (\A i \in 1 .. Len(s) : i \in 1 .. (Len(s) + 1)) /\ Len(s) + 1 \in 1 .. (Len(s) + 1)
  BY <1>1
<1> QED
  BY <1>1, <1>2, <1>3, <1>4, <1>5, <1>6

(* A pool keeps its keys, but for those replaced, and gets one more.       *)
LEMMA PooledType ==
  ASSUME NEW pool \in Seq(RandomKeys), NEW k \in RandomKeys, NEW size,
         NEW new \in Pooled(pool, k, size)
  PROVE  /\ new \in Seq(RandomKeys)
         /\ \A p \in DOMAIN new : new[p] = k \/ \E q \in DOMAIN pool : new[p] = pool[q]
<1>1. CASE new = Append(pool, k)
  <2>1. \A p \in 1 .. (Len(pool) + 1) : p = Len(pool) + 1 \/ p \in 1 .. Len(pool)
    BY AppendFacts
  <2> QED
    BY <1>1, <2>1, AppendFacts
<1>2. CASE \E p \in DOMAIN pool : new = [pool EXCEPT ![p] = k]
  <2>1. PICK q \in DOMAIN pool : new = [pool EXCEPT ![q] = k]
    BY <1>2
  <2>2. q \in 1 .. Len(pool) /\ DOMAIN pool = 1 .. Len(pool)
    BY LenProperties
  <2>3. new \in Seq(RandomKeys)
    BY <2>1, <2>2, ExceptSeq
  <2> QED
    BY <2>1, <2>3
<1>3. new = Append(pool, k) \/ \E p \in DOMAIN pool : new = [pool EXCEPT ![p] = k]
  BY DEF Pooled
<1> QED
  BY <1>1, <1>2, <1>3

(* A key drawn from a pool.                                                *)
LEMMA DrawnFrom ==
  ASSUME NEW pool \in Seq(RandomKeys), NEW k \in Range(pool)
  PROVE  k \in RandomKeys /\ \E p \in DOMAIN pool : k = pool[p]
<1>1. PICK p \in DOMAIN pool : k = pool[p]
  BY DEF Range
<1>2. p \in 1 .. Len(pool)
  BY LenProperties
<1> QED
  BY <1>1, <1>2, ElementOfSeq

(* Operations made earlier stay; of the new one it is to be shown that a   *)
(* delete is of a key put before.                                          *)
LEMMA OneMoreOperation ==
  ASSUME GInv, NEW line \in Lines, operations' = Append(operations, line),
         line.op = "delete" => \E p \in DOMAIN old_puts_pool : line.key = old_puts_pool[p]
  PROVE  /\ operations' \in Seq(Lines)
         /\ DeletesKnownKeys'
         /\ \A m \in DOMAIN operations : m \in DOMAIN operations' /\ operations'[m] = operations[m]
         /\ \E m \in DOMAIN operations' : operations'[m] = line
<1>1. operations \in Seq(Lines)
  BY DEF GInv, Recorded
<1> DEFINE n == Len(operations)
<1>2. /\ operations' \in Seq(Lines) /\ n \in Nat /\ DOMAIN operations = 1 .. n
      /\ DOMAIN operations' = 1 .. (n + 1)
      /\ \A i \in 1 .. n : operations'[i] = operations[i] /\ i \in 1 .. (n + 1)
      /\ operations'[n + 1] = line /\ n + 1 \in 1 .. (n + 1)
  BY <1>1, AppendFacts
<1> HIDE DEF n
<1>3. ASSUME NEW i \in DOMAIN operations', operations'[i].op = "delete"
      PROVE  \E m \in 1 .. (i - 1) : operations'[m].op = "put" /\ operations'[m].key = operations'[i].key
  <2>1. CASE i \in 1 .. n
    <3>1. operations[i].op = "delete"
      BY <1>2, <1>3, <2>1
    <3>2. PICK m \in 1 .. (i - 1) : operations[m].op = "put" /\ operations[m].key = operations[i].key
      BY <1>2, <2>1, <3>1 DEF GInv, DeletesKnownKeys
    <3>3. m \in 1 .. n
      BY <1>2, <2>1
    <3> QED
      BY <1>2, <2>1, <3>2, <3>3
  <2>2. CASE i = n + 1
    <3>1. PICK p \in DOMAIN old_puts_pool : line.key = old_puts_pool[p]
      BY <1>2, <1>3, <2>2
    <3>2. PICK m \in DOMAIN operations : operations[m].op = "put" /\ operations[m].key = old_puts_pool[p]
      BY DEF GInv, PoolWasPut
    <3>3. m \in 1 .. n /\ m \in 1 .. (i - 1)
      BY <1>2, <2>2
    <3> QED
      BY <1>2, <2>2, <3>1, <3>2, <3>3
  <2>3. i \in 1 .. n \/ i = n + 1
    BY <1>2
  <2> QED
    BY <2>1, <2>2, <2>3
<1>4. DeletesKnownKeys'
  BY <1>3 DEF DeletesKnownKeys
<1> QED
  BY <1>2, <1>4

(* One more operation of a kind of which some remain.                      *)
LEMMA CountingKept ==
  ASSUME GInv, NEW o \in Operations, Remaining(o), UNCHANGED settings, prev_operation' = o,
         \/ current' = [current EXCEPT ![o] = @ + 1]
         \/ UNCHANGED current
  PROVE  Counting'
<1>1. /\ current \in [Operations -> Nat] /\ asked \in [Operations -> Nat]
      /\ \A p \in Operations : current[p] <= asked[p]
  BY DEF GInv, Counting
<1>2. asked' = asked /\ external_puts' = external_puts
  BY DEF settings
<1>3. CASE current' = [current EXCEPT ![o] = @ + 1]
  <2>1. current' \in [Operations -> Nat]
    BY <1>1, <1>3
  <2>2. ASSUME NEW p \in Operations
        PROVE  current'[p] <= asked[p]
    BY <1>1, <1>3 DEF Remaining
  <2> QED
    BY <1>2, <2>1, <2>2 DEF GInv, Counting
<1>4. CASE UNCHANGED current
  BY <1>2, <1>4 DEF GInv, Counting
<1> QED
  BY <1>3, <1>4

(* Keys in the pool stay keys put when operations are added.               *)
LEMMA PoolWasPutKept ==
  ASSUME GInv,
         \A m \in DOMAIN operations : m \in DOMAIN operations' /\ operations'[m] = operations[m],
         UNCHANGED old_puts_pool
  PROVE  PoolWasPut'
<1>1. ASSUME NEW p \in DOMAIN old_puts_pool
      PROVE  \E m \in DOMAIN operations' :
               operations'[m].op = "put" /\ operations'[m].key = old_puts_pool[p]
  <2>1. PICK m \in DOMAIN operations :
               operations[m].op = "put" /\ operations[m].key = old_puts_pool[p]
    BY DEF GInv, PoolWasPut
  <2>2. m \in DOMAIN operations' /\ operations'[m] = operations[m]
    OBVIOUS
  <2> QED
    BY <2>1, <2>2
<1> QED
  BY <1>1 DEF PoolWasPut

(* Any operation but a put leaves files and the pool of keys put.          *)
LEMMA WriteKeeps ==
  ASSUME GInv, NEW o \in Operations \ {"put"}, Draw(o), NEW line \in Lines, WriteLine(o, line),
         old_gets_pool' \in Seq(RandomKeys),
         line.op = "delete" => \E p \in DOMAIN old_puts_pool : line.key = old_puts_pool[p]
  PROVE  GInv'
<1>1. /\ Remaining(o) /\ UNCHANGED settings /\ prev_operation' = o
      /\ files' = files /\ old_puts_pool' = old_puts_pool
      /\ current' = [current EXCEPT ![o] = @ + 1]
      /\ operations' = Append(operations, line)
  BY DEF Draw, WriteLine, Made, Opened, Opens
<1>2. Counting'
  BY <1>1, CountingKept
<1>3. /\ operations' \in Seq(Lines)
      /\ DeletesKnownKeys'
      /\ \A m \in DOMAIN operations : m \in DOMAIN operations' /\ operations'[m] = operations[m]
  BY <1>1, OneMoreOperation
<1>4. PoolWasPut'
  BY <1>1, <1>3, PoolWasPutKept
<1>5. Pools' /\ Recorded' /\ NothingUnset'
  BY <1>1, <1>3 DEF GInv, Pools, Recorded, NothingUnset
<1> QED
  BY <1>2, <1>3, <1>4, <1>5 DEF GInv

LEMMA GetKeeps ==
  ASSUME GInv, Get
  PROVE  GInv'
<1>1. /\ old_puts_pool \in Seq(RandomKeys) /\ old_gets_pool \in Seq(RandomKeys)
      /\ Draw("get") /\ "get" \in Operations \ {"put"}
  BY DEF GInv, Pools, Get, Operations
<1>2. ASSUME NEW k \in RandomKeys, WriteLine("get", [op |-> "get", key |-> k]),
             old_gets_pool' \in Seq(RandomKeys)
      PROVE  GInv'
  <2> DEFINE line == [op |-> "get", key |-> k]
  <2>1. line \in Lines /\ line.op # "delete"
    BY DEF Lines, Gets
  <2> HIDE DEF line
  <2>2. WriteLine("get", line)
    BY <1>2 DEF line
  <2> QED
    BY <1>1, <1>2, <2>1, <2>2, WriteKeeps
<1>3. ASSUME NEW k \in Range(old_puts_pool) \cup RandomKeys,
             old_gets_pool' \in Pooled(old_gets_pool, k, PoolSize("get", MAX_OLD_GETS_POOL_SIZE)),
             WriteLine("get", [op |-> "get", key |-> k])
      PROVE  GInv'
  <2>1. k \in RandomKeys
    BY <1>1, DrawnFrom
  <2> DEFINE size == PoolSize("get", MAX_OLD_GETS_POOL_SIZE)
  <2>2. old_gets_pool' \in Pooled(old_gets_pool, k, size)
    BY <1>3
  <2> HIDE DEF size
  <2>3. old_gets_pool' \in Seq(RandomKeys)
    BY <1>1, <2>1, <2>2, PooledType
  <2> QED
    BY <1>2, <1>3, <2>1, <2>3
<1>4. ASSUME NEW k \in Range(old_gets_pool), UNCHANGED old_gets_pool,
             WriteLine("get", [op |-> "get", key |-> k])
      PROVE  GInv'
  <2>1. k \in RandomKeys
    BY <1>1, DrawnFrom
  <2> QED
    BY <1>1, <1>2, <1>4, <2>1
<1> QED
  BY <1>3, <1>4 DEF Get

LEMMA RangeKeeps ==
  ASSUME GInv, RangeQuery
  PROVE  GInv'
<1>1. PICK a \in RandomKeys, b \in RandomKeys :
        WriteLine("range", [op |-> "range", start |-> IF a < b THEN a ELSE b,
                                            end   |-> IF a < b THEN b ELSE a])
  BY DEF RangeQuery
<1> DEFINE line == [op |-> "range", start |-> IF a < b THEN a ELSE b,
                                    end   |-> IF a < b THEN b ELSE a]
<1>2. line \in Lines /\ line.op # "delete"
  BY DEF Lines, RangeQueries
<1>3. WriteLine("range", line)
  BY <1>1
<1> HIDE DEF line
<1>4. Draw("range") /\ "range" \in Operations \ {"put"} /\ old_gets_pool' \in Seq(RandomKeys)
  BY DEF GInv, Pools, RangeQuery, Operations
<1> QED
  BY <1>2, <1>3, <1>4, WriteKeeps

LEMMA DeleteKeeps ==
  ASSUME GInv, Delete
  PROVE  GInv'
<1>1. PICK k \in Range(old_puts_pool) : WriteLine("delete", [op |-> "delete", key |-> k])
  BY DEF Delete
<1>2. k \in RandomKeys /\ \E p \in DOMAIN old_puts_pool : k = old_puts_pool[p]
  BY DrawnFrom DEF GInv, Pools
<1> DEFINE line == [op |-> "delete", key |-> k]
<1>3. line \in Lines /\ \E p \in DOMAIN old_puts_pool : line.key = old_puts_pool[p]
  BY <1>2 DEF Lines, Deletes
<1>4. WriteLine("delete", line)
  BY <1>1
<1> HIDE DEF line
<1>5. Draw("delete") /\ "delete" \in Operations \ {"put"} /\ old_gets_pool' \in Seq(RandomKeys)
  BY DEF GInv, Pools, Delete, Operations
<1> QED
  BY <1>3, <1>4, <1>5, WriteKeeps

LEMMA TooEarlyKeeps ==
  ASSUME GInv, NEW o \in Operations \ {"put"}, TooEarly(o)
  PROVE  GInv'
<1>1. /\ Remaining(o) /\ UNCHANGED settings /\ prev_operation' = o
      /\ files' = files /\ UNCHANGED <<old_puts_pool, old_gets_pool, current, operations>>
  BY DEF TooEarly, Draw, Opened, Opens
<1>2. Counting'
  BY <1>1, CountingKept
<1>3. Pools' /\ Recorded' /\ PoolWasPut' /\ NothingUnset' /\ DeletesKnownKeys'
  BY <1>1 DEF GInv, Pools, Recorded, PoolWasPut, NothingUnset, DeletesKnownKeys
<1> QED
  BY <1>2, <1>3 DEF GInv

(* With puts in files, the last file is open; it is never opened without   *)
(* being written to, and the first put in a row opens one.                 *)
FileOpen == external_puts /\ prev_operation = "put" => files # <<>>

LEMMA WritePutFiles ==
  ASSUME Recorded, NothingUnset, FileOpen, external_puts \in BOOLEAN,
         NEW line \in Puts, WritePut(line)
  PROVE  /\ files' \in Seq(Seq(Puts)) /\ NothingUnset'
         /\ external_puts => files' # <<>>
<1>1. files \in Seq(Seq(Puts))
  BY DEF Recorded
<1>2. CASE external_puts
  <2> DEFINE opened == Opened("put")
             n == Len(opened)
  <2>1. opened \in Seq(Seq(Puts)) /\ n \in 1 .. n
        /\ \A i \in 1 .. n : i # n => opened[i] # <<>>
    <3>1. CASE Opens("put")
      <4>1. opened = Append(files, <<>>)
        BY <3>1 DEF Opened
      <4>2. << >> \in Seq(Puts)
        OBVIOUS
      <4>3. /\ opened \in Seq(Seq(Puts)) /\ n = Len(files) + 1 /\ Len(files) \in Nat
            /\ DOMAIN files = 1 .. Len(files)
            /\ \A i \in 1 .. Len(files) : opened[i] = files[i]
        <5> DEFINE none == << >>
        <5>1. none \in Seq(Puts)
          BY <4>2
        <5> HIDE DEF none
        <5>2. /\ Append(files, none) \in Seq(Seq(Puts)) /\ Len(files) \in Nat
              /\ DOMAIN files = 1 .. Len(files)
              /\ Len(Append(files, none)) = Len(files) + 1
              /\ \A i \in 1 .. Len(files) : Append(files, none)[i] = files[i]
          BY <1>1, <5>1, AppendFacts
        <5>3. opened = Append(files, none)
          BY <4>1 DEF none
        <5> QED
          BY <5>2, <5>3
      <4>4. n \in 1 .. n
        BY <4>3
      <4>5. ASSUME NEW i \in 1 .. n, i # n
            PROVE  opened[i] # <<>>
        <5>1. i \in 1 .. Len(files)
          BY <4>3, <4>5
        <5> QED
          BY <4>3, <5>1 DEF NothingUnset
      <4> QED
        BY <4>3, <4>4, <4>5
    <3>2. CASE ~ Opens("put")
      <4>1. opened = files /\ files # <<>>
        BY <1>2, <3>2 DEF Opened, Opens, FileOpen
      <4>2. Len(files) \in Nat /\ DOMAIN files = 1 .. Len(files) /\ Len(files) # 0
        BY <1>1, <4>1, LenProperties, EmptyLength
      <4>3. n \in 1 .. n
        BY <4>1, <4>2
      <4> QED
        BY <1>1, <4>1, <4>2, <4>3 DEF NothingUnset
    <3> QED
      BY <3>1, <3>2
  <2>2. files' = [opened EXCEPT ![n] = Append(@, line)]
    BY <1>2 DEF WritePut
  <2> HIDE DEF opened
  <2>3. n \in Nat /\ DOMAIN opened = 1 .. n
    BY <2>1, LenProperties
  <2> HIDE DEF n
  <2>4. opened[n] \in Seq(Puts)
    BY <2>1, <2>3, ElementOfSeq DEF n
  <2> DEFINE longer == Append(opened[n], line)
  <2>5. longer \in Seq(Puts) /\ longer # <<>>
    BY <2>4, AppendFacts
  <2>6. files' = [opened EXCEPT ![n] = longer]
    BY <2>2
  <2> HIDE DEF longer
  <2>7. files' \in Seq(Seq(Puts))
    BY <2>1, <2>3, <2>5, <2>6, ExceptSeq DEF n
  <2>8. DOMAIN files' = 1 .. n
    BY <2>3, <2>6
  <2>9. ASSUME NEW i \in 1 .. n
        PROVE  files'[i] # <<>>
    BY <2>1, <2>3, <2>5, <2>6
  <2>10. files' # <<>>
    BY <2>1, <2>8
  <2> QED
    BY <2>7, <2>8, <2>9, <2>10 DEF NothingUnset
<1>3. CASE ~ external_puts
  BY <1>1, <1>3 DEF WritePut, NothingUnset
<1> QED
  BY <1>2, <1>3

LEMMA PutKeeps ==
  ASSUME GInv, FileOpen, Put
  PROVE  GInv' /\ FileOpen'
<1>1. PICK k \in RandomKeys, v \in RandomVals :
        /\ WritePut([op |-> "put", key |-> k, value |-> v])
        /\ Made("put", [op |-> "put", key |-> k, value |-> v])
        /\ old_puts_pool' \in
             Pooled(old_puts_pool, k, PoolSize("put", MAX_OLD_PUTS_POOL_SIZE))
  BY DEF Put
<1> DEFINE line == [op |-> "put", key |-> k, value |-> v]
           size == PoolSize("put", MAX_OLD_PUTS_POOL_SIZE)
<1>2. line \in Puts /\ line \in Lines /\ line.op = "put" /\ line.key = k
  BY DEF Puts, Lines
<1>3. WritePut(line) /\ Made("put", line) /\ old_puts_pool' \in Pooled(old_puts_pool, k, size)
  BY <1>1
<1> HIDE DEF line, size
<1>4. /\ Remaining("put") /\ "put" \in Operations /\ prev_operation' = "put"
      /\ UNCHANGED settings /\ old_gets_pool' = old_gets_pool
      /\ current' = [current EXCEPT !["put"] = @ + 1]
      /\ operations' = Append(operations, line)
  BY <1>3 DEF Put, Operations, Made
<1>5. Counting'
  BY <1>4, CountingKept
<1>6. external_puts' = external_puts /\ external_puts \in BOOLEAN
      /\ old_puts_pool \in Seq(RandomKeys) /\ Recorded /\ NothingUnset
  BY <1>4 DEF settings, GInv, Counting, Pools
<1>7. /\ files' \in Seq(Seq(Puts)) /\ NothingUnset'
      /\ external_puts => files' # <<>>
  BY <1>2, <1>3, <1>6, WritePutFiles
<1>8. /\ old_puts_pool' \in Seq(RandomKeys)
      /\ \A p \in DOMAIN old_puts_pool' :
           old_puts_pool'[p] = k \/ \E q \in DOMAIN old_puts_pool : old_puts_pool'[p] = old_puts_pool[q]
  BY <1>3, <1>6, PooledType
<1>9. /\ operations' \in Seq(Lines)
      /\ DeletesKnownKeys'
      /\ \A m \in DOMAIN operations : m \in DOMAIN operations' /\ operations'[m] = operations[m]
      /\ \E m \in DOMAIN operations' : operations'[m] = line
  BY <1>2, <1>4, OneMoreOperation
<1>10. ASSUME NEW p \in DOMAIN old_puts_pool'
       PROVE  \E m \in DOMAIN operations' :
                operations'[m].op = "put" /\ operations'[m].key = old_puts_pool'[p]
  <2>1. CASE old_puts_pool'[p] = k
    BY <1>2, <1>9, <2>1
  <2>2. CASE \E q \in DOMAIN old_puts_pool : old_puts_pool'[p] = old_puts_pool[q]
    <3>1. PICK q \in DOMAIN old_puts_pool : old_puts_pool'[p] = old_puts_pool[q]
      BY <2>2
    <3>2. PICK m \in DOMAIN operations :
            operations[m].op = "put" /\ operations[m].key = old_puts_pool[q]
      BY DEF GInv, PoolWasPut
    <3>3. m \in DOMAIN operations' /\ operations'[m] = operations[m]
      BY <1>9
    <3> QED
      BY <3>1, <3>2, <3>3
  <2> QED
    BY <1>8, <2>1, <2>2
<1>11. PoolWasPut'
  BY <1>10 DEF PoolWasPut
<1>12. Pools' /\ Recorded' /\ FileOpen'
  BY <1>4, <1>6, <1>7, <1>8, <1>9 DEF Pools, GInv, Recorded, FileOpen
<1> QED
  BY <1>5, <1>7, <1>9, <1>11, <1>12 DEF GInv

-----------------------------------------------------------------------------
LEMMA GeneratorInit ==
  ASSUME Init
  PROVE  GInv /\ FileOpen
<1>1. PICK s \in Settings : asked = s[1] /\ external_puts = s[2]
  BY DEF Init
<1>2. /\ current = [op \in Operations |-> 0] /\ prev_operation = nobody
      /\ old_puts_pool = <<>> /\ old_gets_pool = <<>> /\ files = <<>> /\ operations = <<>>
  BY DEF Init
<1>3. s \in [Operations -> Nat] \X BOOLEAN
  BY SettingsAssumption
<1>4. <<asked, external_puts>> = s /\ asked \in [Operations -> Nat] /\ external_puts \in BOOLEAN
  BY <1>1, <1>3
<1>5. Counting
  BY <1>2, <1>4 DEF Counting
<1>6. Pools /\ Recorded /\ PoolWasPut /\ NothingUnset /\ DeletesKnownKeys
  BY <1>2 DEF Pools, Recorded, PoolWasPut, NothingUnset, DeletesKnownKeys
<1>7. FileOpen
  BY <1>2, SettingsAssumption DEF FileOpen, Operations
<1> QED
  BY <1>5, <1>6, <1>7 DEF GInv

LEMMA GeneratorNext ==
  ASSUME GInv, FileOpen, Next
  PROVE  GInv' /\ FileOpen'
<1>1. CASE Put
  BY <1>1, PutKeeps
<1>2. ASSUME prev_operation' # "put"
      PROVE  FileOpen'
  BY <1>2 DEF FileOpen
<1>3. CASE Get
  BY <1>2, <1>3, GetKeeps DEF Get, Draw
<1>4. CASE RangeQuery
  BY <1>2, <1>4, RangeKeeps DEF RangeQuery, Draw
<1>5. CASE Delete
  BY <1>2, <1>5, DeleteKeeps DEF Delete, Draw
<1>6. ASSUME NEW o \in Operations \ {"put"}, TooEarly(o)
      PROVE  GInv' /\ FileOpen'
  BY <1>2, <1>6, TooEarlyKeeps DEF TooEarly, Draw
<1> QED
  BY <1>1, <1>3, <1>4, <1>5, <1>6 DEF Next

(* What the generator keeps, whatever it draws: counters, pools and files. *)
THEOREM GeneratorInvariant == Spec => [](GInv /\ FileOpen)
<1>1. Init => GInv /\ FileOpen
  BY GeneratorInit
<1>2. GInv /\ FileOpen /\ [Next]_vars => (GInv /\ FileOpen)'
  <2>1. ASSUME GInv, FileOpen, UNCHANGED vars
        PROVE  GInv' /\ FileOpen'
    BY <2>1 DEF vars, settings, GInv, Counting, Pools, Recorded, PoolWasPut, NothingUnset,
                DeletesKnownKeys, FileOpen
  <2> QED
    BY <2>1, GeneratorNext
<1> QED
  BY <1>1, <1>2, PTL DEF Spec

(* The generator never makes more operations of a kind than it was asked   *)
(* for, and its pools hold keys, whatever it draws.                        *)
THEOREM WorkloadTypeCorrect == Spec => []TypeOK
<1>1. GInv => TypeOK
  <2>1. ASSUME GInv, NEW o \in Operations
        PROVE  current[o] \in 0 .. asked[o]
    BY <2>1 DEF GInv, Counting
  <2> QED
    BY <2>1 DEF GInv, Counting, Pools, TypeOK
<1> QED
  BY <1>1, GeneratorInvariant, PTL

(* No file is left empty, however puts and other operations alternate:     *)
(* load() never inserts a key and a value that nothing has set.            *)
THEOREM NothingUnsetCorrect == Spec => []NothingUnset
<1>1. GInv => NothingUnset
  BY DEF GInv
<1> QED
  BY <1>1, GeneratorInvariant, PTL

(* The generator deletes only keys that it put before.                     *)
THEOREM DeletesKnownCorrect == Spec => []DeletesKnownKeys
<1>1. GInv => DeletesKnownKeys
  BY DEF GInv
<1> QED
  BY <1>1, GeneratorInvariant, PTL

-----------------------------------------------------------------------------
(***************************************************************************)
(* What the fold over the lines of a workload computes, one line more at a *)
(* time.  FoldLeft is a recursive function on the subsets of the indices:  *)
(* that there is such a function is shown by building it up from that on   *)
(* fewer indices; that two of them agree, from the first index on which    *)
(* they would not.                                                         *)
(***************************************************************************)
LEMMA LeastElement ==
  ASSUME NEW S, S \subseteq Nat, S # {}
  PROVE  \E n \in S : \A m \in S : n <= m
<1> DEFINE less == {ss \in Nat \X Nat : ss[1] < ss[2]}
<1>1. IsWellFoundedOn(less, Nat)
  BY NatLessThanWellFounded DEF OpToRel
<1> HIDE DEF less
<1>2. PICK n \in S : \A m \in S : <<m, n>> \notin less
  BY <1>1, WFMin
<1>3. ASSUME NEW m \in S PROVE n <= m
  <2>1. <<m, n>> \notin less /\ m \in Nat /\ n \in Nat
    BY <1>2
  <2>2. ~ (m < n)
    BY <2>1 DEF less
  <2> QED
    BY <2>1, <2>2
<1> QED
  BY <1>3

LEMMA MaxIs ==
  ASSUME NEW s, s \subseteq Int, NEW n \in s, \A y \in s : n >= y
  PROVE  Max(s) = n
<1>1. ASSUME NEW x \in s, \A y \in s : x >= y
      PROVE  x = n
  <2>1. x >= n /\ n >= x /\ x \in Int /\ n \in Int
    BY <1>1
  <2> QED
    BY <2>1
<1>2. Max(s) \in s /\ \A y \in s : Max(s) >= y
  BY DEF Max
<1> QED
  BY <1>1, <1>2

(* A line read by the reference (b), or by the tree.                       *)
Step(b, state, line) == IF b THEN Evaluate(state, line) ELSE Execute(state, line)

Folds(b, lines, m, g) ==
  g = [s \in SUBSET (1 .. m) |->
         IF s = {} THEN Fresh ELSE Step(b, g[s \ {Max(s)}], lines[Max(s)])]

LEMMA FoldGrows ==
  ASSUME NEW b, NEW lines, NEW m \in Nat, NEW g, Folds(b, lines, m, g)
  PROVE  \E h : Folds(b, lines, m + 1, h)
<1> DEFINE h == [s \in SUBSET (1 .. (m + 1)) |->
                   IF m + 1 \in s THEN Step(b, g[s \ {m + 1}], lines[m + 1]) ELSE g[s]]
           body(s) == IF s = {} THEN Fresh ELSE Step(b, h[s \ {Max(s)}], lines[Max(s)])
<1>1. ASSUME NEW s \in SUBSET (1 .. (m + 1)), m + 1 \notin s
      PROVE  s \in SUBSET (1 .. m) /\ h[s] = g[s]
  <2>1. \A i \in s : i \in 1 .. m
    BY <1>1
  <2> QED
    BY <1>1, <2>1
<1>2. ASSUME NEW s \in SUBSET (1 .. (m + 1))
      PROVE  h[s] = body(s)
  <2>1. CASE m + 1 \in s
    <3>1. s \subseteq Int /\ \A y \in s : m + 1 >= y
      OBVIOUS
    <3>2. Max(s) = m + 1
      BY <2>1, <3>1, MaxIs
    <3> DEFINE t == s \ {m + 1}
    <3>3. t \in SUBSET (1 .. (m + 1)) /\ m + 1 \notin t
      OBVIOUS
    <3>4. h[s] = Step(b, g[t], lines[m + 1]) /\ s # {}
      BY <2>1
    <3> HIDE DEF t
    <3>5. h[t] = g[t]
      BY <1>1, <3>3
    <3> HIDE DEF h
    <3>6. body(s) = Step(b, h[t], lines[m + 1])
      BY <3>2, <3>4 DEF t
    <3> QED
      BY <3>4, <3>5, <3>6
  <2>2. CASE m + 1 \notin s
    <3>1. s \in SUBSET (1 .. m) /\ h[s] = g[s]
      BY <1>1, <2>2
    <3> DEFINE t == s \ {Max(s)}
    <3>2. t \in SUBSET (1 .. (m + 1)) /\ m + 1 \notin t
      BY <2>2
    <3>3. h[t] = g[t]
      <4> HIDE DEF t, h
      <4> QED
        BY <1>1, <3>2
    <3>4. g[s] = IF s = {} THEN Fresh ELSE Step(b, g[t], lines[Max(s)])
      BY <3>1 DEF Folds
    <3>5. body(s) = IF s = {} THEN Fresh ELSE Step(b, h[t], lines[Max(s)])
      <4> HIDE DEF h
      <4> QED
        OBVIOUS
    <3> HIDE DEF h, t, body
    <3> QED
      BY <3>1, <3>3, <3>4, <3>5
  <2> QED
    BY <2>1, <2>2
<1>3. h = [s \in SUBSET (1 .. (m + 1)) |-> body(s)]
  <2>1. h = [s \in SUBSET (1 .. (m + 1)) |-> h[s]]
    OBVIOUS
  <2> HIDE DEF h
  <2> HIDE DEF body
  <2> QED
    BY <1>2, <2>1
<1> HIDE DEF h
<1> QED
  BY <1>3 DEF Folds

LEMMA FoldExists ==
  ASSUME NEW b, NEW lines, NEW m \in Nat
  PROVE  \E g : Folds(b, lines, m, g)
<1> DEFINE Missing == {n \in Nat : ~ \E g : Folds(b, lines, n, g)}
<1>1. ASSUME Missing # {}
      PROVE  FALSE
  <2>1. PICK n \in Missing : \A i \in Missing : n <= i
    BY <1>1, LeastElement
  <2>2. CASE n = 0
    <3> DEFINE g == [s \in SUBSET (1 .. 0) |-> Fresh]
    <3>1. \A s \in SUBSET (1 .. 0) : s = {}
      OBVIOUS
    <3>2. Folds(b, lines, 0, g)
      BY <3>1 DEF Folds
    <3> QED
      BY <2>1, <2>2, <3>2
  <2>3. CASE n > 0
    <3>1. n - 1 \in Nat /\ ~ (n <= n - 1) /\ (n - 1) + 1 = n /\ n \in Nat
      BY <2>3
    <3>2. n - 1 \notin Missing
      BY <2>1, <3>1
    <3>3. PICK g : Folds(b, lines, n - 1, g)
      BY <3>1, <3>2
    <3>4. \E h : Folds(b, lines, n, h)
      BY <3>1, <3>3, FoldGrows
    <3> QED
      BY <2>1, <3>4
  <2>4. n = 0 \/ n > 0
    OBVIOUS
  <2> QED
    BY <2>2, <2>3, <2>4
<1> QED
  BY <1>1

LEMMA FoldOfRange ==
  ASSUME NEW b, NEW lines, NEW m \in Nat, NEW g, Folds(b, lines, m, g), NEW j \in 0 .. m
  PROVE  /\ j = 0 => g[1 .. j] = Fresh
         /\ j # 0 => g[1 .. j] = Step(b, g[1 .. (j - 1)], lines[j])
<1> DEFINE s == 1 .. j
<1>1. s \in SUBSET (1 .. m)
  OBVIOUS
<1>2. g[s] = IF s = {} THEN Fresh ELSE Step(b, g[s \ {Max(s)}], lines[Max(s)])
  <2> HIDE DEF s
  <2> QED
    BY <1>1 DEF Folds
<1>3. CASE j = 0
  <2>1. s = {}
    BY <1>3
  <2> QED
    BY <1>2, <1>3, <2>1
<1>4. CASE j # 0
  <2>1. j \in s /\ s \subseteq Int /\ (\A y \in s : j >= y) /\ s # {}
    BY <1>4
  <2>2. Max(s) = j
    <3> HIDE DEF s
    <3> QED
      BY <2>1, MaxIs
  <2>3. s \ {j} = 1 .. (j - 1)
    OBVIOUS
  <2> HIDE DEF s
  <2>4. g[s] = Step(b, g[1 .. (j - 1)], lines[j])
    BY <1>2, <2>1, <2>2, <2>3
  <2> QED
    BY <1>4, <2>4 DEF s
<1> QED
  BY <1>3, <1>4

LEMMA FoldOfNone ==
  ASSUME NEW b, NEW lines, NEW m \in Nat, NEW g, Folds(b, lines, m, g)
  PROVE  g[1 .. 0] = Fresh
<1> DEFINE zero == 0
<1>1. zero \in 0 .. m /\ zero = 0
  OBVIOUS
<1> HIDE DEF zero
<1>2. g[1 .. zero] = Fresh
  BY <1>1, FoldOfRange
<1> QED
  BY <1>1, <1>2

LEMMA FoldsAgree ==
  ASSUME NEW b, NEW lines, NEW m \in Nat, NEW g, Folds(b, lines, m, g),
         NEW more, NEW n \in Nat, NEW h, Folds(b, more, n, h),
         m <= n, \A i \in 1 .. m : lines[i] = more[i]
  PROVE  g[1 .. m] = h[1 .. m]
<1> DEFINE G(i) == g[1 .. i]
           H(i) == h[1 .. i]
<1>1. \A i \in 0 .. m : i # 0 => G(i) = Step(b, G(i - 1), lines[i])
  BY FoldOfRange
<1>2. \A i \in 0 .. n : i # 0 => H(i) = Step(b, H(i - 1), more[i])
  BY FoldOfRange
<1>3. G(0) = Fresh /\ H(0) = Fresh
  BY FoldOfNone
<1> HIDE DEF G, H
<1> DEFINE Bad == {j \in 0 .. m : G(j) # H(j)}
<1>4. ASSUME Bad # {}
      PROVE  FALSE
  <2>1. Bad \subseteq Nat
    OBVIOUS
  <2>2. PICK j \in Bad : \A i \in Bad : j <= i
    BY <1>4, <2>1, LeastElement
  <2>3. j \in 0 .. m /\ j \in 0 .. n /\ j \in Nat /\ G(j) # H(j)
    OBVIOUS
  <2> HIDE DEF Bad
  <2>4. CASE j = 0
    BY <1>3, <2>3, <2>4
  <2>6. CASE j # 0
    <3>1. j - 1 \in 0 .. m /\ ~ (j <= j - 1) /\ j \in 1 .. m
      BY <2>3, <2>6
    <3>2. j - 1 \notin Bad
      BY <2>2, <3>1
    <3>3. G(j - 1) = H(j - 1)
      BY <3>1, <3>2 DEF Bad
    <3>4. lines[j] = more[j]
      BY <3>1
    <3>5. G(j) = Step(b, G(j - 1), lines[j])
      BY <1>1, <2>3, <2>6
    <3>6. H(j) = Step(b, H(j - 1), more[j])
      BY <1>2, <2>3, <2>6
    <3> QED
      BY <2>3, <3>3, <3>4, <3>5, <3>6
  <2> QED
    BY <2>4, <2>6
<1>5. m \in 0 .. m
  OBVIOUS
<1>6. G(m) = H(m)
  BY <1>4, <1>5
<1> QED
  BY <1>6 DEF G, H

(* The state after some lines.                                             *)
After(b, lines) ==
  IF b THEN FoldLeft(Evaluate, Fresh, lines) ELSE FoldLeft(Execute, Fresh, lines)

LEMMA AfterIsFold ==
  ASSUME NEW b \in BOOLEAN, NEW S, NEW lines \in Seq(S)
  PROVE  /\ Len(lines) \in Nat
         /\ \E g : Folds(b, lines, Len(lines), g) /\ After(b, lines) = g[1 .. Len(lines)]
<1> DEFINE n == Len(lines)
<1>1. n \in Nat /\ DOMAIN lines = 1 .. n
  BY LenProperties
<1>2. CASE b = TRUE
  <2> DEFINE g == CHOOSE g : g = [s \in SUBSET DOMAIN lines |->
                    IF s = {} THEN Fresh ELSE Evaluate(g[s \ {Max(s)}], lines[Max(s)])]
  <2>1. FoldLeft(Evaluate, Fresh, lines) = g[DOMAIN lines]
    BY DEF FoldLeft, MapThenFoldSet
  <2>2. PICK h : Folds(b, lines, n, h)
    BY <1>1, FoldExists
  <2>3. h = [s \in SUBSET DOMAIN lines |->
               IF s = {} THEN Fresh ELSE Evaluate(h[s \ {Max(s)}], lines[Max(s)])]
    BY <1>1, <1>2, <2>2 DEF Folds, Step
  <2>4. g = [s \in SUBSET DOMAIN lines |->
               IF s = {} THEN Fresh ELSE Evaluate(g[s \ {Max(s)}], lines[Max(s)])]
    BY <2>3
  <2> HIDE DEF g
  <2>5. Folds(b, lines, n, g)
    BY <1>1, <1>2, <2>4 DEF Folds, Step
  <2>6. After(b, lines) = g[1 .. n]
    BY <1>1, <1>2, <2>1 DEF After
  <2> QED
    BY <1>1, <2>5, <2>6
<1>3. CASE b = FALSE
  <2> DEFINE g == CHOOSE g : g = [s \in SUBSET DOMAIN lines |->
                    IF s = {} THEN Fresh ELSE Execute(g[s \ {Max(s)}], lines[Max(s)])]
  <2>1. FoldLeft(Execute, Fresh, lines) = g[DOMAIN lines]
    BY DEF FoldLeft, MapThenFoldSet
  <2>2. PICK h : Folds(b, lines, n, h)
    BY <1>1, FoldExists
  <2>3. h = [s \in SUBSET DOMAIN lines |->
               IF s = {} THEN Fresh ELSE Execute(h[s \ {Max(s)}], lines[Max(s)])]
    BY <1>1, <1>3, <2>2 DEF Folds, Step
  <2>4. g = [s \in SUBSET DOMAIN lines |->
               IF s = {} THEN Fresh ELSE Execute(g[s \ {Max(s)}], lines[Max(s)])]
    BY <2>3
  <2> HIDE DEF g
  <2>5. Folds(b, lines, n, g)
    BY <1>1, <1>3, <2>4 DEF Folds, Step
  <2>6. After(b, lines) = g[1 .. n]
    BY <1>1, <1>3, <2>1 DEF After
  <2> QED
    BY <1>1, <2>5, <2>6
<1> QED
  BY <1>2, <1>3

LEMMA AfterNothing ==
  ASSUME NEW b \in BOOLEAN
  PROVE  After(b, <<>>) = Fresh
<1> DEFINE none == << >>
<1>1. none \in Seq({}) /\ Len(none) = 0
  OBVIOUS
<1> HIDE DEF none
<1>2. PICK g : Folds(b, none, 0, g) /\ After(b, none) = g[1 .. 0]
  BY <1>1, AfterIsFold
<1>3. g[1 .. 0] = Fresh
  BY <1>2, FoldOfNone
<1> QED
  BY <1>2, <1>3 DEF none

LEMMA AfterOneMore ==
  ASSUME NEW b \in BOOLEAN, NEW S, NEW lines \in Seq(S), NEW line \in S
  PROVE  After(b, Append(lines, line)) = Step(b, After(b, lines), line)
<1> DEFINE more == Append(lines, line)
           n == Len(lines)
<1>1. /\ more \in Seq(S) /\ n \in Nat /\ Len(more) = n + 1
      /\ \A i \in 1 .. n : more[i] = lines[i]
      /\ more[n + 1] = line
  BY AppendFacts
<1> HIDE DEF more
<1>2. PICK g : Folds(b, lines, n, g) /\ After(b, lines) = g[1 .. n]
  BY AfterIsFold
<1> HIDE DEF n
<1>3. PICK h : Folds(b, more, n + 1, h) /\ After(b, more) = h[1 .. (n + 1)]
  BY <1>1, AfterIsFold
<1>4. n + 1 \in Nat /\ n <= n + 1 /\ n + 1 \in 0 .. (n + 1) /\ n + 1 # 0 /\ (n + 1) - 1 = n
  BY <1>1
<1>5. g[1 .. n] = h[1 .. n]
  BY <1>1, <1>2, <1>3, <1>4, FoldsAgree
<1>6. h[1 .. (n + 1)] = Step(b, h[1 .. n], more[n + 1])
  <2> DEFINE k == n + 1
  <2>1. k \in Nat /\ k \in 0 .. k /\ k # 0 /\ k - 1 = n /\ Folds(b, more, k, h)
    BY <1>1, <1>3
  <2> HIDE DEF k
  <2>2. h[1 .. k] = Step(b, h[1 .. (k - 1)], more[k])
    BY <2>1, FoldOfRange
  <2> QED
    BY <2>1, <2>2 DEF k
<1>7. After(b, more) = Step(b, After(b, lines), line)
  BY <1>1, <1>2, <1>3, <1>5, <1>6
<1> QED
  BY <1>7 DEF more

-----------------------------------------------------------------------------
(***************************************************************************)
(* One line, read by the reference program and by the tree.                *)
(***************************************************************************)
Found == RandomVals \cup {None}
AllAnswers == Found \cup UNION {[ks -> Found] : ks \in SUBSET RandomKeys}
States == [db : [RandomKeys -> Found], answers : Seq(AllAnswers)]

(* What the tree holds for the value that a dictionary holds.              *)
Kept(v) == IF v = DELETED_FLAG THEN None ELSE v

(* The tree's dictionary and its answers are those of the reference but    *)
(* for what is deleted.                                                    *)
Agree(E, X) ==
  /\ E \in States /\ X \in States
  /\ \A k \in RandomKeys : X.db[k] = Kept(E.db[k])
  /\ X.answers = [n \in DOMAIN E.answers |-> Undeleted(E.answers[n])]

(* The values to be found between two keys.                                *)
Between(state, line) ==
  [k \in {i \in RandomKeys : state.db[i] # None /\ line.start <= i /\ i < line.end} |-> state.db[k]]

LEMMA EvaluateLine ==
  ASSUME NEW state \in States, NEW line \in Lines
  PROVE  /\ line \in Puts => Evaluate(state, line) = [db |-> [state.db EXCEPT ![line.key] = line.value],
                                                      answers |-> state.answers]
         /\ line \in Deletes => Evaluate(state, line) = [db |-> [state.db EXCEPT ![line.key] = None],
                                                         answers |-> state.answers]
         /\ line \in Gets => Evaluate(state, line) =
              [db |-> state.db, answers |-> Append(state.answers, state.db[line.key])]
         /\ line \in RangeQueries => Evaluate(state, line) =
              [db |-> state.db, answers |-> Append(state.answers, Between(state, line))]
<1>1. ASSUME NEW d, NEW a
      PROVE  /\ [state EXCEPT !.db = d] = [db |-> d, answers |-> state.answers]
             /\ [state EXCEPT !.answers = a] = [db |-> state.db, answers |-> a]
  BY DEF States
<1>2. ASSUME line \in Puts
      PROVE  Evaluate(state, line) = [db |-> [state.db EXCEPT ![line.key] = line.value],
                                      answers |-> state.answers]
  <2>1. line.op = "put"
    BY <1>2 DEF Puts
  <2>2. Evaluate(state, line) = [state EXCEPT !.db = [state.db EXCEPT ![line.key] = line.value]]
    BY <2>1 DEF Evaluate, States
  <2> QED
    BY <1>1, <2>2
<1>3. ASSUME line \in Deletes
      PROVE  Evaluate(state, line) = [db |-> [state.db EXCEPT ![line.key] = None],
                                      answers |-> state.answers]
  <2>1. line.op = "delete"
    BY <1>3 DEF Deletes
  <2>2. Evaluate(state, line) = [state EXCEPT !.db = [state.db EXCEPT ![line.key] = None]]
    BY <2>1 DEF Evaluate, States
  <2> QED
    BY <1>1, <2>2
<1>4. ASSUME line \in Gets
      PROVE  Evaluate(state, line) =
               [db |-> state.db, answers |-> Append(state.answers, state.db[line.key])]
  <2>1. line.op = "get"
    BY <1>4 DEF Gets
  <2>2. Evaluate(state, line) = [state EXCEPT !.answers = Append(state.answers, state.db[line.key])]
    BY <2>1 DEF Evaluate, States
  <2> QED
    BY <1>1, <2>2
<1>5. ASSUME line \in RangeQueries
      PROVE  Evaluate(state, line) =
               [db |-> state.db, answers |-> Append(state.answers, Between(state, line))]
  <2>1. line.op = "range"
    BY <1>5 DEF RangeQueries
  <2>2. Evaluate(state, line) = [state EXCEPT !.answers = Append(state.answers, Between(state, line))]
    BY <2>1 DEF Evaluate, States, Between
  <2> QED
    BY <1>1, <2>2
<1> QED
  BY <1>2, <1>3, <1>4, <1>5

(* The same command given to the tree: only what a put leaves differs.     *)
LEMMA ExecuteLine ==
  ASSUME NEW state \in States, NEW line \in Lines
  PROVE  /\ line \in Puts =>
              Execute(state, line) = [db |-> [state.db EXCEPT ![line.key] = Kept(line.value)],
                                      answers |-> state.answers]
         /\ line \notin Puts => Execute(state, line) = Evaluate(state, line)
<1>1. ASSUME line \notin Puts
      PROVE  line.op # "put"
  BY <1>1 DEF Lines, Gets, RangeQueries, Deletes
<1>2. CASE line \notin Puts
  BY <1>1, <1>2 DEF Execute
<1>3. CASE line \in Puts
  <2>1. line.op = "put" /\ line.key \in RandomKeys
    BY <1>3 DEF Puts
  <2>2. CASE line.value = DELETED_FLAG
    <3> DEFINE delete == [op |-> "delete", key |-> line.key]
    <3>1. delete \in Deletes /\ delete \in Lines /\ delete.key = line.key
      BY <2>1 DEF Deletes, Lines
    <3>2. Execute(state, line) = Evaluate(state, delete)
      BY <2>1, <2>2 DEF Execute
    <3> HIDE DEF delete
    <3>3. Evaluate(state, delete) = [db |-> [state.db EXCEPT ![delete.key] = None],
                                     answers |-> state.answers]
      BY <3>1, EvaluateLine
    <3> QED
      BY <1>3, <2>2, <3>1, <3>2, <3>3 DEF Kept
  <2>3. CASE line.value # DELETED_FLAG
    <3>1. Execute(state, line) = Evaluate(state, line)
      BY <2>3 DEF Execute
    <3> QED
      BY <1>3, <2>3, <3>1, EvaluateLine DEF Kept
  <2> QED
    BY <2>2, <2>3
<1> QED
  BY <1>2, <1>3

LEMMA KeptFound ==
  ASSUME NEW v \in Found
  PROVE  Kept(v) \in Found /\ Undeleted(v) = Kept(v)
BY DEF Found, Kept, Undeleted

LEMMA BetweenAnswers ==
  ASSUME NEW state \in States, NEW line
  PROVE  /\ Between(state, line) \in AllAnswers
         /\ Between(state, line) \notin Found
<1> DEFINE ks == {i \in RandomKeys : state.db[i] # None /\ line.start <= i /\ i < line.end}
<1>1. ks \in SUBSET RandomKeys /\ \A k \in ks : state.db[k] # None
  OBVIOUS
<1>2. Between(state, line) = [k \in ks |-> state.db[k]]
  BY DEF Between
<1>3. \A k \in RandomKeys : state.db[k] \in Found
  BY DEF States
<1> HIDE DEF ks
<1>4. Between(state, line) \in [ks -> RandomVals]
  BY <1>1, <1>2, <1>3 DEF Found
<1>5. Between(state, line) \in [ks -> Found]
  BY <1>1, <1>2, <1>3
<1>6. Between(state, line) \notin Found
  BY <1>1, <1>4, AnswersAssumption DEF Found
<1> QED
  BY <1>1, <1>5, <1>6 DEF AllAnswers

LEMMA EvaluateType ==
  ASSUME NEW state \in States, NEW line \in Lines
  PROVE  Evaluate(state, line) \in States
<1>1. state.db \in [RandomKeys -> Found] /\ state.answers \in Seq(AllAnswers)
  BY DEF States
<1>2. \A v \in Found : v \in AllAnswers
  BY DEF AllAnswers
<1>3. CASE line \in Puts
  <2>1. line.value \in Found
    BY <1>3 DEF Puts, Found
  <2>2. [state.db EXCEPT ![line.key] = line.value] \in [RandomKeys -> Found]
    BY <1>1, <2>1
  <2> QED
    BY <1>1, <1>3, <2>2, EvaluateLine DEF States
<1>4. CASE line \in Deletes
  <2>1. None \in Found
    BY DEF Found
  <2>2. [state.db EXCEPT ![line.key] = None] \in [RandomKeys -> Found]
    BY <1>1, <2>1
  <2> QED
    BY <1>1, <1>4, <2>2, EvaluateLine DEF States
<1>5. ASSUME NEW a \in AllAnswers,
             Evaluate(state, line) = [db |-> state.db, answers |-> Append(state.answers, a)]
      PROVE  Evaluate(state, line) \in States
  <2>1. Append(state.answers, a) \in Seq(AllAnswers)
    BY <1>1, AppendFacts
  <2> QED
    BY <1>1, <1>5, <2>1 DEF States
<1>6. CASE line \in Gets
  <2>1. line.key \in RandomKeys
    BY <1>6 DEF Gets
  <2>2. state.db[line.key] \in AllAnswers
    BY <1>1, <1>2, <2>1
  <2>3. Evaluate(state, line) = [db |-> state.db, answers |-> Append(state.answers, state.db[line.key])]
    BY <1>6, EvaluateLine
  <2> QED
    BY <1>5, <2>2, <2>3
<1>7. CASE line \in RangeQueries
  <2>1. Between(state, line) \in AllAnswers
    BY BetweenAnswers
  <2>2. Evaluate(state, line) = [db |-> state.db, answers |-> Append(state.answers, Between(state, line))]
    BY <1>7, EvaluateLine
  <2> QED
    BY <1>5, <2>1, <2>2
<1> QED
  BY <1>3, <1>4, <1>6, <1>7 DEF Lines

LEMMA ExecuteType ==
  ASSUME NEW state \in States, NEW line \in Lines
  PROVE  Execute(state, line) \in States
<1>1. CASE line \in Puts
  <2>1. state.db \in [RandomKeys -> Found] /\ state.answers \in Seq(AllAnswers)
    BY DEF States
  <2>2. line.value \in Found
    BY <1>1 DEF Puts, Found
  <2>3. Kept(line.value) \in Found
    BY <2>2, KeptFound
  <2>4. [state.db EXCEPT ![line.key] = Kept(line.value)] \in [RandomKeys -> Found]
    BY <2>1, <2>3
  <2> QED
    BY <1>1, <2>1, <2>4, ExecuteLine DEF States
<1>2. CASE line \notin Puts
  BY <1>2, ExecuteLine, EvaluateType
<1> QED
  BY <1>1, <1>2

LEMMA AnswersAppend ==
  ASSUME NEW S, NEW s \in Seq(S), NEW a \in S, NEW t,
         t = [n \in DOMAIN s |-> Undeleted(s[n])], t \in Seq(S), Undeleted(a) \in S
  PROVE  Append(t, Undeleted(a)) = [n \in DOMAIN Append(s, a) |-> Undeleted(Append(s, a)[n])]
<1> DEFINE n == Len(s)
           ss == Append(s, a)
           tt == Append(t, Undeleted(a))
<1>1. /\ ss \in Seq(S) /\ n \in Nat /\ DOMAIN s = 1 .. n /\ DOMAIN ss = 1 .. (n + 1)
      /\ \A i \in 1 .. n : ss[i] = s[i]
      /\ ss[n + 1] = a
  BY AppendFacts
<1>2. DOMAIN t = 1 .. n /\ \A i \in 1 .. n : t[i] = Undeleted(s[i])
  BY <1>1
<1>3. Len(t) = n
  BY <1>1, <1>2, LenProperties
<1>4. /\ tt \in Seq(S) /\ DOMAIN tt = 1 .. (n + 1)
      /\ \A i \in 1 .. n : tt[i] = t[i]
      /\ tt[n + 1] = Undeleted(a)
  <2> DEFINE u == Undeleted(a)
  <2>1. u \in S
    OBVIOUS
  <2> HIDE DEF u
  <2>2. /\ Append(t, u) \in Seq(S) /\ DOMAIN Append(t, u) = 1 .. (Len(t) + 1)
        /\ \A i \in 1 .. Len(t) : Append(t, u)[i] = t[i]
        /\ Append(t, u)[Len(t) + 1] = u
    BY <2>1, AppendFacts
  <2> QED
    BY <1>3, <2>2 DEF u
<1>5. tt = [i \in DOMAIN tt |-> tt[i]]
  <2> HIDE DEF tt
  <2>1. tt = [i \in 1 .. Len(tt) |-> tt[i]] /\ DOMAIN tt = 1 .. Len(tt)
    BY <1>4
  <2> QED
    BY <2>1
<1> HIDE DEF ss, tt, n
<1>6. ASSUME NEW i \in 1 .. (n + 1)
      PROVE  tt[i] = Undeleted(ss[i])
  <2>1. CASE i = n + 1
    BY <1>1, <1>4, <2>1
  <2>2. CASE i \in 1 .. n
    BY <1>1, <1>2, <1>4, <2>2
  <2>3. i = n + 1 \/ i \in 1 .. n
    BY <1>1
  <2> QED
    BY <2>1, <2>2, <2>3
<1>7. tt = [i \in DOMAIN ss |-> Undeleted(ss[i])]
  BY <1>1, <1>4, <1>5, <1>6
<1> QED
  BY <1>7 DEF ss, tt

(* The values that a tree finds between two keys are those of the          *)
(* reference that do not mean "deleted".                                   *)
LEMMA BetweenAgrees ==
  ASSUME NEW E, NEW X, Agree(E, X), NEW line
  PROVE  Between(X, line) = Undeleted(Between(E, line))
<1>1. E \in States /\ \A k \in RandomKeys : X.db[k] = Kept(E.db[k])
  BY DEF Agree
<1> DEFINE answer == Between(E, line)
           held == {k \in DOMAIN answer : answer[k] # DELETED_FLAG}
           ks == {i \in RandomKeys : X.db[i] # None /\ line.start <= i /\ i < line.end}
<1>2. /\ DOMAIN answer = {i \in RandomKeys : E.db[i] # None /\ line.start <= i /\ i < line.end}
      /\ \A k \in DOMAIN answer : answer[k] = E.db[k]
  BY DEF Between
<1>3. answer \notin Found
  BY <1>1, BetweenAnswers
<1> HIDE DEF answer
<1>4. Undeleted(answer) = [k \in held |-> answer[k]]
  BY <1>3 DEF Undeleted, Restrict, Found
<1>5. ASSUME NEW k \in RandomKeys
      PROVE  k \in ks <=> k \in held
  BY <1>1, <1>2 DEF Kept
<1>6. ks = held
  BY <1>2, <1>5
<1>7. ASSUME NEW k \in ks
      PROVE  X.db[k] = answer[k]
  BY <1>1, <1>2, <1>6, <1>7 DEF Kept
<1>8. Between(X, line) = [k \in ks |-> X.db[k]]
  BY DEF Between
<1> HIDE DEF ks, held
<1>9. Between(X, line) = Undeleted(answer)
  BY <1>4, <1>6, <1>7, <1>8
<1> QED
  BY <1>9 DEF answer

(* A line keeps the agreement of tree and reference.                       *)
LEMMA StepsAgree ==
  ASSUME NEW E, NEW X, Agree(E, X), NEW line \in Lines
  PROVE  Agree(Evaluate(E, line), Execute(X, line))
<1>1. /\ E \in States /\ X \in States
      /\ \A k \in RandomKeys : X.db[k] = Kept(E.db[k])
      /\ X.answers = [n \in DOMAIN E.answers |-> Undeleted(E.answers[n])]
  BY DEF Agree
<1>2. /\ E.db \in [RandomKeys -> Found] /\ X.db \in [RandomKeys -> Found]
      /\ E.answers \in Seq(AllAnswers) /\ X.answers \in Seq(AllAnswers)
  BY <1>1 DEF States
<1> DEFINE EE == Evaluate(E, line)
           XX == Execute(X, line)
<1>3. EE \in States /\ XX \in States
  BY <1>1, EvaluateType, ExecuteType
<1>4. ASSUME NEW d, NEW x,
             EE = [db |-> [E.db EXCEPT ![line.key] = d], answers |-> E.answers],
             XX = [db |-> [X.db EXCEPT ![line.key] = x], answers |-> X.answers],
             x = Kept(d), line.key \in RandomKeys
      PROVE  Agree(EE, XX)
  <2>1. EE.db = [E.db EXCEPT ![line.key] = d] /\ XX.db = [X.db EXCEPT ![line.key] = x]
    BY <1>4
  <2>2. ASSUME NEW k \in RandomKeys
        PROVE  XX.db[k] = Kept(EE.db[k])
    <3> HIDE DEF EE, XX
    <3>1. CASE k = line.key
      BY <1>2, <1>4, <2>1, <3>1
    <3>2. CASE k # line.key
      BY <1>1, <1>2, <2>1, <3>2
    <3> QED
      BY <3>1, <3>2
  <2>3. EE.answers = E.answers /\ XX.answers = X.answers
    BY <1>4
  <2> HIDE DEF EE, XX
  <2>4. XX.answers = [n \in DOMAIN EE.answers |-> Undeleted(EE.answers[n])]
    BY <1>1, <2>3
  <2> QED
    BY <1>3, <2>2, <2>4 DEF Agree
<1>5. ASSUME NEW a \in AllAnswers, NEW x \in AllAnswers, x = Undeleted(a),
             EE = [db |-> E.db, answers |-> Append(E.answers, a)],
             XX = [db |-> X.db, answers |-> Append(X.answers, x)]
      PROVE  Agree(EE, XX)
  <2>1. /\ EE.db = E.db /\ XX.db = X.db
        /\ EE.answers = Append(E.answers, a) /\ XX.answers = Append(X.answers, x)
    BY <1>5
  <2> DEFINE s == E.answers
             t == X.answers
  <2>2. s \in Seq(AllAnswers) /\ t \in Seq(AllAnswers) /\ t = [n \in DOMAIN s |-> Undeleted(s[n])]
    BY <1>1, <1>2
  <2> HIDE DEF s, t
  <2>3. Append(t, x) = [n \in DOMAIN Append(s, a) |-> Undeleted(Append(s, a)[n])]
    BY <1>5, <2>2, AnswersAppend
  <2> HIDE DEF EE, XX
  <2>4. EE.answers = Append(s, a) /\ XX.answers = Append(t, x)
    BY <2>1 DEF s, t
  <2>5. XX.answers = [n \in DOMAIN EE.answers |-> Undeleted(EE.answers[n])]
    BY <2>3, <2>4
  <2>6. \A k \in RandomKeys : XX.db[k] = Kept(EE.db[k])
    BY <1>1, <2>1
  <2> QED
    BY <1>3, <2>5, <2>6 DEF Agree
<1>6. CASE line \in Puts
  <2>1. line.key \in RandomKeys
    BY <1>6 DEF Puts
  <2> DEFINE d == line.value
             x == Kept(line.value)
  <2>2. /\ EE = [db |-> [E.db EXCEPT ![line.key] = d], answers |-> E.answers]
        /\ XX = [db |-> [X.db EXCEPT ![line.key] = x], answers |-> X.answers]
        /\ x = Kept(d)
    BY <1>1, <1>6, EvaluateLine, ExecuteLine
  <2> HIDE DEF d, x, EE, XX
  <2>3. Agree(EE, XX)
    BY <1>4, <2>1, <2>2
  <2> QED
    BY <2>3 DEF EE, XX
<1>7. CASE line \in Deletes
  <2>1. line.key \in RandomKeys /\ line \notin Puts
    BY <1>7 DEF Deletes, Puts
  <2> DEFINE none == None
             kept == Kept(None)
  <2>2. kept = none
    BY DEF Kept
  <2>3. /\ EE = [db |-> [E.db EXCEPT ![line.key] = none], answers |-> E.answers]
        /\ XX = [db |-> [X.db EXCEPT ![line.key] = none], answers |-> X.answers]
    BY <1>1, <1>7, <2>1, EvaluateLine, ExecuteLine
  <2>4. none = Kept(none)
    BY <2>2
  <2> HIDE DEF none, EE, XX
  <2>5. Agree(EE, XX)
    BY <1>4, <2>1, <2>3, <2>4
  <2> QED
    BY <2>5 DEF EE, XX
<1>8. CASE line \in Gets
  <2>1. line.key \in RandomKeys /\ line \notin Puts
    BY <1>8 DEF Gets, Puts
  <2> DEFINE a == E.db[line.key]
             x == X.db[line.key]
  <2>2. a \in Found /\ x = Kept(a)
    BY <1>1, <1>2, <2>1
  <2>3. /\ EE = [db |-> E.db, answers |-> Append(E.answers, a)]
        /\ XX = [db |-> X.db, answers |-> Append(X.answers, x)]
    BY <1>1, <1>8, <2>1, EvaluateLine, ExecuteLine
  <2> HIDE DEF a, x, EE, XX
  <2>4. x \in Found /\ x = Undeleted(a)
    BY <2>2, KeptFound
  <2>5. a \in AllAnswers /\ x \in AllAnswers
    BY <2>2, <2>4 DEF AllAnswers
  <2>6. Agree(EE, XX)
    BY <1>5, <2>3, <2>4, <2>5
  <2> QED
    BY <2>6 DEF EE, XX
<1>9. CASE line \in RangeQueries
  <2>1. line \notin Puts
    BY <1>9 DEF RangeQueries, Puts
  <2> DEFINE a == Between(E, line)
             x == Between(X, line)
  <2>2. a \in AllAnswers /\ x \in AllAnswers /\ x = Undeleted(a)
    BY <1>1, BetweenAnswers, BetweenAgrees
  <2>3. /\ EE = [db |-> E.db, answers |-> Append(E.answers, a)]
        /\ XX = [db |-> X.db, answers |-> Append(X.answers, x)]
    BY <1>1, <1>9, <2>1, EvaluateLine, ExecuteLine
  <2> HIDE DEF a, x, EE, XX
  <2>4. Agree(EE, XX)
    BY <1>5, <2>2, <2>3
  <2> QED
    BY <2>4 DEF EE, XX
<1> QED
  BY <1>6, <1>7, <1>8, <1>9 DEF Lines

LEMMA FreshAgrees ==
  Agree(Fresh, Fresh)
<1>1. None \in Found /\ Kept(None) = None
  BY DEF Found, Kept
<1>2. Fresh \in States
  BY <1>1 DEF Fresh, States
<1>3. /\ \A k \in RandomKeys : Fresh.db[k] = None
      /\ Fresh.answers = <<>>
  BY DEF Fresh
<1>4. Fresh.answers = [n \in DOMAIN Fresh.answers |-> Undeleted(Fresh.answers[n])]
  BY <1>3
<1> QED
  BY <1>1, <1>2, <1>3, <1>4 DEF Agree

(* Executed once more, a put changes nothing.                              *)
LEMMA PutAgain ==
  ASSUME NEW state \in States, NEW line \in Puts
  PROVE  Execute(Execute(state, line), line) = Execute(state, line)
<1>1. line \in Lines /\ line.key \in RandomKeys
  BY DEF Lines, Puts
<1> DEFINE v == Kept(line.value)
           d == [state.db EXCEPT ![line.key] = v]
           new == Execute(state, line)
<1>2. new \in States
  BY <1>1, ExecuteType
<1>3. new = [db |-> d, answers |-> state.answers]
  BY <1>1, ExecuteLine
<1>4. new.db = d /\ new.answers = state.answers
  BY <1>3
<1>5. Execute(new, line) = [db |-> [new.db EXCEPT ![line.key] = v], answers |-> new.answers]
  <2> HIDE DEF new
  <2> QED
    BY <1>1, <1>2, ExecuteLine
<1>6. [d EXCEPT ![line.key] = v] = d
  <2>1. state.db \in [RandomKeys -> Found]
    BY DEF States
  <2> QED
    BY <1>1, <2>1
<1> HIDE DEF new, d, v
<1>7. Execute(new, line) = new
  BY <1>3, <1>4, <1>5, <1>6
<1> QED
  BY <1>7 DEF new

-----------------------------------------------------------------------------
(***************************************************************************)
(* The concatenation of one sequence more.                                 *)
(***************************************************************************)
Flattens(seqs, m, f) ==
  f = [i \in 1 .. m |-> IF i = 1 THEN seqs[i] ELSE f[i - 1] \o seqs[i]]

LEMMA FlatteningGrows ==
  ASSUME NEW seqs, NEW m \in Nat, NEW f, Flattens(seqs, m, f)
  PROVE  \E h : Flattens(seqs, m + 1, h)
<1> DEFINE last == IF m = 0 THEN seqs[1] ELSE f[m] \o seqs[m + 1]
           h == [i \in 1 .. (m + 1) |-> IF i = m + 1 THEN last ELSE f[i]]
<1>1. \A i \in 1 .. m : f[i] = IF i = 1 THEN seqs[i] ELSE f[i - 1] \o seqs[i]
  BY DEF Flattens
<1>2. \A i \in 1 .. m : h[i] = f[i] /\ i # m + 1
  OBVIOUS
<1>3. h[m + 1] = last
  OBVIOUS
<1>4. h = [i \in 1 .. (m + 1) |-> h[i]]
  OBVIOUS
<1> HIDE DEF h
<1>5. ASSUME NEW i \in 1 .. (m + 1)
      PROVE  h[i] = IF i = 1 THEN seqs[i] ELSE h[i - 1] \o seqs[i]
  <2>1. CASE i = m + 1 /\ m = 0
    BY <1>3, <2>1
  <2>2. CASE i = m + 1 /\ m # 0
    <3>1. m \in 1 .. m /\ i - 1 = m /\ i # 1
      BY <2>2
    <3>2. h[i - 1] = f[m]
      BY <1>2, <3>1
    <3> QED
      BY <1>3, <2>2, <3>1, <3>2
  <2>3. CASE i # m + 1
    <3>1. i \in 1 .. m
      BY <2>3
    <3>2. CASE i = 1
      BY <1>1, <1>2, <3>1, <3>2
    <3>3. CASE i # 1
      <4>1. i - 1 \in 1 .. m
        BY <3>1, <3>3
      <4>2. h[i - 1] = f[i - 1] /\ h[i] = f[i] /\ f[i] = f[i - 1] \o seqs[i]
        BY <1>1, <1>2, <3>1, <3>3, <4>1
      <4> QED
        BY <3>3, <4>2
    <3> QED
      BY <3>2, <3>3
  <2> QED
    BY <2>1, <2>2, <2>3
<1>6. Flattens(seqs, m + 1, h)
  BY <1>4, <1>5 DEF Flattens
<1> QED
  BY <1>6

LEMMA FlatteningExists ==
  ASSUME NEW seqs, NEW m \in Nat
  PROVE  \E f : Flattens(seqs, m, f)
<1> DEFINE Missing == {n \in Nat : ~ \E f : Flattens(seqs, n, f)}
<1>1. ASSUME Missing # {}
      PROVE  FALSE
  <2>1. PICK n \in Missing : \A i \in Missing : n <= i
    BY <1>1, LeastElement
  <2>2. CASE n = 0
    <3> DEFINE f == [i \in 1 .. 0 |-> seqs]
    <3>1. Flattens(seqs, 0, f)
      BY DEF Flattens
    <3> QED
      BY <2>1, <2>2, <3>1
  <2>3. CASE n > 0
    <3>1. n - 1 \in Nat /\ ~ (n <= n - 1) /\ (n - 1) + 1 = n /\ n \in Nat
      BY <2>3
    <3>2. n - 1 \notin Missing
      BY <2>1, <3>1
    <3>3. PICK f : Flattens(seqs, n - 1, f)
      BY <3>1, <3>2
    <3>4. \E h : Flattens(seqs, n, h)
      BY <3>1, <3>3, FlatteningGrows
    <3> QED
      BY <2>1, <3>4
  <2>4. n = 0 \/ n > 0
    OBVIOUS
  <2> QED
    BY <2>2, <2>3, <2>4
<1> QED
  BY <1>1

LEMMA FlatteningsAgree ==
  ASSUME NEW seqs, NEW m \in Nat, NEW f, Flattens(seqs, m, f),
         NEW more, NEW n \in Nat, NEW h, Flattens(more, n, h),
         m <= n, \A i \in 1 .. m : seqs[i] = more[i], NEW j \in 1 .. m
  PROVE  f[j] = h[j]
<1> DEFINE Bad == {i \in 1 .. m : f[i] # h[i]}
<1>1. ASSUME Bad # {}
      PROVE  FALSE
  <2>1. Bad \subseteq Nat
    OBVIOUS
  <2>2. PICK i \in Bad : \A k \in Bad : i <= k
    BY <1>1, <2>1, LeastElement
  <2>3. i \in 1 .. m /\ i \in 1 .. n /\ f[i] # h[i] /\ seqs[i] = more[i]
    OBVIOUS
  <2>4. f[i] = IF i = 1 THEN seqs[i] ELSE f[i - 1] \o seqs[i]
    BY <2>3 DEF Flattens
  <2>5. h[i] = IF i = 1 THEN more[i] ELSE h[i - 1] \o more[i]
    BY <2>3 DEF Flattens
  <2>6. CASE i = 1
    BY <2>3, <2>4, <2>5, <2>6
  <2>7. CASE i # 1
    <3>1. i - 1 \in 1 .. m /\ ~ (i <= i - 1)
      BY <2>3, <2>7
    <3>2. i - 1 \notin Bad
      BY <2>2, <3>1
    <3>3. f[i - 1] = h[i - 1]
      BY <3>1, <3>2
    <3> QED
      BY <2>3, <2>4, <2>5, <2>7, <3>3
  <2> QED
    BY <2>6, <2>7
<1> QED
  BY <1>1

LEMMA FlatteningType ==
  ASSUME NEW S, NEW seqs, NEW m \in Nat, NEW f, Flattens(seqs, m, f),
         \A i \in 1 .. m : seqs[i] \in Seq(S), NEW j \in 1 .. m
  PROVE  f[j] \in Seq(S)
<1> DEFINE Bad == {i \in 1 .. m : f[i] \notin Seq(S)}
<1>1. ASSUME Bad # {}
      PROVE  FALSE
  <2>1. Bad \subseteq Nat
    OBVIOUS
  <2>2. PICK i \in Bad : \A k \in Bad : i <= k
    BY <1>1, <2>1, LeastElement
  <2>3. i \in 1 .. m /\ f[i] \notin Seq(S) /\ seqs[i] \in Seq(S)
    OBVIOUS
  <2>4. f[i] = IF i = 1 THEN seqs[i] ELSE f[i - 1] \o seqs[i]
    BY <2>3 DEF Flattens
  <2>5. CASE i = 1
    BY <2>3, <2>4, <2>5
  <2>6. CASE i # 1
    <3>1. i - 1 \in 1 .. m /\ ~ (i <= i - 1)
      BY <2>3, <2>6
    <3>2. i - 1 \notin Bad
      BY <2>2, <3>1
    <3>3. f[i - 1] \in Seq(S)
      BY <3>1, <3>2
    <3>4. f[i - 1] \o seqs[i] \in Seq(S)
      BY <2>3, <3>3, ConcatProperties
    <3> QED
      BY <2>3, <2>4, <2>6, <3>4
  <2> QED
    BY <2>5, <2>6
<1> QED
  BY <1>1

LEMMA FlattenIs ==
  ASSUME NEW S, NEW seqs \in Seq(Seq(S))
  PROVE  /\ Len(seqs) \in Nat
         /\ Len(seqs) = 0 => FlattenSeq(seqs) = <<>>
         /\ Len(seqs) > 0 => \E f : /\ Flattens(seqs, Len(seqs), f)
                                    /\ FlattenSeq(seqs) = f[Len(seqs)]
<1> DEFINE f == CHOOSE f : f = [i \in 1 .. Len(seqs) |-> IF i = 1 THEN seqs[i] ELSE f[i - 1] \o seqs[i]]
<1>1. FlattenSeq(seqs) = IF Len(seqs) = 0 THEN seqs ELSE f[Len(seqs)]
  BY DEF FlattenSeq
<1>2. Len(seqs) \in Nat
  BY LenProperties
<1>3. PICK g : Flattens(seqs, Len(seqs), g)
  BY <1>2, FlatteningExists
<1>4. g = [i \in 1 .. Len(seqs) |-> IF i = 1 THEN seqs[i] ELSE g[i - 1] \o seqs[i]]
  BY <1>3 DEF Flattens
<1>5. f = [i \in 1 .. Len(seqs) |-> IF i = 1 THEN seqs[i] ELSE f[i - 1] \o seqs[i]]
  BY <1>4
<1> HIDE DEF f
<1>6. Flattens(seqs, Len(seqs), f)
  BY <1>5 DEF Flattens
<1>7. Len(seqs) = 0 => seqs = <<>>
  BY EmptyLength
<1> QED
  BY <1>1, <1>2, <1>6, <1>7

LEMMA FlattenType ==
  ASSUME NEW S, NEW seqs \in Seq(Seq(S))
  PROVE  FlattenSeq(seqs) \in Seq(S)
<1> DEFINE n == Len(seqs)
<1>1. /\ n \in Nat
      /\ n = 0 => FlattenSeq(seqs) = <<>>
      /\ n > 0 => \E f : Flattens(seqs, n, f) /\ FlattenSeq(seqs) = f[n]
  BY FlattenIs
<1>2. \A i \in 1 .. n : seqs[i] \in Seq(S)
  BY <1>1, ElementOfSeq
<1> HIDE DEF n
<1>3. CASE n = 0
  BY <1>1, <1>3
<1>4. CASE n > 0
  <2>1. PICK f : Flattens(seqs, n, f) /\ FlattenSeq(seqs) = f[n]
    BY <1>1, <1>4
  <2>2. n \in 1 .. n
    BY <1>1, <1>4
  <2> QED
    BY <1>1, <1>2, <2>1, <2>2, FlatteningType
<1> QED
  BY <1>1, <1>3, <1>4

LEMMA FlattenOneMore ==
  ASSUME NEW S, NEW seqs \in Seq(Seq(S)), NEW s \in Seq(S)
  PROVE  FlattenSeq(Append(seqs, s)) = FlattenSeq(seqs) \o s
<1> DEFINE n == Len(seqs)
           more == Append(seqs, s)
           k == n + 1
<1>1. /\ more \in Seq(Seq(S)) /\ n \in Nat /\ Len(more) = n + 1
      /\ \A i \in 1 .. n : more[i] = seqs[i]
      /\ more[n + 1] = s
  BY AppendFacts
<1> HIDE DEF more
<1>2. /\ n = 0 => FlattenSeq(seqs) = <<>>
      /\ n > 0 => \E f : Flattens(seqs, n, f) /\ FlattenSeq(seqs) = f[n]
  BY FlattenIs
<1>3. k \in Nat /\ k > 0 /\ k \in 1 .. k /\ Len(more) = k /\ more[k] = s /\ n <= k /\ k - 1 = n
  BY <1>1
<1> HIDE DEF n, k
<1>4. PICK h : Flattens(more, k, h) /\ FlattenSeq(more) = h[k]
  BY <1>1, <1>3, FlattenIs
<1>5. h[k] = IF k = 1 THEN more[k] ELSE h[k - 1] \o more[k]
  BY <1>3, <1>4 DEF Flattens
<1>6. CASE n = 0
  <2>1. k = 1 /\ FlattenSeq(seqs) = <<>>
    BY <1>2, <1>3, <1>6
  <2>2. << >> \o s = s
    BY ConcatEmptySeq
  <2> QED
    BY <1>3, <1>4, <1>5, <2>1, <2>2 DEF more
<1>7. CASE n > 0
  <2>1. PICK f : Flattens(seqs, n, f) /\ FlattenSeq(seqs) = f[n]
    BY <1>2, <1>7
  <2>2. n \in 1 .. n /\ k # 1
    BY <1>1, <1>3, <1>7
  <2>3. \A i \in 1 .. n : seqs[i] = more[i]
    BY <1>1
  <2>4. f[n] = h[n]
    <3>1. n \in Nat /\ k \in Nat /\ n <= k /\ Flattens(seqs, n, f) /\ Flattens(more, k, h)
      BY <1>1, <1>3, <1>4, <2>1
    <3>2. \A j \in 1 .. n : f[j] = h[j]
      BY <2>3, <3>1, FlatteningsAgree
    <3> QED
      BY <2>2, <3>2
  <2> QED
    BY <1>3, <1>4, <1>5, <2>1, <2>2, <2>4 DEF more
<1> QED
  BY <1>1, <1>6, <1>7

-----------------------------------------------------------------------------
(***************************************************************************)
(* What script and files tell the tree.                                    *)
(***************************************************************************)
Loads == [op : {"load"}, file : Nat]

PartOf(fs, line) == IF line.op = "load" THEN load(fs[line.file]) ELSE <<line>>
PartsOf(scr, fs) == [n \in DOMAIN scr |-> PartOf(fs, scr[n])]
CommandsOf(scr, fs) == FlattenSeq(PartsOf(scr, fs))

(* A script of commands, and of files that are there and not empty.        *)
Loadable(fs, line) == line \in Lines \cup Loads /\ (line.op = "load" => line.file \in DOMAIN fs)
Readable(scr, fs) ==
  /\ fs \in Seq(Seq(Puts))
  /\ \A i \in DOMAIN fs : fs[i] # <<>>
  /\ scr \in Seq(Lines \cup Loads)
  /\ \A n \in DOMAIN scr : Loadable(fs, scr[n])

LEMMA LoadsAreNoLines ==
  ASSUME NEW line \in Lines
  PROVE  line.op # "load" /\ line \in Lines \cup Loads
BY DEF Lines, Puts, Gets, RangeQueries, Deletes

LEMMA LoadType ==
  ASSUME NEW file \in Seq(Puts), file # <<>>
  PROVE  /\ load(file) = Append(file, Last(file)) /\ Last(file) \in Puts
         /\ load(file) \in Seq(Lines) /\ file \in Seq(Lines)
<1>1. Len(file) \in 1 .. Len(file)
  BY LenProperties, EmptyLength
<1>2. Last(file) \in Puts
  BY <1>1, ElementOfSeq DEF Last
<1>3. Append(file, Last(file)) \in Seq(Puts)
  BY <1>2, AppendFacts
<1>4. Puts \subseteq Lines
  BY DEF Lines
<1>5. file \in Seq(Lines) /\ Append(file, Last(file)) \in Seq(Lines)
  BY <1>3, <1>4, SeqMonotonic
<1> QED
  BY <1>2, <1>5 DEF load

LEMMA PartType ==
  ASSUME NEW fs \in Seq(Seq(Puts)), \A i \in DOMAIN fs : fs[i] # <<>>,
         NEW line, Loadable(fs, line)
  PROVE  PartOf(fs, line) \in Seq(Lines)
<1>1. CASE line.op = "load"
  <2>1. line.file \in DOMAIN fs
    BY <1>1 DEF Loadable
  <2>2. line.file \in 1 .. Len(fs)
    BY <2>1, LenProperties
  <2>3. fs[line.file] \in Seq(Puts) /\ fs[line.file] # <<>>
    BY <2>1, <2>2, ElementOfSeq
  <2> QED
    BY <1>1, <2>3, LoadType DEF PartOf
<1>2. CASE line.op # "load"
  <2>1. line \in Lines
    BY <1>2 DEF Loadable, Loads
  <2> QED
    BY <1>2, <2>1 DEF PartOf
<1> QED
  BY <1>1, <1>2

LEMMA PartsType ==
  ASSUME NEW scr, NEW fs, Readable(scr, fs)
  PROVE  /\ PartsOf(scr, fs) \in Seq(Seq(Lines)) /\ Len(PartsOf(scr, fs)) = Len(scr)
         /\ CommandsOf(scr, fs) \in Seq(Lines)
<1>1. Len(scr) \in Nat /\ DOMAIN scr = 1 .. Len(scr)
  BY LenProperties DEF Readable
<1>2. \A n \in 1 .. Len(scr) : PartOf(fs, scr[n]) \in Seq(Lines)
  BY <1>1, PartType DEF Readable
<1> DEFINE parts == PartsOf(scr, fs)
           L == Seq(Lines)
<1>3. parts = [n \in 1 .. Len(scr) |-> PartOf(fs, scr[n])]
  BY <1>1 DEF PartsOf
<1> HIDE DEF parts, L
<1>4. parts \in [1 .. Len(scr) -> L]
  BY <1>2, <1>3 DEF L
<1>5. parts \in Seq(L) /\ Len(parts) = Len(scr)
  BY <1>1, <1>4
<1>6. FlattenSeq(parts) \in Seq(Lines)
  BY <1>5, FlattenType DEF L
<1> QED
  BY <1>5, <1>6 DEF parts, L, CommandsOf

(* One more line of the script.                                            *)
LEMMA OneMoreLine ==
  ASSUME NEW scr, NEW fs, Readable(scr, fs), NEW line, Loadable(fs, line)
  PROVE  /\ Readable(Append(scr, line), fs)
         /\ CommandsOf(Append(scr, line), fs) = CommandsOf(scr, fs) \o PartOf(fs, line)
<1> DEFINE more == Append(scr, line)
           n == Len(scr)
<1>1. line \in Lines \cup Loads /\ scr \in Seq(Lines \cup Loads)
  BY DEF Loadable, Readable
<1>2. /\ more \in Seq(Lines \cup Loads) /\ n \in Nat /\ DOMAIN scr = 1 .. n
      /\ DOMAIN more = 1 .. (n + 1) /\ Len(more) = n + 1
      /\ \A i \in 1 .. n : more[i] = scr[i]
      /\ more[n + 1] = line
  BY <1>1, AppendFacts
<1> HIDE DEF more
<1>3. ASSUME NEW i \in DOMAIN more
      PROVE  Loadable(fs, more[i])
  <2>1. i = n + 1 \/ i \in 1 .. n
    BY <1>2
  <2> QED
    BY <1>2, <2>1 DEF Readable
<1>4. Readable(more, fs)
  BY <1>2, <1>3 DEF Readable
<1> DEFINE p == PartsOf(scr, fs)
           q == PartsOf(more, fs)
           e == PartOf(fs, line)
<1>5. p \in Seq(Seq(Lines)) /\ Len(p) = n /\ q \in Seq(Seq(Lines)) /\ Len(q) = n + 1
  BY <1>2, <1>4, PartsType
<1>6. e \in Seq(Lines)
  BY PartType DEF Readable
<1>7. /\ \A i \in 1 .. n : p[i] = PartOf(fs, scr[i])
      /\ \A i \in 1 .. (n + 1) : q[i] = PartOf(fs, more[i])
  BY <1>2 DEF PartsOf
<1> HIDE DEF p, q, e
<1>8. /\ Append(p, e) \in Seq(Seq(Lines)) /\ Len(Append(p, e)) = n + 1
      /\ \A i \in 1 .. n : Append(p, e)[i] = p[i]
      /\ Append(p, e)[n + 1] = e
  BY <1>5, <1>6, AppendFacts
<1>9. ASSUME NEW i \in 1 .. (n + 1)
      PROVE  q[i] = Append(p, e)[i]
  <2>1. CASE i = n + 1
    BY <1>2, <1>7, <1>8, <2>1 DEF e
  <2>2. CASE i \in 1 .. n
    BY <1>2, <1>7, <1>8, <2>2
  <2>3. i = n + 1 \/ i \in 1 .. n
    BY <1>2
  <2> QED
    BY <2>1, <2>2, <2>3
<1>10. q = Append(p, e)
  <2> DEFINE L == Seq(Lines)
             r == Append(p, e)
  <2>1. q \in Seq(L) /\ r \in Seq(L) /\ Len(q) = Len(r) /\ \A i \in 1 .. Len(q) : q[i] = r[i]
    BY <1>5, <1>8, <1>9
  <2> HIDE DEF L, r
  <2>2. q = r
    BY <2>1, SeqEqual
  <2> QED
    BY <2>2 DEF r
<1>11. FlattenSeq(q) = FlattenSeq(p) \o e
  BY <1>5, <1>6, <1>10, FlattenOneMore
<1> QED
  BY <1>4, <1>11 DEF CommandsOf, p, q, e, more

(* Files that a script does not load make no difference.                   *)
LEMMA OtherFiles ==
  ASSUME NEW scr, NEW fs, NEW gs,
         \A n \in DOMAIN scr : scr[n].op = "load" => gs[scr[n].file] = fs[scr[n].file]
  PROVE  CommandsOf(scr, gs) = CommandsOf(scr, fs)
<1>1. \A n \in DOMAIN scr : PartOf(gs, scr[n]) = PartOf(fs, scr[n])
  BY DEF PartOf
<1>2. PartsOf(scr, gs) = PartsOf(scr, fs)
  BY <1>1 DEF PartsOf
<1> QED
  BY <1>2 DEF CommandsOf

LEMMA AppendConcat ==
  ASSUME NEW S, NEW s \in Seq(S), NEW t \in Seq(S), NEW e \in S
  PROVE  s \o Append(t, e) = Append(s \o t, e) /\ s \o t \in Seq(S)
<1> DEFINE one == <<e>>
<1>1. one \in Seq(S)
  OBVIOUS
<1>2. Append(t, e) = t \o one
  BY AppendIsConcat
<1>3. s \o t \in Seq(S)
  BY ConcatProperties
<1>4. Append(s \o t, e) = (s \o t) \o one
  BY <1>3, AppendIsConcat
<1> HIDE DEF one
<1>5. (s \o t) \o one = s \o (t \o one)
  BY <1>1, ConcatAssociative
<1> QED
  BY <1>2, <1>3, <1>4, <1>5

(* All states of the tree are of their type.                               *)
LEMMA AfterType ==
  ASSUME NEW lines \in Seq(Lines)
  PROVE  After(FALSE, lines) \in States
<1> DEFINE b == FALSE
           n == Len(lines)
<1>1. n \in Nat /\ \A i \in 1 .. n : lines[i] \in Lines
  BY LenProperties, ElementOfSeq
<1>2. b \in BOOLEAN
  OBVIOUS
<1>3. \A st, line : Step(b, st, line) = Execute(st, line)
  BY DEF Step
<1>4. After(FALSE, lines) = After(b, lines)
  OBVIOUS
<1> HIDE DEF b, n
<1>5. PICK g : Folds(b, lines, n, g) /\ After(b, lines) = g[1 .. n]
  BY <1>1, <1>2, AfterIsFold DEF n
<1> DEFINE Bad == {j \in 0 .. n : g[1 .. j] \notin States}
<1>6. ASSUME Bad # {}
      PROVE  FALSE
  <2>1. Bad \subseteq Nat
    OBVIOUS
  <2>2. PICK j \in Bad : \A i \in Bad : j <= i
    BY <1>6, <2>1, LeastElement
  <2>3. j \in 0 .. n /\ j \in Nat /\ g[1 .. j] \notin States
    OBVIOUS
  <2>4. /\ j = 0 => g[1 .. j] = Fresh
        /\ j # 0 => g[1 .. j] = Step(b, g[1 .. (j - 1)], lines[j])
    BY <1>1, <1>5, <2>3, FoldOfRange
  <2>5. Fresh \in States
    BY FreshAgrees DEF Agree
  <2>6. CASE j = 0
    BY <2>3, <2>4, <2>5, <2>6
  <2>7. CASE j # 0
    <3>1. j - 1 \in 0 .. n /\ ~ (j <= j - 1) /\ j \in 1 .. n
      BY <1>1, <2>3, <2>7
    <3>2. j - 1 \notin Bad
      BY <2>2, <3>1
    <3>3. g[1 .. (j - 1)] \in States
      BY <3>1, <3>2
    <3>4. lines[j] \in Lines
      BY <1>1, <3>1
    <3>5. Execute(g[1 .. (j - 1)], lines[j]) \in States
      BY <3>3, <3>4, ExecuteType
    <3> QED
      BY <1>3, <2>3, <2>4, <2>7, <3>5
  <2> QED
    BY <2>6, <2>7
<1>7. n \in 0 .. n
  BY <1>1
<1> QED
  BY <1>4, <1>5, <1>6, <1>7

LEMMA ExecuteOneMore ==
  ASSUME NEW lines \in Seq(Lines), NEW line \in Lines
  PROVE  After(FALSE, Append(lines, line)) = Execute(After(FALSE, lines), line)
BY AfterOneMore DEF Step

LEMMA EvaluateOneMore ==
  ASSUME NEW lines \in Seq(Lines), NEW line \in Lines
  PROVE  After(TRUE, Append(lines, line)) = Evaluate(After(TRUE, lines), line)
BY AfterOneMore DEF Step

(* The last pair of a file is put twice, as if it were put once.           *)
LEMMA AfterLoad ==
  ASSUME NEW lines \in Seq(Lines), NEW file \in Seq(Puts), file # <<>>
  PROVE  After(FALSE, lines \o load(file)) = After(FALSE, lines \o file)
<1>1. load(file) = Append(file, Last(file)) /\ Last(file) \in Puts /\ file \in Seq(Lines)
  BY LoadType
<1>2. PICK front \in Seq(Puts), e \in Puts : file = Append(front, e)
  BY SequenceEmptyOrAppend
<1>3. Last(file) = e
  BY <1>2, AppendProperties DEF Last
<1>4. e \in Lines /\ front \in Seq(Lines)
  <2>1. Puts \subseteq Lines
    BY DEF Lines
  <2> QED
    BY <2>1, SeqMonotonic
<1> DEFINE all == lines \o file
           most == lines \o front
<1>5. lines \o load(file) = Append(all, e) /\ all \in Seq(Lines)
  BY <1>1, <1>3, <1>4, AppendConcat
<1>6. all = Append(most, e) /\ most \in Seq(Lines)
  BY <1>2, <1>4, AppendConcat
<1> HIDE DEF all, most
<1>7. After(FALSE, all) = Execute(After(FALSE, most), e)
  BY <1>4, <1>6, ExecuteOneMore
<1>8. After(FALSE, Append(all, e)) = Execute(After(FALSE, all), e)
  BY <1>4, <1>5, ExecuteOneMore
<1>9. After(FALSE, most) \in States
  BY <1>6, AfterType
<1>10. Execute(After(FALSE, all), e) = After(FALSE, all)
  BY <1>7, <1>9, PutAgain
<1> QED
  BY <1>5, <1>8, <1>10 DEF all

(* One more record in the last file.                                       *)
LEMMA AfterRecord ==
  ASSUME NEW lines \in Seq(Lines), NEW file \in Seq(Puts), NEW line \in Puts
  PROVE  After(FALSE, lines \o load(Append(file, line))) =
           Execute(After(FALSE, lines \o file), line)
<1>1. Puts \subseteq Lines
  BY DEF Lines
<1>2. file \in Seq(Lines) /\ line \in Lines
  BY <1>1, SeqMonotonic
<1>3. Append(file, line) \in Seq(Puts) /\ Append(file, line) # <<>>
  BY AppendFacts
<1>4. After(FALSE, lines \o load(Append(file, line))) = After(FALSE, lines \o Append(file, line))
  BY <1>3, AfterLoad
<1>5. lines \o Append(file, line) = Append(lines \o file, line) /\ lines \o file \in Seq(Lines)
  BY <1>2, AppendConcat
<1>6. After(FALSE, Append(lines \o file, line)) = Execute(After(FALSE, lines \o file), line)
  BY <1>2, <1>5, ExecuteOneMore
<1> QED
  BY <1>4, <1>5, <1>6

LoadOf(n) == [op |-> "load", file |-> n]

(* A put that opens a file, which the next line of the script loads.       *)
LEMMA PutOpens ==
  ASSUME NEW scr, NEW fs, Readable(scr, fs), NEW line \in Puts
  PROVE  /\ Readable(Append(scr, LoadOf(Len(fs) + 1)), Append(fs, <<line>>))
         /\ Len(Append(fs, <<line>>)) = Len(fs) + 1
         /\ \A n \in DOMAIN scr : scr[n].op = "load" => scr[n].file # Len(fs) + 1
         /\ After(FALSE, CommandsOf(Append(scr, LoadOf(Len(fs) + 1)), Append(fs, <<line>>))) =
              Execute(After(FALSE, CommandsOf(scr, fs)), line)
<1> DEFINE n == Len(fs)
           one == <<line>>
           gs == Append(fs, one)
           ld == LoadOf(n + 1)
<1>1. one \in Seq(Puts) /\ one # <<>> /\ fs \in Seq(Seq(Puts))
  BY DEF Readable
<1>2. /\ gs \in Seq(Seq(Puts)) /\ n \in Nat /\ DOMAIN fs = 1 .. n /\ DOMAIN gs = 1 .. (n + 1)
      /\ \A i \in 1 .. n : gs[i] = fs[i]
      /\ gs[n + 1] = one /\ Len(gs) = n + 1
  <2> HIDE DEF one
  <2> QED
    BY <1>1, AppendFacts
<1>3. ld \in Loads /\ ld.op = "load" /\ ld.file = n + 1
  BY <1>2 DEF LoadOf, Loads
<1> HIDE DEF gs, one, ld
<1>4. \A i \in DOMAIN gs : gs[i] # <<>>
  <2>1. \A i \in 1 .. (n + 1) : i = n + 1 \/ i \in 1 .. n
    BY <1>2
  <2> QED
    BY <1>1, <1>2, <2>1 DEF Readable
<1>5. ASSUME NEW i \in DOMAIN scr, scr[i].op = "load"
      PROVE  scr[i].file \in 1 .. n
  <2>1. Loadable(fs, scr[i])
    BY DEF Readable
  <2> QED
    BY <1>2, <1>5, <2>1 DEF Loadable
<1>6. \A i \in DOMAIN scr : Loadable(gs, scr[i])
  <2>1. ASSUME NEW i \in DOMAIN scr
        PROVE  Loadable(gs, scr[i])
    <3>1. scr[i] \in Lines \cup Loads
      BY DEF Readable, Loadable
    <3>2. scr[i].op = "load" => scr[i].file \in DOMAIN gs
      BY <1>2, <1>5
    <3> QED
      BY <3>1, <3>2 DEF Loadable
  <2> QED
    BY <2>1
<1>7. Readable(scr, gs)
  BY <1>2, <1>4, <1>6 DEF Readable
<1>8. Loadable(gs, ld)
  <2>1. n + 1 \in DOMAIN gs
    BY <1>2
  <2> QED
    BY <1>3, <2>1 DEF Loadable
<1>9. /\ Readable(Append(scr, ld), gs)
      /\ CommandsOf(Append(scr, ld), gs) = CommandsOf(scr, gs) \o PartOf(gs, ld)
  BY <1>7, <1>8, OneMoreLine
<1>10. PartOf(gs, ld) = load(one)
  BY <1>2, <1>3 DEF PartOf
<1>11. CommandsOf(scr, gs) = CommandsOf(scr, fs)
  <2>1. \A i \in DOMAIN scr : scr[i].op = "load" => gs[scr[i].file] = fs[scr[i].file]
    BY <1>2, <1>5
  <2> QED
    BY <2>1, OtherFiles
<1> DEFINE C == CommandsOf(scr, fs)
           none == << >>
<1>12. C \in Seq(Lines)
  BY PartsType
<1> HIDE DEF C
<1>13. none \in Seq(Puts) /\ one = Append(none, line) /\ C \o none = C
  BY <1>12, ConcatEmptySeq DEF one
<1> HIDE DEF none
<1>14. After(FALSE, C \o load(one)) = Execute(After(FALSE, C), line)
  BY <1>12, <1>13, AfterRecord
<1>15. \A i \in DOMAIN scr : scr[i].op = "load" => scr[i].file # n + 1
  BY <1>2, <1>5
<1> QED
  BY <1>2, <1>9, <1>10, <1>11, <1>14, <1>15 DEF C, gs, one, ld

LongerLast(fs, line) == [fs EXCEPT ![Len(fs)] = Append(@, line)]

(* The last line of the script loads the last file, and no other does.     *)
OpenLast(front, fs) ==
  /\ front \in Seq(Lines \cup Loads) /\ fs # <<>>
  /\ Readable(Append(front, LoadOf(Len(fs))), fs)
  /\ \A n \in DOMAIN front : front[n].op = "load" => front[n].file # Len(fs)

PutReaches(scr, fs, gs, line) ==
  /\ Readable(scr, gs) /\ Len(gs) = Len(fs)
  /\ After(FALSE, CommandsOf(scr, gs)) = Execute(After(FALSE, CommandsOf(scr, fs)), line)

(* A put that goes to the open file.                                       *)
LEMMA PutContinues ==
  ASSUME NEW front, NEW fs, OpenLast(front, fs), NEW line \in Puts
  PROVE  PutReaches(Append(front, LoadOf(Len(fs))), fs, LongerLast(fs, line), line)
<1> DEFINE gs == LongerLast(fs, line)
<1>1. /\ front \in Seq(Lines \cup Loads) /\ fs # <<>>
      /\ Readable(Append(front, LoadOf(Len(fs))), fs)
      /\ \A n \in DOMAIN front : front[n].op = "load" => front[n].file # Len(fs)
  BY DEF OpenLast
<1> DEFINE n == Len(fs)
           ld == LoadOf(n)
           scr == Append(front, ld)
           file == fs[n]
           longer == Append(file, line)
<1>2. fs \in Seq(Seq(Puts)) /\ \A i \in DOMAIN fs : fs[i] # <<>>
  BY <1>1 DEF Readable
<1>3. n \in 1 .. n /\ n \in Nat /\ DOMAIN fs = 1 .. n
  BY <1>1, <1>2, LenProperties, EmptyLength
<1>4. ld \in Loads /\ ld.op = "load" /\ ld.file = n
  BY <1>3 DEF LoadOf, Loads
<1>5. file \in Seq(Puts) /\ file # <<>>
  BY <1>2, <1>3, ElementOfSeq
<1> HIDE DEF ld
<1>6. longer \in Seq(Puts) /\ longer # <<>>
  <2> HIDE DEF file
  <2> QED
    BY <1>5, AppendFacts
<1>7. gs = [fs EXCEPT ![n] = longer]
  BY DEF LongerLast
<1> HIDE DEF gs
<1>8. /\ DOMAIN gs = 1 .. n /\ gs[n] = longer
      /\ \A i \in 1 .. n : i # n => gs[i] = fs[i]
  <2> HIDE DEF longer
  <2> QED
    BY <1>3, <1>7
<1> HIDE DEF longer, file
<1>9. gs \in Seq(Seq(Puts)) /\ Len(gs) = n
  BY <1>2, <1>3, <1>6, <1>7, ExceptSeq
<1> HIDE DEF n
<1>10. \A i \in DOMAIN gs : gs[i] # <<>>
  BY <1>2, <1>3, <1>6, <1>8
<1>11. ASSUME NEW l, Loadable(fs, l)
       PROVE  Loadable(gs, l)
  BY <1>3, <1>8, <1>11 DEF Loadable
<1>12. Readable(scr, fs)
  BY <1>1 DEF scr, n, ld
<1>13. Readable(scr, gs)
  <2> HIDE DEF scr
  <2> QED
    BY <1>9, <1>10, <1>11, <1>12 DEF Readable
<1>14. ld \in Lines \cup Loads
  BY <1>4
<1>15. /\ DOMAIN front = 1 .. Len(front) /\ DOMAIN scr = 1 .. (Len(front) + 1)
       /\ \A i \in 1 .. Len(front) : scr[i] = front[i] /\ i \in 1 .. (Len(front) + 1)
  BY <1>1, <1>14, AppendFacts
<1> HIDE DEF scr
<1>16. Readable(front, fs) /\ Readable(front, gs)
  <2>1. \A i \in DOMAIN front : Loadable(fs, front[i])
    BY <1>12, <1>15 DEF Readable
  <2>2. \A i \in DOMAIN front : Loadable(gs, front[i])
    BY <1>11, <2>1
  <2> QED
    BY <1>1, <1>2, <1>9, <1>10, <2>1, <2>2 DEF Readable
<1>17. Loadable(fs, ld) /\ Loadable(gs, ld)
  BY <1>3, <1>4, <1>8 DEF Loadable
<1>18. front \in Seq(Lines \cup Loads)
  BY <1>1
<1>19. /\ CommandsOf(scr, fs) = CommandsOf(front, fs) \o PartOf(fs, ld)
       /\ CommandsOf(scr, gs) = CommandsOf(front, gs) \o PartOf(gs, ld)
  BY <1>16, <1>17, OneMoreLine DEF scr
<1>20. PartOf(fs, ld) = load(file) /\ PartOf(gs, ld) = load(longer)
  BY <1>4, <1>8 DEF PartOf, file
<1>21. CommandsOf(front, gs) = CommandsOf(front, fs)
  <2>1. ASSUME NEW i \in DOMAIN front, front[i].op = "load"
        PROVE  gs[front[i].file] = fs[front[i].file]
    <3>1. Loadable(fs, front[i])
      BY <1>16 DEF Readable
    <3>2. front[i].file \in 1 .. n /\ front[i].file # n
      BY <1>1, <1>3, <2>1, <3>1 DEF Loadable, n
    <3> QED
      BY <1>8, <3>2
  <2> QED
    BY <2>1, OtherFiles
<1> DEFINE C == CommandsOf(front, fs)
<1>22. C \in Seq(Lines)
  BY <1>16, PartsType
<1> HIDE DEF C
<1>23. After(FALSE, C \o load(longer)) = Execute(After(FALSE, C \o file), line)
  BY <1>5, <1>22, AfterRecord DEF longer
<1>24. After(FALSE, C \o load(file)) = After(FALSE, C \o file)
  BY <1>5, <1>22, AfterLoad
<1>25. After(FALSE, CommandsOf(scr, gs)) = Execute(After(FALSE, CommandsOf(scr, fs)), line)
  BY <1>19, <1>20, <1>21, <1>23, <1>24 DEF C
<1> QED
  BY <1>9, <1>13, <1>25 DEF PutReaches, scr, n, ld, gs

-----------------------------------------------------------------------------
(***************************************************************************)
(* Every operation made reaches the tree as one command.                   *)
(***************************************************************************)
Scripted == Readable(script, files)

(* Between puts in a row, the open file is the one that the last line of   *)
(* the script loads, and no other line loads it.                           *)
LoadedLast(scr, fs) ==
  \E front \in Seq(Lines \cup Loads) :
     /\ scr = Append(front, LoadOf(Len(fs)))
     /\ \A n \in DOMAIN front : front[n].op = "load" => front[n].file # Len(fs)

LastLoaded ==
  external_puts /\ prev_operation = "put" => files # <<>> /\ LoadedLast(script, files)

Reached == Agree(After(TRUE, operations), After(FALSE, CommandsOf(script, files)))

ScriptInv == Scripted /\ LastLoaded /\ Reached

LEMMA ReachedKept ==
  ASSUME NEW ops \in Seq(Lines), NEW C, Agree(After(TRUE, ops), After(FALSE, C)),
         NEW line \in Lines, NEW D, After(FALSE, D) = Execute(After(FALSE, C), line)
  PROVE  Agree(After(TRUE, Append(ops, line)), After(FALSE, D))
<1>1. After(TRUE, Append(ops, line)) = Evaluate(After(TRUE, ops), line)
  BY EvaluateOneMore
<1> QED
  BY <1>1, StepsAgree

(* A command written to the script.                                        *)
LEMMA CommandWritten ==
  ASSUME GInv, Scripted, Reached, NEW line \in Lines,
         script' = Append(script, line), files' = files, operations' = Append(operations, line)
  PROVE  Scripted' /\ Reached'
<1>1. PICK scr, fs, ops : scr = script /\ fs = files /\ ops = operations
  OBVIOUS
<1>2. /\ Readable(scr, fs) /\ ops \in Seq(Lines)
      /\ Agree(After(TRUE, ops), After(FALSE, CommandsOf(scr, fs)))
  BY <1>1 DEF Scripted, Reached, GInv, Recorded
<1>3. /\ line.op # "load" /\ Loadable(fs, line)
      /\ PartOf(fs, line) = <<line>>
  BY LoadsAreNoLines DEF Loadable, PartOf
<1> DEFINE C == CommandsOf(scr, fs)
           D == CommandsOf(Append(scr, line), fs)
<1>4. C \in Seq(Lines)
  BY <1>2, PartsType
<1>5. Readable(Append(scr, line), fs) /\ D = C \o <<line>>
  BY <1>2, <1>3, OneMoreLine
<1> HIDE DEF C, D
<1>6. D = Append(C, line)
  BY <1>4, <1>5, AppendIsConcat
<1>7. After(FALSE, D) = Execute(After(FALSE, C), line)
  BY <1>4, <1>6, ExecuteOneMore
<1>8. Agree(After(TRUE, ops), After(FALSE, C))
  BY <1>2 DEF C
<1>9. Agree(After(TRUE, Append(ops, line)), After(FALSE, D))
  BY <1>2, <1>7, <1>8, ReachedKept
<1>10. script' = Append(scr, line) /\ files' = fs /\ operations' = Append(ops, line)
  BY <1>1
<1>11. Scripted'
  BY <1>5, <1>10 DEF Scripted
<1>12. Reached'
  BY <1>9, <1>10 DEF Reached, D
<1> QED
  BY <1>11, <1>12

LEMMA WritesScript ==
  ASSUME GInv, ScriptInv, NEW o \in Operations \ {"put"}, Draw(o), NEW line \in Lines, WriteLine(o, line)
  PROVE  ScriptInv'
<1>1. script \in Seq(Lines \cup Loads) /\ line \in Lines \cup Loads
  BY DEF ScriptInv, Scripted, Readable
<1>2. LoadLine(o) = <<>> /\ files' = files
  BY DEF LoadLine, Opens, Draw, Opened
<1>3. script \o << >> = script
  BY <1>1, ConcatEmptySeq
<1>4. script' = Append(script, line)
  BY <1>1, <1>2, <1>3, AppendIsConcat DEF WriteLine
<1>5. operations' = Append(operations, line)
  BY DEF WriteLine, Made
<1>6. Scripted' /\ Reached'
  BY <1>2, <1>4, <1>5, CommandWritten DEF ScriptInv
<1>7. prev_operation' # "put"
  BY DEF Draw
<1>8. LastLoaded'
  BY <1>7 DEF LastLoaded
<1> QED
  BY <1>6, <1>8 DEF ScriptInv

LEMMA PutWritesScript ==
  ASSUME GInv, ScriptInv, Put
  PROVE  ScriptInv'
<1>1. PICK k \in RandomKeys, v \in RandomVals :
        /\ WritePut([op |-> "put", key |-> k, value |-> v])
        /\ Made("put", [op |-> "put", key |-> k, value |-> v])
  BY DEF Put
<1> DEFINE line == [op |-> "put", key |-> k, value |-> v]
<1>2. line \in Puts /\ line \in Lines
  BY DEF Puts, Lines
<1>3. WritePut(line) /\ operations' = Append(operations, line)
  BY <1>1 DEF Made
<1> HIDE DEF line
<1>4. external_puts' = external_puts /\ external_puts \in BOOLEAN /\ prev_operation' = "put"
  BY DEF Put, settings, GInv, Counting
<1>5. CASE ~ external_puts
  <2>1. script' = Append(script, line) /\ files' = files
    BY <1>3, <1>5 DEF WritePut
  <2>2. Scripted' /\ Reached'
    BY <1>2, <1>3, <2>1, CommandWritten DEF ScriptInv
  <2>3. LastLoaded'
    BY <1>4, <1>5 DEF LastLoaded
  <2> QED
    BY <2>2, <2>3 DEF ScriptInv
<1>6. PICK scr, fs, ops : scr = script /\ fs = files /\ ops = operations
  OBVIOUS
<1>7. /\ Readable(scr, fs) /\ ops \in Seq(Lines) /\ scr \in Seq(Lines \cup Loads)
      /\ Agree(After(TRUE, ops), After(FALSE, CommandsOf(scr, fs)))
      /\ fs \in Seq(Seq(Puts)) /\ Len(fs) \in Nat
  <2>1. fs \in Seq(Seq(Puts))
    BY <1>6 DEF ScriptInv, Scripted, Readable
  <2>2. Len(fs) \in Nat
    BY <2>1, LenProperties
  <2> QED
    BY <1>6, <2>1, <2>2 DEF ScriptInv, Scripted, Readable, Reached, GInv, Recorded
<1>8. ASSUME NEW front \in Seq(Lines \cup Loads), NEW gs, gs # <<>>,
             files' = gs, script' = Append(front, LoadOf(Len(gs))),
             Readable(Append(front, LoadOf(Len(gs))), gs),
             \A n \in DOMAIN front : front[n].op = "load" => front[n].file # Len(gs),
             After(FALSE, CommandsOf(Append(front, LoadOf(Len(gs))), gs)) =
               Execute(After(FALSE, CommandsOf(scr, fs)), line)
      PROVE  ScriptInv'
  <2>1. Scripted'
    BY <1>8 DEF Scripted
  <2>2. LastLoaded'
    <3>1. LoadedLast(Append(front, LoadOf(Len(gs))), gs)
      BY <1>8 DEF LoadedLast
    <3> QED
      BY <1>8, <3>1 DEF LastLoaded
  <2> DEFINE C == CommandsOf(scr, fs)
             D == CommandsOf(Append(front, LoadOf(Len(gs))), gs)
  <2>3. Agree(After(TRUE, ops), After(FALSE, C)) /\ After(FALSE, D) = Execute(After(FALSE, C), line)
    BY <1>7, <1>8
  <2> HIDE DEF C, D
  <2>4. Agree(After(TRUE, Append(ops, line)), After(FALSE, D))
    BY <1>2, <1>7, <2>3, ReachedKept
  <2>5. operations' = Append(ops, line)
    BY <1>3, <1>6
  <2>6. Reached'
    BY <1>8, <2>4, <2>5 DEF Reached, D
  <2> QED
    BY <2>1, <2>2, <2>6 DEF ScriptInv
<1>9. CASE external_puts /\ prev_operation # "put"
  <2> DEFINE n == Len(fs)
             one == <<line>>
             gs == Append(fs, one)
             opened == Append(fs, <<>>)
  <2>1. Opens("put") /\ Opened("put") = opened /\ LoadLine("put") = <<LoadOf(n + 1)>>
    BY <1>6, <1>9 DEF Opens, Opened, LoadLine, LoadOf
  <2>2. /\ opened \in Seq(Seq(Puts)) /\ Len(opened) = n + 1
        /\ gs \in Seq(Seq(Puts)) /\ Len(gs) = n + 1
        /\ \A i \in 1 .. n : gs[i] = opened[i]
        /\ opened[n + 1] = <<>> /\ gs[n + 1] = one
    <3> DEFINE none == << >>
    <3>1. none \in Seq(Puts) /\ one \in Seq(Puts)
      BY <1>2
    <3>2. opened = Append(fs, none)
      OBVIOUS
    <3>4. none = << >>
      OBVIOUS
    <3> HIDE DEF none, one
    <3>3. /\ Append(fs, none) \in Seq(Seq(Puts)) /\ Len(Append(fs, none)) = n + 1
          /\ \A i \in 1 .. n : Append(fs, none)[i] = fs[i]
          /\ Append(fs, none)[n + 1] = none
      BY <1>7, <3>1, AppendFacts
    <3>5. /\ gs \in Seq(Seq(Puts)) /\ Len(gs) = n + 1
          /\ \A i \in 1 .. n : gs[i] = fs[i]
          /\ gs[n + 1] = one
      BY <1>7, <3>1, AppendFacts
    <3> HIDE DEF gs, opened
    <3> QED
      BY <3>2, <3>3, <3>4, <3>5
  <2>3. files' = [opened EXCEPT ![Len(opened)] = Append(@, line)] /\ script' = script \o LoadLine("put")
    BY <1>3, <1>9, <2>1 DEF WritePut
  <2>4. files' = [opened EXCEPT ![n + 1] = one]
    <3>1. Append(<< >>, line) = one
      OBVIOUS
    <3> HIDE DEF opened, one
    <3> QED
      BY <2>2, <2>3, <3>1
  <2>5. files' = gs
    <3>1. one \in Seq(Puts) /\ n + 1 \in 1 .. (n + 1)
      BY <1>2, <1>7
    <3> HIDE DEF opened, one, gs, n
    <3> DEFINE L == Seq(Puts)
               hs == [opened EXCEPT ![n + 1] = one]
    <3>2. opened \in Seq(L) /\ n + 1 \in 1 .. Len(opened) /\ one \in L
      BY <2>2, <3>1
    <3> HIDE DEF L
    <3>3. /\ hs \in Seq(L) /\ Len(hs) = Len(opened)
          /\ \A j \in 1 .. Len(opened) : hs[j] = IF j = n + 1 THEN one ELSE opened[j]
      BY <3>2, ExceptSeq
    <3> HIDE DEF hs
    <3>4. ASSUME NEW j \in 1 .. (n + 1)
          PROVE  hs[j] = gs[j]
      <4>1. n \in Nat
        BY <1>7 DEF n
      <4>2. j = n + 1 \/ j \in 1 .. n
        BY <4>1
      <4>3. CASE j = n + 1
        BY <2>2, <3>3, <4>3
      <4>4. CASE j \in 1 .. n
        <5>1. j # n + 1
          BY <4>1, <4>4
        <5> QED
          BY <2>2, <3>3, <4>4, <5>1
      <4> QED
        BY <4>2, <4>3, <4>4
    <3>5. gs \in Seq(L) /\ Len(hs) = n + 1 /\ Len(gs) = n + 1
      BY <2>2, <3>3 DEF L
    <3>6. hs = gs
      BY <3>3, <3>4, <3>5, SeqEqual
    <3> QED
      BY <2>4, <3>6 DEF hs
  <2>6. LoadOf(n + 1) \in Lines \cup Loads
    BY <1>7 DEF LoadOf, Loads
  <2>7. script' = Append(scr, LoadOf(n + 1))
    <3> DEFINE ld == LoadOf(n + 1)
    <3>1. script' = scr \o <<ld>> /\ ld \in Lines \cup Loads
      BY <1>6, <2>1, <2>3, <2>6
    <3> HIDE DEF ld
    <3>2. script' = Append(scr, ld)
      BY <1>7, <3>1, AppendIsConcat
    <3> QED
      BY <3>2 DEF ld
  <2>8. /\ Readable(Append(scr, LoadOf(n + 1)), gs)
        /\ \A i \in DOMAIN scr : scr[i].op = "load" => scr[i].file # n + 1
        /\ After(FALSE, CommandsOf(Append(scr, LoadOf(n + 1)), gs)) =
             Execute(After(FALSE, CommandsOf(scr, fs)), line)
    BY <1>2, <1>7, PutOpens
  <2>9. Len(gs) = n + 1 /\ gs # <<>>
    <3> HIDE DEF gs
    <3> QED
      BY <1>7, <2>2
  <2> HIDE DEF gs, n
  <2> QED
    BY <1>7, <1>8, <2>5, <2>7, <2>8, <2>9
<1>10. CASE external_puts /\ prev_operation = "put"
  <2>1. Opened("put") = files /\ LoadLine("put") = <<>>
    BY <1>10 DEF Opens, Opened, LoadLine
  <2>2. fs # <<>> /\ LoadedLast(scr, fs)
    BY <1>6, <1>10 DEF ScriptInv, LastLoaded
  <2>3. PICK front \in Seq(Lines \cup Loads) :
          /\ scr = Append(front, LoadOf(Len(fs)))
          /\ \A i \in DOMAIN front : front[i].op = "load" => front[i].file # Len(fs)
    BY <2>2 DEF LoadedLast
  <2> DEFINE gs == LongerLast(fs, line)
  <2>4. files' = gs /\ script' = script \o << >>
    BY <1>3, <1>6, <1>10, <2>1 DEF WritePut, LongerLast
  <2>5. script' = scr
    BY <1>6, <1>7, <2>4, ConcatEmptySeq
  <2> HIDE DEF gs
  <2>6. Readable(Append(front, LoadOf(Len(fs))), fs)
    BY <1>7, <2>3
  <2>7. PutReaches(Append(front, LoadOf(Len(fs))), fs, gs, line)
    <3>1. OpenLast(front, fs)
      BY <2>2, <2>3, <2>6 DEF OpenLast
    <3> QED
      BY <1>2, <3>1, PutContinues DEF gs
  <2>8. /\ Readable(Append(front, LoadOf(Len(fs))), gs) /\ Len(gs) = Len(fs)
        /\ After(FALSE, CommandsOf(Append(front, LoadOf(Len(fs))), gs)) =
             Execute(After(FALSE, CommandsOf(Append(front, LoadOf(Len(fs))), fs)), line)
    BY <2>7 DEF PutReaches
  <2>9. gs # <<>>
    <3>1. Len(fs) # 0
      BY <1>7, <2>2, EmptyLength
    <3> QED
      BY <2>8, <3>1
  <2> QED
    BY <1>8, <2>3, <2>4, <2>5, <2>8, <2>9
<1> QED
  BY <1>4, <1>5, <1>9, <1>10

LEMMA ScriptInit ==
  ASSUME Init
  PROVE  ScriptInv
<1>1. /\ script = <<>> /\ files = <<>> /\ operations = <<>> /\ prev_operation = nobody
  BY DEF Init
<1> DEFINE none == << >>
<1>2. none \in Seq(Seq(Puts)) /\ none \in Seq(Lines \cup Loads) /\ DOMAIN none = {}
  OBVIOUS
<1>3. PartsOf(none, none) = none /\ Len(none) = 0
  BY DEF PartsOf
<1>4. CommandsOf(none, none) = none
  BY <1>3 DEF CommandsOf, FlattenSeq
<1>5. After(TRUE, none) = Fresh /\ After(FALSE, none) = Fresh
  BY AfterNothing
<1>6. script = none /\ files = none /\ operations = none
  BY <1>1
<1> HIDE DEF none
<1>7. Scripted
  BY <1>2, <1>6 DEF Scripted, Readable
<1>8. Reached
  BY <1>4, <1>5, <1>6, FreshAgrees DEF Reached
<1>9. LastLoaded
  BY <1>1, SettingsAssumption DEF LastLoaded, Operations
<1> QED
  BY <1>7, <1>8, <1>9 DEF ScriptInv

LEMMA ScriptNext ==
  ASSUME GInv, ScriptInv, Next
  PROVE  ScriptInv'
<1>1. CASE Put
  BY <1>1, PutWritesScript
<1>2. old_puts_pool \in Seq(RandomKeys) /\ old_gets_pool \in Seq(RandomKeys)
  BY DEF GInv, Pools
<1>3. CASE Get
  <2>1. PICK k \in RandomKeys : WriteLine("get", [op |-> "get", key |-> k])
    <3>1. \A k \in Range(old_puts_pool) : k \in RandomKeys
      BY <1>2, DrawnFrom
    <3>2. \A k \in Range(old_gets_pool) : k \in RandomKeys
      BY <1>2, DrawnFrom
    <3> QED
      BY <1>3, <3>1, <3>2 DEF Get
  <2> DEFINE line == [op |-> "get", key |-> k]
  <2>2. line \in Lines
    BY DEF Lines, Gets
  <2>3. WriteLine("get", line) /\ Draw("get") /\ "get" \in Operations \ {"put"}
    BY <1>3, <2>1 DEF Get, Operations
  <2> HIDE DEF line
  <2> QED
    BY <2>2, <2>3, WritesScript
<1>4. CASE RangeQuery
  <2>1. PICK a \in RandomKeys, b \in RandomKeys :
          WriteLine("range", [op |-> "range", start |-> IF a < b THEN a ELSE b,
                                              end   |-> IF a < b THEN b ELSE a])
    BY <1>4 DEF RangeQuery
  <2> DEFINE line == [op |-> "range", start |-> IF a < b THEN a ELSE b,
                                      end   |-> IF a < b THEN b ELSE a]
  <2>2. line \in Lines
    BY DEF Lines, RangeQueries
  <2>3. WriteLine("range", line) /\ Draw("range") /\ "range" \in Operations \ {"put"}
    BY <1>4, <2>1 DEF RangeQuery, Operations
  <2> HIDE DEF line
  <2> QED
    BY <2>2, <2>3, WritesScript
<1>5. CASE Delete
  <2>1. PICK k \in Range(old_puts_pool) : WriteLine("delete", [op |-> "delete", key |-> k])
    BY <1>5 DEF Delete
  <2> DEFINE line == [op |-> "delete", key |-> k]
  <2>2. line \in Lines
    BY <1>2, DrawnFrom DEF Lines, Deletes
  <2>3. WriteLine("delete", line) /\ Draw("delete") /\ "delete" \in Operations \ {"put"}
    BY <1>5, <2>1 DEF Delete, Operations
  <2> HIDE DEF line
  <2> QED
    BY <2>2, <2>3, WritesScript
<1>6. ASSUME NEW o \in Operations \ {"put"}, TooEarly(o)
      PROVE  ScriptInv'
  <2>1. files' = files /\ operations' = operations /\ script' = script \o << >> /\ prev_operation' # "put"
    BY <1>6 DEF TooEarly, Draw, Opened, Opens, LoadLine
  <2>2. script \in Seq(Lines \cup Loads)
    BY DEF ScriptInv, Scripted, Readable
  <2>3. script' = script
    BY <2>1, <2>2, ConcatEmptySeq
  <2>4. Scripted' /\ Reached'
    BY <2>1, <2>3 DEF ScriptInv, Scripted, Reached
  <2>5. LastLoaded'
    BY <2>1 DEF LastLoaded
  <2> QED
    BY <2>4, <2>5 DEF ScriptInv
<1> QED
  BY <1>1, <1>3, <1>4, <1>5, <1>6 DEF Next

(* The commands that reach the tree, through the script and the files that *)
(* load() reads, get the answers that evaluate.py gives to the operations  *)
(* the generator made, in their order: for any keys and values, number of  *)
(* operations and sizes of pools.                                          *)
THEOREM AnswersCorrect == Spec => []AnswersPreserved
<1>1. Init => GInv /\ FileOpen /\ ScriptInv
  BY GeneratorInit, ScriptInit
<1>2. (GInv /\ FileOpen /\ ScriptInv) /\ [Next]_vars => (GInv /\ FileOpen /\ ScriptInv)'
  <2>1. ASSUME GInv, FileOpen, ScriptInv, UNCHANGED vars
        PROVE  GInv' /\ FileOpen' /\ ScriptInv'
    <3>1. GInv' /\ FileOpen'
      BY <2>1 DEF vars, settings, GInv, Counting, Pools, Recorded, PoolWasPut, NothingUnset,
                  DeletesKnownKeys, FileOpen
    <3>2. ScriptInv'
      BY <2>1 DEF vars, settings, ScriptInv, Scripted, LastLoaded, Reached
    <3> QED
      BY <3>1, <3>2
  <2> QED
    BY <2>1, GeneratorNext, ScriptNext
<1>3. ScriptInv => AnswersPreserved
  <2>1. ASSUME ScriptInv
        PROVE  AnswersPreserved
    <3>1. Commands = CommandsOf(script, files)
      BY DEF Commands, CommandsOf, PartsOf, PartOf
    <3>2. /\ After(FALSE, CommandsOf(script, files)).answers =
               [n \in DOMAIN After(TRUE, operations).answers |-> Undeleted(After(TRUE, operations).answers[n])]
      BY <2>1 DEF ScriptInv, Reached, Agree
    <3>3. /\ Answers(Execute, Commands) = After(FALSE, CommandsOf(script, files)).answers
          /\ Answers(Evaluate, operations) = After(TRUE, operations).answers
      BY <3>1 DEF Answers, After
    <3> QED
      BY <3>2, <3>3 DEF AnswersPreserved
  <2> QED
    BY <2>1
<1> QED
  BY <1>1, <1>2, <1>3, PTL DEF Spec
=============================================================================
