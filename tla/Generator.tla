----------------------------- MODULE Generator -----------------------------
(***************************************************************************)
(* The workload generator (generator.c): it draws operations at random     *)
(* until it has made as many of each kind as it was asked for, and writes  *)
(* them to a script, the puts on demand to binary files that lines of the  *)
(* script load.  One step is one iteration of its loop.                    *)
(***************************************************************************)
EXTENDS Integers, Sequences, SequencesExt

CONSTANTS
  RandomKeys, RandomVals,   \* what the number generator returns
  Settings,                 \* the settings asked for
  MAX_OLD_PUTS_POOL_SIZE, MAX_OLD_GETS_POOL_SIZE,
  SizeofKey,                \* sizeof(KEY_t), which scales the pools
  nobody                    \* prev_operation before the first operation

Operations == {"put", "get", "range", "delete"}

ASSUME SettingsAssumption ==
  /\ Settings \subseteq [Operations -> Nat] \X BOOLEAN
  /\ MAX_OLD_PUTS_POOL_SIZE > 0 /\ MAX_OLD_GETS_POOL_SIZE > 0 /\ SizeofKey > 0
  /\ nobody \notin Operations

VARIABLES
  asked,           \* how many operations of each kind are to be made
  external_puts,   \* puts go to files
  current,         \* how many have been made
  prev_operation,
  old_puts_pool, old_gets_pool,   \* keys of earlier operations
  script,          \* the lines written
  files,           \* the files written; the last one is open
  operations       \* history: the operations in the order they were made

settings == <<asked, external_puts>>
vars == <<settings, current, prev_operation, old_puts_pool, old_gets_pool,
          script, files, operations>>

Init ==
  /\ \E s \in Settings : asked = s[1] /\ external_puts = s[2]
  /\ current = [op \in Operations |-> 0]
  /\ prev_operation = nobody
  /\ old_puts_pool = <<>> /\ old_gets_pool = <<>>
  /\ script = <<>> /\ files = <<>>
  /\ operations = <<>>

Finished == \A op \in Operations : current[op] >= asked[op]

(* Variant: one more than was asked for.                                   *)
OneMoreRemaining(op) == current[op] <= asked[op]

(* Without it, `continue`: another operation is drawn.                     *)
Remaining(op) == current[op] < asked[op]

(* Variants: files are opened at every change of operation; only one file  *)
(* is ever opened.                                                         *)
OpensAtChange(op) == external_puts /\ prev_operation # op
OpensOnce(op) == external_puts /\ op = "put" /\ files = <<>>

(* The first of some puts in a row opens a new file.                       *)
Opens(op) == external_puts /\ op = "put" /\ prev_operation # "put"

LoadLine(op) == IF Opens(op) THEN <<[op |-> "load", file |-> Len(files) + 1]>> ELSE <<>>
Opened(op) == IF Opens(op) THEN Append(files, <<>>) ELSE files

(* The number of keys that a pool holds at most.                           *)
PoolSize(op, max) == SizeofKey * (IF asked[op] < max THEN asked[op] ELSE max)

(* A key goes to a pool, in the place of another one if the pool is full.  *)
Pooled(pool, k, size) ==
  IF Len(pool) < size THEN {Append(pool, k)}
  ELSE {[pool EXCEPT ![p] = k] : p \in DOMAIN pool}

Made(op, line) == /\ current' = [current EXCEPT ![op] = @ + 1]
                  /\ operations' = Append(operations, line)

(* A put is a line of the script or a record of the open file.             *)
WritePut(line) ==
  LET last == Len(Opened("put"))
  IN  IF external_puts
      THEN /\ files' = [Opened("put") EXCEPT ![last] = Append(@, line)]
           /\ script' = script \o LoadLine("put")
      ELSE script' = Append(script, line) /\ UNCHANGED files

Put ==
  /\ Remaining("put")
  /\ prev_operation' = "put"
  /\ \E k \in RandomKeys, v \in RandomVals :
       LET line == [op |-> "put", key |-> k, value |-> v]
       IN  /\ WritePut(line)
           /\ Made("put", line)
           /\ old_puts_pool' \in
                Pooled(old_puts_pool, k, PoolSize("put", MAX_OLD_PUTS_POOL_SIZE))
  /\ UNCHANGED <<settings, old_gets_pool>>

(* Another operation is drawn, which is made only when there are keys.     *)
Draw(op) ==
  /\ Remaining(op)
  /\ prev_operation' = op
  /\ files' = Opened(op)
  /\ UNCHANGED <<settings, old_puts_pool>>

(* No puts yet: `continue`, too.                                           *)
TooEarly(op) == /\ current["put"] = 0
                /\ Draw(op)
                /\ script' = script \o LoadLine(op)
                /\ UNCHANGED <<current, old_gets_pool, operations>>

WriteLine(op, line) == /\ script' = script \o LoadLine(op) \o <<line>>
                       /\ Made(op, line)

(* Variant: a repeated query is not counted.                               *)
GetUncounted ==
  /\ current["put"] > 0
  /\ Draw("get")
  /\ \E k \in Range(old_puts_pool) :
       LET line == [op |-> "get", key |-> k]
       IN  /\ old_gets_pool' \in
                Pooled(old_gets_pool, k, PoolSize("get", MAX_OLD_GETS_POOL_SIZE))
           /\ IF k \in Range(old_gets_pool) THEN UNCHANGED <<script, current, operations>>
              ELSE WriteLine("get", line)

(* The key is one of those put, a random one, or one of those of earlier   *)
(* gets; the first two go to the pool of keys of gets.                     *)
Get ==
  /\ current["put"] > 0
  /\ Draw("get")
  /\ \/ \E k \in Range(old_puts_pool) \cup RandomKeys :
          /\ old_gets_pool' \in
               Pooled(old_gets_pool, k, PoolSize("get", MAX_OLD_GETS_POOL_SIZE))
          /\ WriteLine("get", [op |-> "get", key |-> k])
     \/ \E k \in Range(old_gets_pool) :
          /\ UNCHANGED old_gets_pool
          /\ WriteLine("get", [op |-> "get", key |-> k])

RangeQuery ==
  /\ current["put"] > 0
  /\ Draw("range")
  /\ \E a, b \in RandomKeys :
       WriteLine("range", [op |-> "range", start |-> IF a < b THEN a ELSE b,
                                           end   |-> IF a < b THEN b ELSE a])
  /\ UNCHANGED old_gets_pool

(* Variant: any key.                                                       *)
DeleteRandom ==
  /\ current["put"] > 0
  /\ Draw("delete")
  /\ \E k \in RandomKeys : WriteLine("delete", [op |-> "delete", key |-> k])
  /\ UNCHANGED old_gets_pool

Delete ==
  /\ current["put"] > 0
  /\ Draw("delete")
  /\ \E k \in Range(old_puts_pool) : WriteLine("delete", [op |-> "delete", key |-> k])
  /\ UNCHANGED old_gets_pool

Next == \/ Put \/ Get \/ RangeQuery \/ Delete
        \/ \E op \in Operations \ {"put"} : TooEarly(op)

(* rand() draws every operation again and again.                           *)
Fairness == WF_vars(Put) /\ WF_vars(Get) /\ WF_vars(RangeQuery) /\ WF_vars(Delete)

Spec == Init /\ [][Next]_vars /\ Fairness
=============================================================================
