------------------------------ MODULE LSMTree ------------------------------
(***************************************************************************)
(* The LSM tree (lsm.cpp) as its commands change it: the in-memory buffer, *)
(* the levels on disk with the file, the size, and the filter and fence    *)
(* pointers of each, and the metadata file with which the sizes survive a  *)
(* restart.  Each action is one whole command: the server runs a command   *)
(* that changes a level under the locks of everything it touches.          *)
(***************************************************************************)
EXTENDS SSTable

CONSTANTS BUFFER_CAPACITY,         \* entries the buffer holds
          INITIAL_LEVEL_CAPACITY,  \* entries level 1 holds
          SIZE_RATIO,              \* capacity of a level over the one above it
          MAX_LEVELS,              \* number of levels
          Capacity,                \* capacity_ of each level
          DeletableKeys            \* the keys the workload may delete

Levels == 1 .. MAX_LEVELS

ASSUME ParametersAssumption == /\ BUFFER_CAPACITY \in Nat \ {0}
                               /\ INITIAL_LEVEL_CAPACITY \in Nat
                               /\ BUFFER_CAPACITY <= INITIAL_LEVEL_CAPACITY
                               /\ SIZE_RATIO \in Nat \ {0}
                               /\ MAX_LEVELS \in Nat \ {0}
                               /\ DeletableKeys \subseteq Keys

(* Each level is created with the capacity of the one above times the ratio*)
ASSUME CapacityAssumption ==
  /\ Capacity \in [Levels -> Nat]
  /\ Capacity[1] = INITIAL_LEVEL_CAPACITY
  /\ \A i \in 2 .. MAX_LEVELS : Capacity[i] = Capacity[i - 1] * SIZE_RATIO

VARIABLES
  buffer,     \* the run in memory (buffer::buffer_, curr_size_)
  file,       \* file[i]: the run last written to LEVELi.data
  curr_size,  \* level::curr_size_
  filter,     \* keys that filter_ lets through to an entry; {} when it is null
  fences,     \* keys of the entries that fp_array_ covers; {} when it is null
  meta,       \* metadata_file_ptr[i]: the size of level i in the metadata file
  status,     \* "running", "stopped" or, after exit() in merge(), "full"
  store       \* history variable: what evaluate.py would hold

disk == <<file, curr_size, filter, fences, meta>>
vars == <<buffer, file, curr_size, filter, fences, meta, status, store>>

TypeOK ==
  /\ buffer \in Run /\ Size(buffer) <= BUFFER_CAPACITY
  /\ file \in [Levels -> Run]
  /\ curr_size \in [Levels -> Nat]
  /\ filter \in [Levels -> SUBSET Keys]
  /\ fences \in [Levels -> SUBSET Keys]
  /\ meta \in [Levels -> Nat]
  /\ status \in {"running", "stopped", "full"}
  /\ store \in [Keys -> Vals \cup {None}]

Init ==
  /\ buffer = Empty
  /\ file = [i \in Levels |-> Empty]
  /\ curr_size = [i \in Levels |-> 0]
  /\ filter = [i \in Levels |-> {}]
  /\ fences = [i \in Levels |-> {}]
  /\ meta = [i \in Levels |-> 0]
  /\ status = "running"
  /\ store = [k \in Keys |-> None]

-----------------------------------------------------------------------------
(* Reading.                                                                *)

(* The entries of level i.                                                 *)
Level(i) == Prefix(file[i], curr_size[i])

(* What a search for k finds in the buffer (0) or through the filter and   *)
(* the fence pointers of level i.                                          *)
Version(i, k) == IF i = 0 THEN buffer[k]
                 ELSE IF k \in filter[i] \cap fences[i] THEN Level(i)[k] ELSE None

(* Variant: the search stops at the last version.                          *)
Oldest(i, k) == /\ Version(i, k) # None
                /\ \A j \in (i + 1) .. MAX_LEVELS : Version(j, k) = None

(* The first version on the way down is the one a search stops at.         *)
Newest(i, k) == /\ Version(i, k) # None
                /\ \A j \in 0 .. (i - 1) : Version(j, k) = None

Visible(v) == IF v = DELETED_FLAG THEN None ELSE v

(* lsm_tree::get().                                                        *)
get(k) == IF \E i \in 0 .. MAX_LEVELS : Newest(i, k)
          THEN Visible(Version(CHOOSE i \in 0 .. MAX_LEVELS : Newest(i, k), k))
          ELSE None

(* range() keeps, for each key it has found, the level it was found at and *)
(* its value, None for a key not found so far.  The buffer comes first.    *)
InBuffer(start, end) ==
  [k \in Keys |-> [level |-> 0,
                   value |-> IF start <= k /\ k < end THEN buffer[k] ELSE None]]

(* Variant: the entry of a larger level replaces that of a smaller one.    *)
LargerReplaces(found, i, start, end) ==
  [k \in Keys |-> IF /\ k \in fences[i] /\ Level(i)[k] # None
                     /\ start <= k /\ k < end
                     /\ found[k].value = None \/ found[k].level < i
                  THEN [level |-> i, value |-> Level(i)[k]]
                  ELSE found[k]]

(* The lambda process_level: the segments that the fence pointers give,    *)
(* without the filter; an entry is new, or replaces one of a larger level. *)
process_level(found, i, start, end) ==
  [k \in Keys |-> IF /\ k \in fences[i] /\ Level(i)[k] # None
                     /\ start <= k /\ k < end
                     /\ found[k].value = None \/ found[k].level > i
                  THEN [level |-> i, value |-> Level(i)[k]]
                  ELSE found[k]]

(* The orders in which every level but the last is processed: from 1 down, *)
(* as built, or, with PARALLEL_RANGE, as the threads get to result_mutex.  *)
Orders == {order \in [1 .. (MAX_LEVELS - 1) -> 1 .. (MAX_LEVELS - 1)] :
             \A i \in 1 .. (MAX_LEVELS - 1) : \E n \in 1 .. (MAX_LEVELS - 1) : order[n] = i}

found_keys(order, start, end) ==
  LET visit[n \in 0 .. (MAX_LEVELS - 1)] ==
        IF n = 0 THEN InBuffer(start, end)
        ELSE process_level(visit[n - 1], order[n], start, end)
  IN  visit[MAX_LEVELS - 1]

(* lsm_tree::range(): tombstones are dropped when all levels are done.     *)
range(order, start, end) ==
  LET found == found_keys(order, start, end)
  IN  {<<k, found[k].value>> :
         k \in {k \in Keys : found[k].value \notin {None, DELETED_FLAG}}}

(* Variant: a key deleted at a smaller level is counted all the same.      *)
ScanDeleted(seen, run) ==
  [valid |-> seen.valid \cup {k \in KeysOf(run) : run[k] # DELETED_FLAG},
   deleted |-> seen.deleted \cup
     {k \in KeysOf(run) : run[k] = DELETED_FLAG /\ k \notin seen.valid}]

(* The sets valid_keys and deleted_keys of lsm_tree::printStats(), after   *)
(* it has scanned one more run.                                            *)
Scan(seen, run) ==
  [valid |-> seen.valid \cup
     {k \in KeysOf(run) : run[k] # DELETED_FLAG /\ k \notin seen.deleted},
   deleted |-> seen.deleted \cup
     {k \in KeysOf(run) : run[k] = DELETED_FLAG /\ k \notin seen.valid}]

Scanned[n \in 0 .. MAX_LEVELS] ==
  IF n = 0 THEN Scan([valid |-> {}, deleted |-> {}], buffer)
  ELSE Scan(Scanned[n - 1], Level(n))

LogicalPairs == Scanned[MAX_LEVELS].valid

-----------------------------------------------------------------------------
(* level::merge() of the run `src` into level i, with the cascade of       *)
(* merges it starts below.                                                 *)

(* The run that the cascade brings to level j.                             *)
Child(i, src, j) == IF j = i THEN src ELSE Level(j - 1)

(* Variant: the entries that the level holds already are not counted.      *)
OverflowsAlone(i, src, j) == Capacity[j] < Size(Child(i, src, j))

(* There is no room at level j for everything it is brought, were no two   *)
(* keys the same: the level is first merged into the next one.             *)
Overflows(i, src, j) == Capacity[j] - curr_size[j] < Size(Child(i, src, j))

(* The cascade gets to level j with something to merge.                    *)
Rewritten(i, src, j) ==
  /\ j >= i
  /\ \A m \in i .. j : Size(Child(i, src, m)) > 0
  /\ \A m \in i .. (j - 1) : Overflows(i, src, m)

(* The last level has no next one: the program exits before any change.    *)
Fails(i, src) == /\ Rewritten(i, src, MAX_LEVELS)
                 /\ Overflows(i, src, MAX_LEVELS)

(* What level j holds when the entries of its child are merged into it.    *)
Remaining(i, src, j) == IF Overflows(i, src, j) THEN Empty ELSE Level(j)

NewRun(i, src, j) == MergeRuns(Remaining(i, src, j), Child(i, src, j))

(* The level above the first one rewritten gives its entries away; 0 is    *)
(* the buffer, which its own commands empty.                               *)
Drained(i, src, j) == j = i - 1 /\ Rewritten(i, src, i)

(* curr_size_ of level j afterwards.                                       *)
SizeAfter(i, src, j) == IF Rewritten(i, src, j) THEN Size(NewRun(i, src, j))
                        ELSE IF Drained(i, src, j) THEN 0
                        ELSE curr_size[j]

(* Variant: the level above keeps its filter and fence pointers.           *)
IndexNotTaken(old, i, src, j) == IF Rewritten(i, src, j) THEN KeysOf(NewRun(i, src, j))
                                 ELSE old[j]

(* The keys in the filter, or under the fence pointers, of level j: each   *)
(* merge builds both while it writes, and takes both from the level above. *)
IndexAfter(old, i, src, j) == IF Rewritten(i, src, j) THEN KeysOf(NewRun(i, src, j))
                              ELSE IF Drained(i, src, j) THEN {}
                              ELSE old[j]

(* Variant: the sizes are recorded before the cascade, not after it.       *)
RecordedFirst(i, src, j) == IF Rewritten(i, src, j + 1) THEN 0
                            ELSE IF Rewritten(i, src, j) THEN Size(NewRun(i, src, j))
                            ELSE meta[j]

(* Each merge puts its own size and a zero for the level above on record;  *)
(* where it was a cascade, the zero is then replaced by the outer merge.   *)
MetadataAfter(i, src, j) == IF Rewritten(i, src, j) THEN Size(NewRun(i, src, j))
                            ELSE IF Drained(i, src, j) THEN 0
                            ELSE meta[j]

Merge(i, src) ==
  /\ ~ Fails(i, src)
  /\ file' = [j \in Levels |-> IF Rewritten(i, src, j) THEN NewRun(i, src, j)
                               ELSE file[j]]
  /\ curr_size' = [j \in Levels |-> SizeAfter(i, src, j)]
  /\ filter' = [j \in Levels |-> IndexAfter(filter, i, src, j)]
  /\ fences' = [j \in Levels |-> IndexAfter(fences, i, src, j)]
  /\ meta' = [j \in Levels |-> MetadataAfter(i, src, j)]

-----------------------------------------------------------------------------
(* Commands.                                                               *)

(* Variant: one entry more than the buffer has room for is appended.       *)
InsertOneMore(k, v) ==
  \/ /\ k \in KeysOf(buffer) \/ Size(buffer) <= BUFFER_CAPACITY
     /\ buffer' = [buffer EXCEPT ![k] = v]
     /\ UNCHANGED disk
  \/ /\ k \notin KeysOf(buffer)
     /\ Size(buffer) = BUFFER_CAPACITY
     /\ Merge(1, buffer)
     /\ buffer' = [Empty EXCEPT ![k] = v]

(* buffer::insert(): update in place, else append, after the buffer has    *)
(* been merged into level 1 if it is full.                                 *)
Insert(k, v) ==
  \/ /\ k \in KeysOf(buffer) \/ Size(buffer) < BUFFER_CAPACITY
     /\ buffer' = [buffer EXCEPT ![k] = v]
     /\ UNCHANGED disk
  \/ /\ k \notin KeysOf(buffer)
     /\ Size(buffer) = BUFFER_CAPACITY
     /\ Merge(1, buffer)
     /\ buffer' = [Empty EXCEPT ![k] = v]

Put(k, v) == /\ status = "running"
             /\ Insert(k, v)
             /\ store' = [store EXCEPT ![k] = v]
             /\ UNCHANGED status

(* lsm_tree::delete_key().                                                 *)
Delete(k) == /\ status = "running"
             /\ \/ /\ k \in KeysOf(buffer)
                   /\ buffer' = [buffer EXCEPT ![k] = DELETED_FLAG]
                   /\ UNCHANGED disk
                \/ /\ k \notin KeysOf(buffer)
                   /\ Insert(k, DELETED_FLAG)
             /\ store' = [store EXCEPT ![k] = None]
             /\ UNCHANGED status

(* `f`: buffer::flush().                                                   *)
Flush == /\ status = "running"
         /\ Merge(1, buffer)
         /\ buffer' = Empty
         /\ UNCHANGED <<status, store>>

(* `m i`: lsm_tree::merge_level().                                         *)
MergeLevel(i) == /\ status = "running"
                 /\ Merge(i + 1, Level(i))
                 /\ UNCHANGED <<buffer, status, store>>

(* The merge behind any of these commands finds the last level full and    *)
(* exits the process; what was in the buffer goes with it.                 *)
DatabaseFull == /\ status = "running"
                /\ \/ Fails(1, buffer)
                   \/ \E i \in 1 .. (MAX_LEVELS - 1) : Fails(i + 1, Level(i))
                /\ status' = "full"
                /\ UNCHANGED <<buffer, disk, store>>

(* `e`, or the end of the input of the stand-alone program.                *)
Shutdown == /\ status = "running"
            /\ Merge(1, buffer)
            /\ buffer' = Empty
            /\ status' = "stopped"
            /\ UNCHANGED store

(* The process is killed between two commands.                             *)
Kill == /\ status = "running"
        /\ status' = "stopped"
        /\ UNCHANGED <<buffer, disk, store>>

(* The keys whose newest version a restart can lose: it is in memory, or   *)
(* at the last level, whose size is past the end of the metadata file.     *)
Durable(k) == \E i \in 1 .. (MAX_LEVELS - 1) : Newest(i, k)

(* lsm_tree::lsm_tree() over the files of an earlier process: sizes from   *)
(* the metadata file, filters and fence pointers built again.  Index       *)
(* MAX_LEVELS of the metadata is in the page but not in the file: it reads *)
(* as it was left as long as the kernel has kept the page, and as 0 when   *)
(* it has not.  The history variable keeps the durable keys, and takes the *)
(* recovered answer for the others.                                        *)
Startup == /\ status # "running"
           /\ status' = "running"
           /\ buffer' = Empty
           /\ \E n \in {0, meta[MAX_LEVELS]} : meta' = [meta EXCEPT ![MAX_LEVELS] = n]
           /\ curr_size' = meta'
           /\ filter' = [i \in Levels |-> KeysOf(Prefix(file[i], meta'[i]))]
           /\ fences' = filter'
           /\ UNCHANGED file
           /\ store' = [k \in Keys |-> IF Durable(k) THEN store[k] ELSE get(k)']

Command == \/ \E k \in Keys, v \in Vals : Put(k, v)
           \/ \E k \in DeletableKeys : Delete(k)
           \/ Flush
           \/ \E i \in 1 .. (MAX_LEVELS - 1) : MergeLevel(i)
           \/ DatabaseFull

Next == Command \/ Shutdown \/ Kill \/ Startup

Spec == Init /\ [][Next]_vars

(* One process, from a fresh data directory to its end.                    *)
LifetimeSpec == Init /\ [][Command \/ Shutdown]_vars

-----------------------------------------------------------------------------
(* Properties.                                                             *)

(* A key that the dictionary holds is read with the dictionary's value,    *)
(* after any puts, deletes, flushes, cascades, manual merges and restarts: *)
(* no merge loses an entry, lets an older version shadow a newer one, or   *)
(* hides one from the filter and the fence pointers (get(), merge()).      *)
LiveKeysRead == status = "running" =>
                  \A k \in Keys : store[k] # None => get(k) = store[k]

(* No level is ever given more entries than it was created for: the        *)
(* arithmetic capacity_ - curr_size_ is unsigned, and the data file is     *)
(* mapped with room for capacity_ entries and no more.                     *)
SizeWithinCapacity == \A i \in Levels : curr_size[i] <= Capacity[i]

(* A restart answers as before for each key whose newest version, value or *)
(* tombstone, is in a level but the last: of no such level is the size on  *)
(* record lost, and none comes back whose entries have moved down.         *)
DurableAnswersKept == [][status # "running" =>
                           \A k \in Keys : Durable(k) => get(k)' = get(k)]_vars

(* The filter and the fence pointers of a level each lead to its entries:  *)
(* to all of them, and to none that a merge has taken away.                *)
IndexMatches == \A i \in Levels : /\ filter[i] = KeysOf(Level(i))
                                  /\ fences[i] = KeysOf(Level(i))

(* The logical pairs printStats() counts, scanning files with two sets of  *)
(* keys, are the keys for which get(), searching through filters, answers. *)
StatsAgreeWithGet == LogicalPairs = {k \in Keys : get(k) # None}

(* range(), which collects entries by fence pointers and level numbers, in *)
(* whatever order the levels are processed, reports of each key in the     *)
(* interval what get(), which searches through the filters and stops at    *)
(* the first, answers; but for keys with the newest version at the last    *)
(* level, which it does not process.                                       *)
RangeAgreesWithGet ==
  \A order \in Orders, start \in Keys, end \in {k + 1 : k \in Keys} :
     range(order, start, end) =
       {<<k, get(k)>> : k \in {k \in Keys : /\ start <= k /\ k < end
                                           /\ get(k) # None
                                           /\ ~ Newest(MAX_LEVELS, k)}}

(* The newest version of k is a tombstone over two or more older versions: *)
(* a merge that cancels it with the second leaves the third to be found.   *)
Exposed(k) ==
  \E h, i, j \in 0 .. MAX_LEVELS :
     /\ h < i /\ i < j
     /\ Version(h, k) = DELETED_FLAG
     /\ Version(i, k) # None /\ Version(j, k) # None

(* While a process runs, the answer for a key changes only to what its     *)
(* last put or delete said: no flush, cascade or merge, and no command for *)
(* another key, changes it, unless the key is exposed in the above sense.  *)
AnswersStable ==
  [][status = "running" =>
       \A k \in Keys : get(k)' \in {get(k), store'[k]} \/ Exposed(k)]_vars

(* delete_key() "deletes a specified key from the database": a key that    *)
(* was deleted, or never put, is not found.                                *)
DeletedStaysDeleted == status = "running" =>
                         \A k \in Keys : store[k] = None => get(k) = None

(* range() "returns all the keys in the lsm tree from [startKey, endKey)". *)
RangeComplete ==
  \A order \in Orders, start \in Keys, end \in {k + 1 : k \in Keys} :
     \A k \in Keys : start <= k /\ k < end /\ get(k) # None
                        => <<k, get(k)>> \in range(order, start, end)

(* flush_buffer() puts all data on disk so that "nothing will be wiped     *)
(* when the program exits": a restart after a shutdown, when the buffer is *)
(* empty, answers as before.                                               *)
NothingWiped == [][status # "running" /\ buffer = Empty =>
                     \A k \in Keys : get(k)' = get(k)]_vars
=============================================================================
