# lsm_tree_db: a formal model

TLA+ specifications of the key-value store in `src/`: a log-structured merge
tree with an in-memory buffer, nine levels on disk, Bloom filters and fence
pointers, a metadata file, a stand-alone front end and a multi-threaded server.
TLC checks small instances. TLAPS proves, for all values of the constants, every
safety property that those checks pass and the three refinements: the tree implements a dictionary,
a level with its arrays and loops a store of one run, and the data directory under
kills one run per level. Five runs are counterexamples: cases in which the code
does not do what it says it does.

- [1 The system](#1-the-system)
- [2 Modules](#2-modules)
- [3 What TLC checks](#3-what-tlc-checks)
- [4 What is proved](#4-what-is-proved)
- [5 Disagreements between the code and what it says](#5-disagreements-between-the-code-and-what-it-says)
- [6 What is not modelled](#6-what-is-not-modelled)
- [7 Plan](#7-plan)

## 1 The system

| component | code | state | operations |
|---|---|---|---|
| buffer | `lsm.cpp` `class buffer` 825-888 | unsorted array of up to `BUFFER_CAPACITY` entries, a mutex | `insert` (update in place, else append; a full buffer is merged into level 1 first), `flush` |
| level | `lsm.cpp` `class level` 20-818 | `LEVELi.data`, `curr_size_`, `filter_`, `fp_array_`, a mutex | `merge` (with its cascade), `bf_fp_construct`, the constructor |
| tree | `lsm.cpp` `class lsm_tree` 893-1570 | pointers to the above; the metadata file, mapped | `insert`, `delete_key`, `get`, `range`, `printStats`, `flush_buffer`, `merge_level`, the constructor, `cleanup` |
| stand-alone front end | `database.cpp` | none of its own | one thread executes lines from standard input; `load` inserts the pairs of a file |
| server | `server.cpp` | one detached thread per client | each thread executes the lines it reads, on the one tree; `e` ends the process |
| reference | `generator/evaluate.py` | a Python dictionary | the answers a workload should get |
| Bloom filter | `bloom_filter.hh` (third party) | bit table | `compute_optimal_parameters`, the constructor, `insert`, `contains` |
| workload generator | `generator/generator.c` | counters, two pools of keys, the open file | one operation per iteration, to a script or to binary files that the script loads |

How they interact. A put or a delete goes to the buffer; a delete is a put of
`DELETED_FLAG`, a *tombstone*. A full buffer is merged into level 1; a level
without room for what it is brought is itself merged into the next one first
(the *cascade*); at a full last level the process exits. `merge()` writes the
merged run to `data/TEMP.data`, records two sizes in the metadata file, removes
the level's file and renames the temporary one. `get` searches from the buffer
down and stops at the first version; `range` and `printStats` visit everything
and resolve shadowed versions with sets of keys. Threads share the tree and are
kept apart by one mutex per level and one for the buffer, taken from the buffer
downwards: a merge holds two or more of them, `get` and `range` one at a time,
`printStats` all but that of the last level.

What is hard about it, and what must hold (`PROJECT.json` lists each hazard with
its line and with the properties that watch over it):

| component | hard behaviour | correct when |
|---|---|---|
| merge of two runs | five paths through three loops, one `continue`, tombstones that cancel entries; filter and fence pointers built on the way, in an array sized beforehand | the result is the merged run, newest version first, with a filter over all of it and the fence pointers a restart would build |
| cascade | sizes, filters, fence pointers and metadata reset by different functions at different levels of the recursion | no level exceeds its capacity; file, size, filter and metadata of a level agree; no live key is lost |
| point lookup | binary search in fence pointers, a flag against looping for ever, a short last segment | finds exactly what the level holds, ends, reads at most once |
| get, range, printStats | three readings of shadowed versions and tombstones | they agree |
| deletes | a tombstone disappears with the first older entry it meets | a deleted key stays deleted |
| restart | sizes from the metadata file, everything else built again | what was on disk is found again |
| Bloom filter | a table sized for a guess, in bytes, filled by merges and again at startup; false positives | every bit index is in the table; no key of the level is excluded; a false positive finds nothing |
| kills | a merge is a dozen steps on three files, a new file is made in two; temporary file, sizes and data files are left at odds | only the levels of one merge can be damaged; the next process starts, merges and keeps within capacities |
| workloads | a loop that draws operations at random, `continue`s before and after it changes state, and sends puts on a detour through files; a load that inserts once too often | the commands that reach the tree mean what the operations meant in the order they were made; the loop ends |
| threads | locks per level, a cascade under many of them, one shared temporary file | readers see values the key had while they ran; no deadlock; nobody writes another merge's file |
| shutdown | one client ends the process of all | what was put is on disk |

## 2 Modules

| module | models | in terms of |
|---|---|---|
| `KVMap` | the dictionary of `evaluate.py`: the abstract specification | `db`, the last `line` |
| `SSTable` | sorted runs, and the run that `level::merge()` makes of two | a run is a function from keys to values, a tombstone or `None` |
| `LSMTree` | the tree, one action per command, with kills and restarts | buffer, files, sizes, indexes, metadata |
| `LSMTreeKV` | the tree of one process together with the line executed last, as an implementation of `KVMap` | the same, and `line` |
| `SortedArray` | arrays of entries, and the run that an array holds | shared by the modules on one level and `Crash` |
| `BloomFilter` | table size, bits and bytes, `insert`, `contains` | hash and optimal size are constants |
| `LevelFile` | one level's array, filter, fence pointers and segments; startup and hand-over to the next level | `data`, `curr_size`, `filter`, `fp_array` |
| `MergeRun` | the loops of `level::merge()`, one action per path of an iteration | two runs, two pointers, `temp` |
| `LevelSearch` | the body of the loop of `get()`, and `process_level` of `range()` | bounds of the two searches, the segment read |
| `LevelLife` | the last three composed: the life of one level, as an implementation of `RunStore` | all of the above |
| `RunStore` | what a level promises: the abstract specification | the run stored, the operation under way |
| `Crash` | the files of the data directory and every step of starts and merges on them, with kills between any two | files, metadata, sizes in memory, position in the merge |
| `DurableRuns` | what the data directory promises across kills: the abstract specification | one run per level, or `Lost` |
| `Generator` | the loop of `generator.c`, one iteration a step | counters, pools, script, files |
| `Workload` | the commands that a front end makes of a generated workload, and their answers against those of the reference | `Generator`'s |
| `Server` | client threads on one tree, between locks and between the steps of a merge | buffer, runs of the levels, `TEMP.data`, lock owners, a position per thread |
| `MC...` | values of constants, command lines and symmetry sets for TLC | |
| `LSMTree_proofs`, `LSMTreeKV_proofs`, `LevelLife_proofs`, `Crash_proofs`, `Server_proofs`, `Workload_proofs` | theorems on the module of that name | |
| `SSTable_proofs`, `BloomFilter_proofs` | lemmas on runs, their arrays and their merge, and on filters | |

**Data.** A run, sorted and without repetitions, is a function on `Keys`; the
order that the arrays have is that of the keys, and `SortedArray!Array` recovers
it where positions matter. Values are uninterpreted and different from
`DELETED_FLAG` (`ValuesAssumption`): a put of `INT_MIN`, which this code takes for
a delete, is left out of the modules on the tree and left in `Workload`. The buffer, unsorted in the code, is a run too; `insert`
keeps keys in it unique, and it is sorted before any use in which order counts.

**LSMTree.** `file[i]` is the run last written to `LEVELi.data`, `curr_size[i]`
how much of it counts, `filter[i]` and `fences[i]` the keys of entries that the
filter lets through and that the fence pointers cover (`{}` when they are null),
and `meta[i]` the size on record. `Put`, `Delete`,
`Flush`, `MergeLevel` and `Shutdown` are the commands; `Merge(i, src)` is
`level::merge()` on level `i` with its whole cascade, described by how far the
cascade gets (`Rewritten`), what each level is brought (`Child`) and what it
holds afterwards. `DatabaseFull` is the `exit(0)` at a full last level, `Kill`
the death of the process between commands, `Startup` the constructor.
`get`, `range` and `LogicalPairs` are the three ways of reading, each the way the
code has it: `get` goes down through filters and fence pointers and stops at the
first version, `range` collects a map of `found_keys` by fence pointers alone, level
by level in some `order`, where an entry of a smaller level replaces one of a larger
(`process_level`), and drops tombstones at the end; `printStats` scans the files with
two sets. `Startup` may find a 0 for the last level's size, which is past the end of
the metadata file; `Durable` keys are those that this, and the loss of the buffer,
cannot touch. The history
variable `store` is what `evaluate.py` would hold after the same lines.
A command is atomic here: it is in the stand-alone program, and what changes
when it is not is the subject of `Server`.

**LevelLife** opens up what `LSMTree` takes as one step. A level is its array
(`data`, of which `curr_size` entries count), a Bloom filter of actual bits, and
fence pointers; `BeginMerge` to `Finish` are the loops of `merge()`, `Ask` to
`Return` the search of `get()`, `Drain` what a merge into the next level does to
this one, `bf_fp_construct` the start of a process. All of them follow each other
in any order, so that a search meets filters and fence pointers left by every
history of merges, hand-overs and restarts, and an array with old entries behind
`curr_size`. `ImplementsRunStore` sums it up: none of this shows. The abstract
level holds one run, a merge replaces it by `SSTable!MergeRuns`, and an answer is
the run's entry. In `BloomFilter` the table is as long as the code makes it
(`table_size_ / bits_per_char` bytes) and an index outside it is an error; the
hash function and the optimal size are constant operators, given by the MC module
so that keys collide.

**Crash.** One process at a time. `file[i]`, `temp`, `meta_file` and `meta` are the
data directory; `curr_size` and `buffer` are the process's memory; `pc` and `at` are
the position in `merge()` and the level it merges into, `top` the outermost call
of a cascade. A start creates the metadata file (`CreateMetadata`, `ExtendMetadata`) or
maps the one it finds (`Start`), and then goes through the levels: it creates a missing file
(`Create`, `Extend`), or takes the size from the metadata and reads the entries (`Reuse`).
A new file is open()ed, which leaves it without a byte, and extended by `lseek` and
`write`, two steps between which a kill may come. To map such a file succeeds, to read or
write the mapping is a SIGBUS: `Unreadable` says when a start meets one (`StartFails`), and
`RecordFails` is a merge that does. A start may find 0 for the size of the last level, as in
`LSMTree`, with no merge under way.
`OpenTemp` does not truncate; `Write` is one entry; `RecordSize` and `RecordZero`
are the two assignments to the mapped metadata; `Remove` and `Rename` replace the
level's file, and the caller's resets come with `Rename`, since nothing else runs
and no kill could tell (they are in memory). `Kill` may come before any of
these steps. It is the death of the process, not of the machine: what was stored
in a mapped file is there for the next process, whether `msync` was reached or
not. A level that restarts from a file that is not its own, or from none, is
`struck`, a history variable; so is the level that a struck one is merged into.
`DurableRuns` is the promise: one run per level, merged at a stroke, and a death
takes the buffer and at most two neighbouring runs with it; a start can find the last
level empty. No other run is lost. The stroke is
the metadata record (`RecordSize`): before it, a kill leaves the old runs; after it,
until `Rename`, the new run is in `TEMP.data`, which no later process looks at.
All files have the length of the last level's, so that a left-over `TEMP.data`
is never too short, whether it had its length already or not; the code extends it with
`lseek` and `write` in either case.

**Generator** and **Workload.** A step of `Generator` is an iteration of its loop that
changes something: `Put`, `Get`, `RangeQuery`, `Delete`, or `TooEarly`, which is
the `continue` after `prev_operation` has been set. Skew, miss ratio and the
distributions decide between choices with probabilities; any choice with a
positive one is allowed. `script` and `files` are the output, `operations` a history
variable. `Workload!Commands` is what `processCommands` of `database.cpp` hands to the tree
for that output, with `load`'s repeated last insert: `key` and `value` are declared
inside its loop, so that the language calls them uninitialized when the read
fails; as the Makefile builds the program they still hold the pair before.
The question is what becomes of a workload on its way to the tree, and the tree itself is
taken for a dictionary; where it is none (findings 1 to 3) is `LSMTree`'s subject.

**Server.** `owner[m]` is the client whose thread holds the lock of the buffer
(0) or of level `m`. A thread goes through its command by `pc` and `at`.
Critical sections that nothing can interrupt are one step (`Insert` without a
merge, `Find`, one level of `Get` or `RangeLevel`). A merge is several: `Enter` takes
the lock of the next level and decides between return, cascade, exit and merge;
`Open` opens `TEMP.data` with `O_CREAT`; `Write` writes the run where the mapped
file is by then; `Rename` replaces the level's file and returns to the caller,
which is the merge of the level above or, at `Top`, the command (`Finish`).
`mapped` follows what becomes of a file that a merge has mapped while another
thread renames it. A level is one run here: that file, size, index and metadata
agree is `LSMTree`'s subject. `delete_key` has its two critical sections (`Find`
and `Insert`); `e` flushes like `f` and then exits in a step of its own (`Leave`).
`seen[c][k]` collects what a running read may answer for `k`: every value the
dictionary has had since the command began.

## 3 What TLC checks

A run that passes has no error on all reachable states of its instance.

| run | instance | properties | shows |
|---|---|---|---|
| `tree` | 3 keys (1 deletable), 2 values, buffer 1, levels 1, 2, 4 | `TypeOK` `LiveKeysRead` `SizeWithinCapacity` `IndexMatches` `StatsAgreeWithGet` `RangeAgreesWithGet` `AnswersStable` `DurableAnswersKept` | commands, kills and restarts in every order lose no live key, keep sizes, metadata and indexes in step, the ways of reading agree, and a restart keeps the answers of all levels but the last |
| `tree_kv` | 3 keys (1 deletable), 2 values, buffer 2, levels 2, 2, 2 | `ImplementsKVMap` | the tree of one process refines the dictionary, for the keys never deleted |
| `level` | runs over 5 keys, segments of 2, bytes of 2 bits, 2 hash functions that collide, all probes on, between and beyond the keys | `TypeOK` `WritesMergedRun` `FilterCovers` `BitsInTable` `FencesWithinArray` `FencesAsConstructed` `FindsVersion` `OneReadOnDisk` `ReadsFit` `RangeReadsAll` `LockReleased` `ImplementsRunStore` | the merge loops, the search, filter and fence pointers of one level, over all histories |
| `crash` | 2 keys, buffer 2, levels 2, 2, 2, 4 merging commands, 2 kills | `TypeOK` `SizesWithinCapacity` `FilesExist` `OnlyMergedRead` `ImplementsDurableRuns` `ComesBack` | what kills between the steps of merges and starts can and cannot do |
| `workload` | 2 keys, 2 values (one the deletion flag), four settings, with and without files | `TypeOK` `AnswersPreserved` `NothingUnset` `DeletesKnownKeys` `GeneratorEnds` | generated workloads reach the tree as what the reference evaluates |
| `server` | 3 clients, 3 lines in all, any tree with buffer 1 and levels 2, 2, 2 | `TypeOK` `LiveKeysRead` `GetAnswersCurrent` `RangeAnswersCurrent` `TempNotShared` `StatsSeeOneState` | concurrent commands |
| `server_locks` | 3 clients, 3 lines that lock in different ways, levels 1, 1, 1 | `SomeoneGoesOn` `EveryCommandEnds` | no deadlock, no starvation |
| `tree_deleted` | `tree`'s | `DeletedStaysDeleted` is violated | finding 1 |
| `tree_range` | `tree`'s | `RangeComplete` is violated | finding 2 |
| `tree_restart` | 2 keys, 2 levels | `NothingWiped` is violated | finding 3 |
| `server_temp` | 2 clients, 2 lines, 3 levels | `TempNotShared` is violated | finding 4 |
| `server_leave` | 2 clients, 2 lines, 2 levels | `NothingLeftInMemory` is violated | finding 5 |

**Bounds.** `tree` and `tree_kv` bound nothing but the constants: their state
spaces are finite and explored whole, with command sequences of any length. Three
levels are the least with a level that is neither first nor last, so that a
cascade passes through; a key has at most four versions at once, and finding 1
takes three. `range` is checked for every order of the levels and every interval.
The two instances differ in shape: with growing capacities merges mostly find room, with equal ones nearly every merge cascades and the last level
fills up. `level`, too, bounds nothing but the constants: five keys make two full
segments and a partial third, with every order of the keys of two runs, and keys
are probed for between, before and behind them; with one value a key is absent,
present or a tombstone in each run. Reads are counted up to two (`ReadsCounted`).
`crash` bounds merging commands (`MaxCommands`) and kills (`MaxKills`). Four
merges of two entries fill three levels of two and reach the exit at a full
database; two kills are one in a merge and one in a merge or start that works on what
the first has left, the creation of a file among them. Three levels of equal capacity make a
cascade through two, with a level above and one below that a kill must not touch. In `workload` the settings bound the
operations: three puts make two files with another operation in between, or one
file of three; the pools hold two and one keys so that they overflow
(`SizeofKey` is 1, where the code has 4 times the room it needs); a setting without
puts does not end, which `GeneratorEnds` excepts.
`server` bounds the lines sent
(`MaxCommands`); the missing past is made up for by starting from every tree that
earlier commands can have left with the initial values (`RunsOf`); with three
lines a reader can be overtaken by a put and by a merge that pushes entries past
it, and three threads can hold locks at once. In `server`, key 1 is put and
deleted, key 2 is only put and is the key whose answers are watched; the lines
have no `m 2`, so that every merge holds the lock of level 1 and `TempNotShared`
must hold. `server_locks` and `server_temp` have `m 2`.
Values are symmetric in `tree` and `tree_kv`, clients in `server`: no
definition distinguishes them, and those runs check no liveness.

**Deadlock.** It is checked in `tree` and `tree_restart` (a process can always be
started again) and in `level` (a level can always be asked again), and switched
off in the others, which really stop or look for one violation only: a
process that has exited stays so in `KVSpec`, clients in `Server` send
`MaxCommands` lines, `Crash` bounds commands and the generator ends. That nothing stops short is
`SomeoneGoesOn`, `EveryCommandEnds`, `ComesBack` and `GeneratorEnds`.

**Fairness.** In `LevelLife` the thread that holds the lock runs: `MergeStep` and `SearchStep`
are weakly fair, no beginning of a merge or search is. In `Crash` the one
process runs (`Startup \/ Merge`), and is started again when it has died; commands and kills
are not fair. `ComesBack` says that it then takes commands again and again, or that some file
without a byte stays in the way for ever (section 5), which no number of starts can undo. In `Server`
each thread's step is weakly fair: a thread whose lock stays free, or that needs
none, is scheduled. The mutexes are not assumed to be fair: lines are finite in
number, so a lock that is waited for is at some point left alone by all others.
Nothing is assumed of clients: `Receive` has no fairness. In `Generator` each kind of
operation that is still to be made is drawn at some point: `rand()` does not
leave one out for ever.

**Mutants.** `PROJECT.json` names, for every property of every passing run, a
variant of one modelled definition (the definitions whose comments begin
with *Variant*) under which TLC finds the property violated.

## 4 What is proved

Theorems hold for every value of the constants that satisfies the assumptions, which TLC
evaluates on its instances:

| assumption | module | why the code justifies it |
|---|---|---|
| `KeysAssumption`, `ValuesAssumption` | `SSTable` | keys are finitely many integers; a tombstone and `None` are not values |
| `ParametersAssumption`, `CapacityAssumption` | `LSMTree` | positive parameters, a buffer not larger than level 1, each level's capacity the ratio times that of the one above |
| `ByteAssumption`, `FenceAssumption`, `ProbesAssumption` | `BloomFilter`, `LevelFile`, `LevelSearch` | a byte has bits, a segment has entries, keys asked for are integers |
| `LevelsAssumption` | `Crash` | capacities do not shrink from level to level, the first is at least the buffer's; the zeros of a new file are told apart from a key |
| `ServerAssumption`, `LinesAssumption` | `Server` | the tree has a level; the lines are those `processCommands` knows, with keys, values and levels in range |
| `SettingsAssumption`, `AnswersAssumption` | `Generator`, `Workload` | counts are naturals, pools have room; the answer to a range is not a value |

Some theorems have hypotheses that TLC does not evaluate, since they quantify over all
sequences or functions: `FilterParameters` (hashes and optimal sizes are natural numbers,
the latter not 0, and `nullptr` is not a filter) for `LevelLife`; `~ IsFile(NoFile)` (no
file is not the content of a file) and, for the refinement, `Lost \notin Run` for `Crash`.
For four theorems about `Server` there is a condition on the commands, `LevelOneLocked`: a
line `m i` has `i = 1`. It is the condition under which merges exclude each other; finding
4 is what happens without it.

| theorem | says |
|---|---|
| `ShapeCorrect` | `Spec => []Shape`: the inductive invariant of files, sizes, filters, fence pointers and metadata of the tree |
| `TypeCorrect`, `SizeCorrect`, `IndexCorrect` | `TypeOK`, `SizeWithinCapacity`, `IndexMatches` in every reachable state of `LSMTree!Spec`, kills and restarts included |
| `LiveKeysCorrect` | `Spec => []LiveKeysRead` |
| `DurableAnswersCorrect` | `Spec => DurableAnswersKept`, an action property: a restart changes no answer but those of the buffer and of the last level |
| `RangeCorrect`, `StatsCorrect` | the three readings agree: `RangeAgreesWithGet`, `StatsAgreeWithGet` |
| `AnswersStableCorrect` | `Spec => AnswersStable`, an action property: only a put or delete of the key changes an answer, or finding 1 |
| `MergeFits` | a cascade leaves every level within its capacity |
| `TreeImplementsKVMap` | `KVSpec => ImplementsKVMap`: the refinement that `tree_kv` checks |
| `NoFalseNegatives` | a Bloom filter contains every key inserted |
| `LevelTypeCorrect`, `FilterCorrect`, `TableCorrect`, `AllocationCorrect`, `FencesCorrect`, `ReadsCorrect`, `OneReadCorrect` | `TypeOK`, `FilterCovers`, `BitsInTable`, `FencesWithinArray`, `FencesAsConstructed`, `ReadsFit`, `OneReadOnDisk` in every reachable state of `LevelLife!Spec` |
| `MergedRunCorrect`, `FindsVersionCorrect`, `RangeReadsCorrect` | the algorithms: the loops of `merge()` write the merged run, the two binary searches find what the level has, the segments of a range have all of it |
| `RefinementCorrect` | `LevelLife!Spec => ImplementsRunStore` |
| `MergeArraysSorted` | merging two sorted arrays entry by entry is merging their runs |
| `CrashTypeCorrect`, `CrashSizesCorrect`, `FilesCorrect`, `OnlyMergedCorrect` | `TypeOK`, `SizesWithinCapacity`, `FilesExist`, `OnlyMergedRead` under any number of kills |
| `DurableCorrect` | `Crash!Spec => ImplementsDurableRuns` |
| `ServerTypeCorrect`, `StatsSeeOneStateCorrect` | `TypeOK`, and the action property `StatsSeeOneState`, for any number of clients, levels and lines of any kind |
| `NoDeadlock` | `Server!Spec => []SomeoneGoesOn`, manual merges of any level included |
| `TempNotSharedCorrect`, `ServerLiveKeysCorrect`, `GetAnswersCorrect`, `RangeAnswersCorrect` | under `LevelOneLocked`, `TempNotShared`, `LiveKeysRead`, `GetAnswersCurrent`, `RangeAnswersCurrent` |
| `GeneratorInvariant`, `WorkloadTypeCorrect`, `NothingUnsetCorrect`, `DeletesKnownCorrect` | the generator's counters and pools, what its files hold and what it deletes |
| `AnswersCorrect` | `Workload!Spec => []AnswersPreserved` |

*Shape.* None of the three invariants is inductive alone. A merge's result fits because
`Overflows` compared capacity with `curr_size`, and because the run in the file, not the
number in `curr_size`, is what gets merged: the two must agree. `WholeFiles` says how:
`curr_size[i]` is 0 or the size of the whole file. With it, `Shape` = `TypeOK` /\
`WholeFiles` /\ `SizeWithinCapacity` /\ `OnRecord` /\ `IndexMatches` is inductive.
`MergeFits` is the arithmetic: the levels rewritten by a cascade are contiguous
(`CascadeIsContiguous`), each receives at most the capacity of the one above, which by
`CapacityGrows` is no more than its own, and the size of a merged run is at most the sum
of the two (`MergeRunsSize` in `SSTable_proofs`). `MergeShape` carries the other conjuncts
through a merge, `InsertShape` through a put or tombstone, and `NextShape` takes the
actions one by one. A restart keeps `Shape` for either value that it may read for the last
level's size. That the sizes in the metadata page are those in memory (`OnRecord`) is why it
finds the levels but the last as they were (`DurableAnswersCorrect`).

*Live keys and answers.* `IInv` adds `LiveNewest`: a key in the dictionary has a newest
version and that version is the dictionary's value. `VersionAfter` says, position by
position, what a cascade makes of a key's versions; `NewestKept` that the newest version,
unless it is a tombstone, stays the newest with its value, wherever it moves. It is this
exception through which finding 1 enters, and `MergedAnswer` says how far it goes: the
answer for a key survives a cascade unless a tombstone lies over two of its versions.
`AnswersStable` is this for all actions. That `printStats()` agrees with `get()` is an
induction over the levels scanned (`ScannedValue`: after level `i`, the two sets are the
keys whose newest version down to `i` is a value, or a tombstone). That `range()` does is
one over the levels visited, in any order (`FoundKeysValue`: what has been found of a key is
the version of the smallest level visited that has one), and `Shape` is needed for it, since
the one reads by filters and the other by fence pointers alone (`BestIsNewest`).

*The dictionary.* For keys never deleted there are no tombstones, and a key not yet put
has no version anywhere (`UnputAbsent`); with `IInv` this is `KVInv`, under which `get` is
`store` on these keys (`AnswersAreStore`). So the initial answers are the empty
dictionary, a put or a delete is the dictionary's step for its key, and every other
command is a step that leaves it alone (`StepImplements`, one step per command).

*One level: filters and fences.* `BloomFilter_proofs` shows that the table size is a whole
number of bytes (`WholeBytes`), so that every bit has its byte (`BitInByte`), and that
`insert` adds the bits of its keys and takes none away (`InsertAdds`). `LInv` carries this
through `LevelLife`: the filter is one (`FilterShape`) and covers the level, a merge has
written no more entries than it has consumed (`Pointers`), and during a merge the fence
pointers are right as far as the entries written determine them (`FencesWritten`); a fence
pointer of a merge is complete only when the next segment is opened or `Finish` closes the
last, and this is why `FencesAsConstructed`, which says nothing during a merge, is not
inductive alone. `SegmentEnds` and `SegmentAllocated` are the arithmetic of segments, for
any segment size.

*One level: contents.* `VInv` adds that all arrays are sorted and hold one entry per key
(`Arrays`), that what a merge has written is the merged run on the keys it has consumed,
all of them before those still ahead (`MergedSoFar`), and what the two searches have
excluded so far: `SearchInv` says that an entry for the key, if the level has one, is in
the segment between `low` and `high` and, once that is read, between `left` and `right`.
So `Finish` leaves the array of the merged run, and an answer, found or not, is the run's.
For `RunStore` a merge is then a step at `Finish`, an answer one at `Return`, and
everything between a stutter (`StepStores`). That arrays and runs are the same thing is
`RunOfArray` and `ArrayOfRun` in `SSTable_proofs`.

*Files.* `CInv` says how far a start has come with the files (`FilesStarted`), at which
level a merge is (`Position`), and that from `OpenTemp` to `Rename` there is a temporary
file (`TempExists`): so `Rename` always gives a level its file back. `SizeInv` needs of a
merge that there is room for both runs from `OpenTemp` on (`RoomForBoth`), whatever a
damaged file has for entries: `MergeArraysType` bounds the merge of any two arrays, sorted
or not. Of a file without a byte nothing may be counted (`NothingInEmpty`, a part of `Sizes`);
every other one has its full length (`WholeFile`). `Contents` is about levels not struck:
outside the window between `RecordSize` and `Rename` the part of the file that the metadata counts is a sorted array (`Intact`), and
inside it `temp` is (`MergeProgress`). `DurableCorrect` maps the stroke of a merge to
`RecordSize`, a start to one that keeps all runs or forgets the last level's (`StartDurable`),
a death in the window to the loss of its two levels and any other, that of a start or of a
merge which meets a file without a byte included, to the loss of the buffer alone
(`DieDurable`), and every other step to a stutter.

*Threads.* `Control` says exactly which locks a thread holds at each step (`LocksHeld`);
with `OneHolder`, what a merge or `printStats` reads is not changed by others
(`TreeIsLocked`). A thread that waits holds only locks of smaller levels than the one it
waits for (`WaitsDownwards`), so the holder of the lock of the largest level goes on.
`MergesToTemp`: a merge that writes has `TEMP.data` to itself, since under
`LevelOneLocked` each holds the lock of level 1 (`WriterHoldsOne`), and the run in it is
the one to be merged. `Content`: live keys have their newest version in the tree at every
moment, also while the buffer's entries are in level 1 already and in the buffer still
(`BufferMerged`); keys that no client deletes have no tombstone. `Reading` is about a
search on its way down, for a key that nobody deletes: it has found a value it may answer
with, or will find one (`WillFind`): the first version between its position and its end is
such a value, and so is whatever the levels behind it have, so that a merge which moves an
entry down past the lock it waits for brings it nothing else (`SearchUndisturbed`). A
`range` stops before the last level, and a key that slips there is what
`RangeAnswersCurrent` allows.

*Workloads.* `GInv` counts operations, knows that pools hold keys that were put, and that
no file of the script is empty; it needs `FileOpen`: between puts in a row there is a file
to append to. `ScriptInv` says that after any number of operations the tree, having
executed script and files, and the reference, having evaluated the operations, agree
(`Agree`). An operation adds one command at the end (`CommandWritten`, `PutOpens`); a put
to an open file replaces the repeated last insert by itself and its own repetition
(`PutContinues`), which is why a file that is open must be the one the last line loads
(`LastLoaded`). A repeated insert is harmless (`PutAgain`) because nothing comes between
the two.

*Recursion.* The library's induction theorems cannot be used. Where a definition is a
recursive function (`MergeArrays`, `Scanned`, and in `Workload` the community modules'
folds), its existence is shown by building it up to each index and its equation is used,
and a statement for all indices is proved from the absence of a least counterexample
(`LeastElement`, `RestExists`, `FoldExists`, `FlatteningExists`).

Only model-checked: liveness (`LockReleased`, `ComesBack`, `GeneratorEnds`,
`EveryCommandEnds`), which the proof system does not cover. The disagreements of section 5
are counterexamples of TLC's.

## 5 Disagreements between the code and what it says

1. *A deleted key comes back* (`tree_deleted`). A merge drops a tombstone together
   with the one older entry it meets (`lsm.cpp:514-519`). Put `k`, let the entry
   sink; put `k` again, let it sink less far; delete `k`: when the tombstone meets
   the second entry both vanish, and the first is found again. `AnswersStable`
   shows that this is the only way: an answer changes without a command
   for its key only where a tombstone lies over two older versions (`Exposed`).
2. *`range` skips the last level* (`tree_range`): `i < MAX_LEVELS` in
   `lsm.cpp:1295` and `1302`, `i <= MAX_LEVELS` in `get`. `RangeAgreesWithGet`
   shows that this is the only difference between the two. With threads a key
   can also be left out whose newest version is elsewhere, if
   an older version went to the last level while the range was running
   (`RangeAnswersCurrent` allows just this).
3. *The last level's size is not on file* (`tree_restart`). The metadata file has
   `MAX_LEVELS` ints (`lsm.cpp:5`) and is indexed from 1 to `MAX_LEVELS`
   (`lsm.cpp:62`, `712`). The last one lies behind the end of the file, in the rest
   of the mapped page: it is there as long as the page stays cached, and 0
   after that. `Startup`, and `Start` of `Crash`, allow both. `DurableAnswersKept` shows that
   a restart loses nothing else that is on disk.
4. *Merges share `TEMP.data`* (`server_temp`). `m 2` holds the locks of levels 2 and 3,
   a flush those of the buffer and level 1; both write `data/TEMP.data`. One merge
   can rename the file that the other is writing, and the other then
   finds no file and exits, or renames the wrong one. In `server`,
   where every merge needs the lock of level 1, this cannot happen.
5. *Puts during `e` are lost* (`server_leave`). Between the flush and `exit(0)`
   (`server.cpp:98-101`) the buffer is unlocked and other threads go on.

More, which no run is made for:

- Three comments on `merge()` ask for more to be dropped than is. "if both are the same key, and
  either one is deleted, skip over both" (`lsm.cpp:514`): the condition below it is about
  the child's entry only, and a level's tombstone met by a newer put is replaced by the put (543-548).
  "skip over deleted elements here" (`lsm.cpp:579` and `626`, over code that is commented
  out), and of `delete_key()`, "when a level calls merge(), the we will skip over the deleted key
  when creating the new merged data" (`lsm.cpp:1393-1394`): all three loops copy a tombstone
  that meets no other entry of its key (533-542, 578-617, 625-657). The code is what
  `SSTable!MergeRuns` and `MergeRun` model and `WritesMergedRun` holds of, and it is right: to skip both
  would lose the put, and to drop a lone tombstone would bring back an older entry of a
  deeper level (the variant `TombstonesDropped`, which violates `AnswersStable`).
- "if `level_metadata.data` file doesn't exist, create it and memset() it to all 0's"
  (`lsm.cpp:896`): a process killed between the open (901) and the write that
  gives the file its length (918) leaves one without a byte, which later processes take for
  an existing one and map (949-957). The first of them creates the files of the levels, takes commands
  (`Create`) and dies of a SIGBUS at its first merge (`RecordFails`, 712); those after it die when they
  read their sizes (`StartFails`, 62). The same becomes of a level by two kills: one in the creation of its
  file, and one, before or after it, between the metadata and the rename of a merge. They
  leave a file without a byte and a size on record, and each start dies reading it (`lsm.cpp:280`). The second part of
  `ComesBack` is about these two; without it `crash` is violated.
- A comment says that data files need not be cleared since `capacity_` and
  `curr_size_` "are correctly maintained" (`lsm.cpp:112-114`). Across kills they are not:
  a level whose file is gone gets a new one, and the start after that takes the size on record
  for it (`Create` and `Extend`, then `Reuse`). It is why
  `DurableRuns` has `Lost`. That it holds for every other level is `OnlyMergedRead`.
- `generator.c:345` and `src/README.md:196` write the name of a file to load in quotes.
  `load` of `database.cpp` takes them off; that of `server.cpp` opens a file with quotes in its
  name and finds none, and so does `evaluate.py:133-134`.

## 6 What is not modelled

- A machine that fails: what the kernel had not written back then, other than in finding 3.
- Two faults in one component at a time that the modules separate: kills of the server with several
  merges on the way (`Crash` has one thread, `Server` no kills), and readers during a merge
  that a level's filter and fence pointers are built in (the lock excludes them).
- Widths of integers: keys and sizes are unbounded. Sizes are `uint64_t` in memory
  and `int` on file; an instance in which that matters has a level of 2^31 entries.
- Command files (`w`), parsing of lines, counters, output format, names of files to load.
- The server's sockets: connecting, closing, splitting of lines by `read`. A line cut in two is
  two other lines, with other numbers: a model of it is about characters. What a
  thread does to the tree once `e` has deleted it and before the process is
  gone is undefined; in `Server` the process has ended.
- The contents of a file that two merges write at the same time: `Server` keeps the run
  written last, and no property but `TempNotShared`, which is violated then, and
  `EveryCommandEnds`, which does not depend on it, is checked where that can happen.
- The threads of `PARALLEL_RANGE`, which is compiled out (`lsm.hh:32`): of them `LSMTree` has
  the orders in which they can get through the levels, one level at a time.
- Of the Bloom filter library: the arithmetic of hash function and optimal parameters, and
  what the tree does not use (set operations, `compressible_bloom_filter`, clearing).
- Of `generator.c`: the parsing of arguments, and with what probability it chooses. Of
  `evaluate.py`: its own `load` and what it prints.
- The profiling scripts and recorded results: no logic of the store.
- I/O errors, on which the code prints a message and exits, except for the missing
  `TEMP.data` of finding 4.

## 7 Plan

The order was: runs and the tree with its commands and restarts, for they carry
every other part; the algorithms beneath it, up to the life of one level; the refinement of the
dictionary; threads; kills; the workloads; and proofs of what had been checked. Next,
the modules joined to each other, so far related by the text of this file only:

1. `Server` to `LSMTree`: between commands, and with one client, the tree of `Server` is that of `LSMTree`.
2. `Crash` to `LSMTree`: without kills, the cascade step by step is `Merge` of `LSMTree`, on arrays instead of runs.
3. `LevelLife` to `Crash`: the loops of `MergeRun` write what `Crash!Output` says (`MergedRunCorrect` and `MergeArraysSorted`
   are the two halves).
