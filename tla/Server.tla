------------------------------- MODULE Server -------------------------------
(***************************************************************************)
(* The server (server.cpp): one thread per client, all of them on one LSM  *)
(* tree.  A step is what a thread does with a lock it has just taken, or   *)
(* one step of a merge; between two steps the other threads run.  A level  *)
(* is the run that its file, its size and its filter show of it (LSMTree   *)
(* has them apart, and shows that they agree).                             *)
(***************************************************************************)
EXTENDS SSTable

CONSTANTS BUFFER_CAPACITY, INITIAL_LEVEL_CAPACITY, SIZE_RATIO, MAX_LEVELS,
          Capacity, DeletableKeys,   \* as in LSMTree
          Clients,      \* the clients, one thread for each
          NoClient,     \* "not locked"
          Lines,        \* the command lines that the clients may send
          MaxCommands,  \* bound: command lines sent, by all clients together
          InitialVals,  \* the entries of the initial tree have these values
          NoFile        \* "data/TEMP.data does not exist"

Levels == 1 .. MAX_LEVELS

ASSUME ServerAssumption == /\ MAX_LEVELS \in Nat \ {0}
                           /\ BUFFER_CAPACITY \in Nat \ {0}
                           /\ MaxCommands \in Nat
                           /\ DeletableKeys \subseteq Keys
                           /\ InitialVals \subseteq Stored
                           /\ NoClient \notin Clients
                           /\ NoFile \notin Run

(* p key value, d key, g key, m level, r, s, f, e: a manual merge is never *)
(* of the last level, and only deletable keys are deleted.                 *)
ASSUME LinesAssumption ==
  Lines \subseteq ({"p"} \X Keys \X Vals) \cup ({"d"} \X DeletableKeys)
                  \cup ({"g"} \X Keys) \cup ({"m"} \X (1 .. (MAX_LEVELS - 1)))
                  \cup {<<"r">>, <<"s">>, <<"f">>, <<"e">>}

TempFile == 0    \* a file in mapped: data/TEMP.data; i is the file of level i
Removed == -1    \* a file in mapped that has no name any more, or none
UndeletedKeys == Keys \ DeletableKeys

VARIABLES
  buffer,   \* the run in memory
  level,    \* level[i]: the run that level i shows
  temp,     \* the run in data/TEMP.data, or NoFile
  owner,    \* the client that holds the lock of the buffer (0) or of a level
  status,   \* "running", or how the process has ended
  line,     \* the command each client's thread executes; <<>> when none
  pc,       \* where in that command it is
  at,       \* the buffer or level it is at
  mapped,   \* the file a merge has mapped for writing: what it is by now
  merged,   \* the run that a merge has written
  got,      \* the entries that a get or range has found
  sent,     \* number of command lines sent
  store,    \* history variable: what evaluate.py would hold
  seen      \* history variable: what a running read may have found of a key

tree == <<buffer, level>>
vars == <<buffer, level, temp, owner, status, line, pc, at, mapped, merged,
          got, sent, store, seen>>

file == level
curr_size == [i \in Levels |-> Size(level[i])]
filter == [i \in Levels |-> KeysOf(level[i])]
fences == filter
meta == curr_size
Tree == INSTANCE LSMTree

ReadSteps == {"read", "reply"}
MergeSteps == {"enter", "open", "write", "rename", "finish"}
Steps == {"idle", "insert", "find", "flush", "take", "lock", "print", "leave"}
           \cup ReadSteps \cup MergeSteps

TypeOK ==
  /\ buffer \in Run /\ Size(buffer) <= BUFFER_CAPACITY
  /\ level \in [Levels -> Run]
  /\ temp \in Run \cup {NoFile}
  /\ owner \in [0 .. MAX_LEVELS -> Clients \cup {NoClient}]
  /\ status \in {"running", "full", "failed", "exited"}
  /\ line \in [Clients -> Lines \cup {<<>>}]
  /\ pc \in [Clients -> Steps]
  /\ at \in [Clients -> 0 .. MAX_LEVELS]
  /\ mapped \in [Clients -> Levels \cup {TempFile, Removed}]
  /\ merged \in [Clients -> Run]
  /\ got \in [Clients -> Run]
  /\ sent \in 0 .. MaxCommands
  /\ store \in [Keys -> Vals \cup {None}]
  /\ seen \in [Clients -> [UndeletedKeys -> SUBSET (Vals \cup {None})]]

(* Any tree that earlier commands may have left: a run can be brought to a *)
(* level, entry by entry, with puts or deletes, flushes and manual merges, *)
(* the last level first.                                                   *)
RunsOf(capacity) == {run \in [Keys -> InitialVals \cup {None}] :
                       /\ Size(run) <= capacity
                       /\ \A k \in UndeletedKeys : run[k] # DELETED_FLAG}

Init ==
  /\ buffer \in RunsOf(BUFFER_CAPACITY)
  /\ level \in {levels \in [Levels -> RunsOf(Capacity[MAX_LEVELS])] :
                  \A i \in Levels : Size(levels[i]) <= Capacity[i]}
  /\ temp = NoFile
  /\ owner = [m \in 0 .. MAX_LEVELS |-> NoClient]
  /\ status = "running"
  /\ line = [c \in Clients |-> <<>>]
  /\ pc = [c \in Clients |-> "idle"]
  /\ at = [c \in Clients |-> 0]
  /\ mapped = [c \in Clients |-> Removed]
  /\ merged = [c \in Clients |-> Empty]
  /\ got = [c \in Clients |-> Empty]
  /\ sent = 0
  /\ store = [k \in Keys |-> Tree!get(k)]
  /\ seen = [c \in Clients |-> [k \in UndeletedKeys |-> {}]]

-----------------------------------------------------------------------------
(* Locks and command lines.                                                *)

Free(m) == owner[m] = NoClient
Acquire(c, m) == Free(m) /\ owner' = [owner EXCEPT ![m] = c]
Release(m) == owner' = [owner EXCEPT ![m] = NoClient]

op(c) == line[c][1]
key(c) == line[c][2]

GoTo(c, step, position) == /\ pc' = [pc EXCEPT ![c] = step]
                           /\ at' = [at EXCEPT ![c] = position]
                           /\ UNCHANGED line

Done(c) == /\ pc' = [pc EXCEPT ![c] = "idle"]
           /\ at' = [at EXCEPT ![c] = 0]
           /\ line' = [line EXCEPT ![c] = <<>>]

merging == <<temp, mapped, merged>>

(* handle_client_connection(), processCommands().                          *)
FirstStep(command) == CASE command = "p" -> "insert"
                        [] command = "d" -> "find"
                        [] command \in {"g", "r"} -> "read"
                        [] command = "s" -> "lock"
                        [] command \in {"f", "e"} -> "flush"
                        [] command = "m" -> "take"

Receive(c) == /\ pc[c] = "idle"
              /\ sent < MaxCommands
              /\ sent' = sent + 1
              /\ \E l \in Lines : /\ line' = [line EXCEPT ![c] = l]
                                  /\ pc' = [pc EXCEPT ![c] = FirstStep(l[1])]
              /\ UNCHANGED <<tree, owner, status, store, at, merging, got>>

-----------------------------------------------------------------------------
(* Commands that write the buffer.                                         *)

(* The entry that a put or a delete writes, and what the dictionary holds. *)
Entry(c) == IF op(c) = "p" THEN line[c][3] ELSE DELETED_FLAG
Record(c) == store' = [store EXCEPT ![key(c)] = Tree!Visible(Entry(c))]

(* Variant: the buffer takes one more entry than it has room for.          *)
InsertOneMore(c) ==
  /\ pc[c] = "insert"
  /\ \/ /\ Free(0)
        /\ key(c) \in KeysOf(buffer) \/ Size(buffer) <= BUFFER_CAPACITY
        /\ buffer' = [buffer EXCEPT ![key(c)] = Entry(c)]
        /\ Record(c)
        /\ Done(c)
        /\ UNCHANGED owner
     \/ /\ key(c) \notin KeysOf(buffer) /\ Size(buffer) > BUFFER_CAPACITY
        /\ Acquire(c, 0)
        /\ GoTo(c, "enter", 1)
        /\ UNCHANGED <<buffer, store>>
  /\ UNCHANGED <<level, status, merging, got, sent>>

(* buffer::insert() up to the merge of a full buffer.                      *)
Insert(c) ==
  /\ pc[c] = "insert"
  /\ \/ /\ Free(0)
        /\ key(c) \in KeysOf(buffer) \/ Size(buffer) < BUFFER_CAPACITY
        /\ buffer' = [buffer EXCEPT ![key(c)] = Entry(c)]
        /\ Record(c)
        /\ Done(c)
        /\ UNCHANGED owner
     \/ /\ key(c) \notin KeysOf(buffer) /\ Size(buffer) = BUFFER_CAPACITY
        /\ Acquire(c, 0)
        /\ GoTo(c, "enter", 1)
        /\ UNCHANGED <<buffer, store>>
  /\ UNCHANGED <<level, status, merging, got, sent>>

(* The first critical section of delete_key(); insert() is the second.     *)
Find(c) ==
  /\ pc[c] = "find"
  /\ Free(0)
  /\ \/ /\ key(c) \in KeysOf(buffer)
        /\ buffer' = [buffer EXCEPT ![key(c)] = DELETED_FLAG]
        /\ Record(c)
        /\ Done(c)
     \/ /\ key(c) \notin KeysOf(buffer)
        /\ GoTo(c, "insert", 0)
        /\ UNCHANGED <<buffer, store>>
  /\ UNCHANGED <<level, owner, status, merging, got, sent>>

(* buffer::flush() up to the merge.                                        *)
Flush(c) == /\ pc[c] = "flush"
            /\ Acquire(c, 0)
            /\ GoTo(c, "enter", 1)
            /\ UNCHANGED <<tree, status, store, merging, got, sent>>

(* Variant: the level merged down is not locked.                           *)
TakeUnlocked(c) == /\ pc[c] = "take"
                   /\ GoTo(c, "enter", line[c][2] + 1)
                   /\ UNCHANGED <<tree, owner, status, store, merging, got, sent>>

(* merge_level() up to the merge.                                          *)
Take(c) == /\ pc[c] = "take"
           /\ Acquire(c, line[c][2])
           /\ GoTo(c, "enter", line[c][2] + 1)
           /\ UNCHANGED <<tree, status, store, merging, got, sent>>

-----------------------------------------------------------------------------
(* level::merge() of the level at[c].  Locks are held from the buffer or   *)
(* level that the command began with down to this level.                   *)

Top(c) == IF op(c) = "m" THEN line[c][2] + 1 ELSE 1
Above(i) == IF i = 1 THEN buffer ELSE level[i - 1]
Overflows(i) == Capacity[i] - Size(level[i]) < Size(Above(i))

(* The lock is taken.  There may be nothing to merge; there may have to be *)
(* a merge of this level into the next one first, or the last level may be *)
(* full.                                                                   *)
Enter(c) ==
  LET i == at[c]
  IN  /\ pc[c] = "enter"
      /\ Free(i)
      /\ \/ /\ Above(i) = Empty
            /\ IF i = Top(c) THEN GoTo(c, "finish", i) ELSE GoTo(c, "open", i - 1)
            /\ UNCHANGED <<owner, status>>
         \/ /\ Above(i) # Empty /\ Overflows(i) /\ i < MAX_LEVELS
            /\ Acquire(c, i)
            /\ GoTo(c, "enter", i + 1)
            /\ UNCHANGED status
         \/ /\ Above(i) # Empty /\ Overflows(i) /\ i = MAX_LEVELS
            /\ status' = "full"
            /\ UNCHANGED <<owner, line, pc, at>>
         \/ /\ Above(i) # Empty /\ ~ Overflows(i)
            /\ Acquire(c, i)
            /\ GoTo(c, "open", i)
            /\ UNCHANGED status
      /\ UNCHANGED <<tree, store, merging, got, sent>>

(* data/TEMP.data is opened, or created, and mapped.                       *)
Open(c) == /\ pc[c] = "open"
           /\ temp' = IF temp = NoFile THEN Empty ELSE temp
           /\ mapped' = [mapped EXCEPT ![c] = TempFile]
           /\ GoTo(c, "write", at[c])
           /\ UNCHANGED <<tree, owner, status, store, merged, got, sent>>

(* Variant: the entry of the level wins.                                   *)
WriteOlder(c) ==
  LET run == OlderWins(level[at[c]], Above(at[c]))
  IN  /\ pc[c] = "write"
      /\ merged' = [merged EXCEPT ![c] = run]
      /\ temp' = IF mapped[c] = TempFile THEN run ELSE temp
      /\ level' = IF mapped[c] \in Levels THEN [level EXCEPT ![mapped[c]] = run] ELSE level
      /\ GoTo(c, "rename", at[c])
      /\ UNCHANGED <<buffer, owner, status, store, mapped, got, sent>>

(* The merged run is written where the file that was mapped is by now.  Of *)
(* two merges that write one file only the order is kept here: the file    *)
(* shows the run written last, whatever is left of the other behind it.    *)
Write(c) ==
  LET run == MergeRuns(level[at[c]], Above(at[c]))
  IN  /\ pc[c] = "write"
      /\ merged' = [merged EXCEPT ![c] = run]
      /\ temp' = IF mapped[c] = TempFile THEN run ELSE temp
      /\ level' = IF mapped[c] \in Levels THEN [level EXCEPT ![mapped[c]] = run] ELSE level
      /\ GoTo(c, "rename", at[c])
      /\ UNCHANGED <<buffer, owner, status, store, mapped, got, sent>>

(* The file of the level is removed and TEMP.data renamed; where it is     *)
(* gone the process exits.  The size is that of the run written, the level *)
(* above has given its entries away, and the merge returns to the caller.  *)
Rename(c) ==
  LET i == at[c]
  IN  /\ pc[c] = "rename"
      /\ \/ /\ temp = NoFile
            /\ status' = "failed"
            /\ UNCHANGED <<tree, owner, line, pc, at, merging>>
         \/ /\ temp # NoFile
            /\ level' = [j \in Levels |-> IF j = i THEN Prefix(temp, Size(merged[c]))
                                          ELSE IF j = i - 1 THEN Empty
                                          ELSE level[j]]
            /\ temp' = NoFile
            /\ mapped' = [d \in Clients |-> IF d = c \/ mapped[d] = i THEN Removed
                                            ELSE IF mapped[d] = TempFile THEN i
                                            ELSE mapped[d]]
            /\ merged' = [merged EXCEPT ![c] = Empty]
            /\ Release(i)
            /\ IF i = Top(c) THEN GoTo(c, "finish", i) ELSE GoTo(c, "open", i - 1)
            /\ UNCHANGED <<buffer, status>>
      /\ UNCHANGED <<store, got, sent>>

(* Back in the function that began the merge, which holds one lock.        *)
Finish(c) ==
  /\ pc[c] = "finish"
  /\ Release(Top(c) - 1)
  /\ CASE op(c) \in {"p", "d"} -> /\ buffer' = [Empty EXCEPT ![key(c)] = Entry(c)]
                                  /\ Record(c)
                                  /\ Done(c)
       [] op(c) = "f" -> buffer' = Empty /\ Done(c) /\ UNCHANGED store
       [] op(c) = "e" -> buffer' = Empty /\ GoTo(c, "leave", 0) /\ UNCHANGED store
       [] op(c) = "m" -> Done(c) /\ UNCHANGED <<buffer, store>>
  /\ UNCHANGED <<level, status, merging, got, sent>>

(* cleanup() and exit(), after the flush of `e`.                           *)
Leave(c) == /\ pc[c] = "leave"
            /\ status' = "exited"
            /\ UNCHANGED <<tree, owner, store, line, pc, at, merging, got, sent>>

-----------------------------------------------------------------------------
(* Commands that read.  One lock is held at a time.                        *)

(* Variant: the levels are searched from the largest to the smallest.      *)
GetUpwards(c) ==
  LET v == Tree!Version(MAX_LEVELS - at[c], key(c))
  IN  /\ pc[c] = "read" /\ op(c) = "g"
      /\ Free(MAX_LEVELS - at[c])
      /\ got' = [got EXCEPT ![c][key(c)] = v]
      /\ IF v = None /\ at[c] < MAX_LEVELS THEN GoTo(c, "read", at[c] + 1)
                                           ELSE GoTo(c, "reply", at[c])
      /\ UNCHANGED <<tree, owner, status, store, merging, sent>>

(* get(): the search ends at the first version.                            *)
Get(c) ==
  LET v == Tree!Version(at[c], key(c))
  IN  /\ pc[c] = "read" /\ op(c) = "g"
      /\ Free(at[c])
      /\ got' = [got EXCEPT ![c][key(c)] = v]
      /\ IF v = None /\ at[c] < MAX_LEVELS THEN GoTo(c, "read", at[c] + 1)
                                           ELSE GoTo(c, "reply", at[c])
      /\ UNCHANGED <<tree, owner, status, store, merging, sent>>

(* Variant: the entry of a larger level replaces the one found before.     *)
RangeReplaces(c) ==
  /\ pc[c] = "read" /\ op(c) = "r"
  /\ Free(at[c])
  /\ got' = [got EXCEPT ![c] = [k \in Keys |->
               IF Tree!Version(at[c], k) # None THEN Tree!Version(at[c], k)
               ELSE got[c][k]]]
  /\ IF at[c] < MAX_LEVELS - 1 THEN GoTo(c, "read", at[c] + 1)
                               ELSE GoTo(c, "reply", at[c])
  /\ UNCHANGED <<tree, owner, status, store, merging, sent>>

(* range() over all keys: what was found at a smaller level stays.         *)
RangeLevel(c) ==
  /\ pc[c] = "read" /\ op(c) = "r"
  /\ Free(at[c])
  /\ got' = [got EXCEPT ![c] = [k \in Keys |->
               IF got[c][k] # None THEN got[c][k] ELSE Tree!Version(at[c], k)]]
  /\ IF at[c] < MAX_LEVELS - 1 THEN GoTo(c, "read", at[c] + 1)
                               ELSE GoTo(c, "reply", at[c])
  /\ UNCHANGED <<tree, owner, status, store, merging, sent>>

Reply(c) == /\ pc[c] = "reply"
            /\ Done(c)
            /\ got' = [got EXCEPT ![c] = Empty]
            /\ UNCHANGED <<tree, owner, status, store, merging, sent>>

(* Variant: the buffer is not locked.                                      *)
LockLevels(c) == /\ pc[c] = "lock"
                 /\ IF at[c] = 0 THEN UNCHANGED owner ELSE Acquire(c, at[c])
                 /\ IF at[c] < MAX_LEVELS - 1 THEN GoTo(c, "lock", at[c] + 1)
                                              ELSE GoTo(c, "print", at[c])
                 /\ UNCHANGED <<tree, status, store, merging, got, sent>>

(* Variant: the locks are taken from the larger levels to the buffer.      *)
LockUpwards(c) == /\ pc[c] = "lock"
                  /\ Acquire(c, MAX_LEVELS - 1 - at[c])
                  /\ IF at[c] < MAX_LEVELS - 1 THEN GoTo(c, "lock", at[c] + 1)
                                               ELSE GoTo(c, "print", at[c])
                  /\ UNCHANGED <<tree, status, store, merging, got, sent>>

(* printStats() locks the buffer and every level but the last.             *)
Lock(c) == /\ pc[c] = "lock"
           /\ Acquire(c, at[c])
           /\ IF at[c] < MAX_LEVELS - 1 THEN GoTo(c, "lock", at[c] + 1)
                                        ELSE GoTo(c, "print", at[c])
           /\ UNCHANGED <<tree, status, store, merging, got, sent>>

PrintStats(c) ==
  /\ pc[c] = "print"
  /\ owner' = [m \in 0 .. MAX_LEVELS |-> IF m < MAX_LEVELS THEN NoClient ELSE owner[m]]
  /\ Done(c)
  /\ UNCHANGED <<tree, status, store, merging, got, sent>>

-----------------------------------------------------------------------------
(* What an answer to c's command about k may be at this moment.            *)
Reads(c, k) == pc[c] \in ReadSteps /\ (op(c) = "g" => key(c) = k)
Current(c, k) == IF op(c) = "r" /\ Tree!Version(MAX_LEVELS, k) # None
                 THEN {store[k], None} ELSE {store[k]}

Watch == seen' = [c \in Clients |-> [k \in UndeletedKeys |->
                    IF Reads(c, k)' THEN seen[c][k] \cup Current(c, k)' ELSE {}]]

Step(c) == \/ Insert(c) \/ Find(c) \/ Flush(c) \/ Take(c)
           \/ Enter(c) \/ Open(c) \/ Write(c) \/ Rename(c) \/ Finish(c) \/ Leave(c)
           \/ Get(c) \/ RangeLevel(c) \/ Reply(c) \/ Lock(c) \/ PrintStats(c)

Next == /\ status = "running"
        /\ \E c \in Clients : Receive(c) \/ Step(c)
        /\ Watch

(* Threads that are not blocked go on.  The clients send finitely many     *)
(* lines, so a lock that is waited for is not taken for ever by others.    *)
Fairness == \A c \in Clients : WF_vars(status = "running" /\ Step(c) /\ Watch)

Spec == Init /\ [][Next]_vars /\ Fairness

-----------------------------------------------------------------------------
(* Properties.                                                             *)

(* Between any two steps of concurrent commands, also in the middle of a   *)
(* cascade, the tree holds for every key of the dictionary its value.      *)
LiveKeysRead == Tree!LiveKeysRead

(* get() answers with a value that the key had at some moment since the    *)
(* command began, although it holds one lock at a time while merges move   *)
(* entries down past it: no key is missed and no stale version is found.   *)
GetAnswersCurrent ==
  \A c \in Clients, k \in UndeletedKeys :
     pc[c] = "reply" /\ op(c) = "g" /\ key(c) = k => got[c][k] \in seen[c][k]

(* range() keeps a set of keys found "to ensure we have the most recent    *)
(* values for each key": it reports of each key a value that it had at     *)
(* some moment since the command began; it leaves one out only if the key  *)
(* was absent, or had an entry at the last level, at such a moment.        *)
RangeAnswersCurrent ==
  \A c \in Clients, k \in UndeletedKeys :
     pc[c] = "reply" /\ op(c) = "r" => got[c][k] \in seen[c][k]

(* printStats() acquires "all necessary locks at beginning to ensure state *)
(* of LSM tree does not change while we print"; the last level, which is   *)
(* not locked, does not change either.                                     *)
StatsSeeOneState == [][(\E c \in Clients : pc[c] = "print") => UNCHANGED tree]_vars

(* The temporary file that a merge writes its run to "will later be        *)
(* renamed the LEVEL#.data file": nobody else has written to it, or has    *)
(* renamed it, in between.                                                 *)
TempNotShared == \A c \in Clients : pc[c] = "rename" => temp = merged[c]

(* When a client's `e` ends the process, "all data is on disk and nothing  *)
(* will be wiped when the program exits".                                  *)
NothingLeftInMemory == status = "exited" => buffer = Empty

(* The lock that the next step of c's thread takes, and whether another    *)
(* thread has it.                                                          *)
Wanted(c) == IF pc[c] \in {"insert", "find", "flush"} THEN 0
             ELSE IF pc[c] = "take" THEN line[c][2]
             ELSE at[c]
Blocked(c) == /\ pc[c] \in {"insert", "find", "flush", "take", "enter", "read", "lock"}
              /\ ~ Free(Wanted(c))

(* Threads with commands never all wait for each other's locks, which all  *)
(* commands, cascades, manual merges at any level and printStats() among   *)
(* them, take from the buffer downwards.                                   *)
SomeoneGoesOn == (\E c \in Clients : pc[c] # "idle") =>
                    \E c \in Clients : pc[c] # "idle" /\ ~ Blocked(c)

(* No command waits for ever for a lock: there is no deadlock among        *)
(* merges, which lock downwards, and printStats(), which locks nearly all. *)
EveryCommandEnds == \A c \in Clients :
  pc[c] # "idle" ~> (pc[c] = "idle" \/ status # "running")
=============================================================================
