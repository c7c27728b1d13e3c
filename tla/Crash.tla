------------------------------- MODULE Crash -------------------------------
(***************************************************************************)
(* The files of the data directory and what starts and merges do to them,  *)
(* step by step, by a process that can be killed between any two steps and *)
(* started again.  What a process has stored in a mapped file survives it, *)
(* synced or not.  A new file is open()ed, which leaves it without a byte, *)
(* and then extended to its length; here that is the length of the last    *)
(* level's: what is behind a level's capacity is never looked at.          *)
(***************************************************************************)
EXTENDS SortedArray

CONSTANTS
  BUFFER_CAPACITY,
  MAX_LEVELS,
  Capacity,      \* entries level i has room for, capacity_
  MaxCommands,   \* bound: commands that merge
  MaxKills,      \* bound: processes killed
  NoFile, Lost

Levels == 1 .. MAX_LEVELS

ASSUME LevelsAssumption ==
  /\ MAX_LEVELS \in Nat \ {0} /\ BUFFER_CAPACITY \in Nat \ {0}
  /\ Capacity \in [Levels -> Nat \ {0}]
  /\ BUFFER_CAPACITY <= Capacity[1]
  /\ \A i, j \in Levels : i <= j => Capacity[i] <= Capacity[j]
  /\ 0 \notin Keys
  /\ MaxCommands \in Nat /\ MaxKills \in Nat

VARIABLES
  file,       \* the array in LEVELi.data, <<>> before it is extended, or NoFile
  temp,       \* the array in TEMP.data, or NoFile
  meta_file,  \* level_metadata.data: "none", "empty" or "whole"
  meta,       \* the sizes in it
  curr_size,  \* the sizes in memory
  buffer,     \* the run in memory
  pc,         \* what the process does next
  at,         \* the level it does it to
  top,        \* the first level the command merges into
  written,    \* entries written to TEMP.data
  struck,     \* history: the levels that a kill may have damaged
  commands, kills

metadata == <<meta_file, meta>>
files == <<file, temp, metadata>>
memory == <<curr_size, buffer, pc, at, top, written>>
bounds == <<commands, kills>>
vars == <<files, memory, struck, bounds>>

(* The bytes of a file that nothing was written to are an entry, too.      *)
Zero == [key |-> 0, value |-> 0]
NewFile == [p \in 1 .. Capacity[MAX_LEVELS] |-> Zero]

(* A process that does not take commands yet.                              *)
Starting == {"metadata", "start", "extend"}

(* Between the metadata that count a merge as done and the rename that     *)
(* completes it.                                                           *)
Window == {"zero", "remove", "rename"}

Entries(i) == SubSeq(file[i], 1, curr_size[i])

Init ==
  /\ file = [i \in Levels |-> NoFile]
  /\ temp = NoFile
  /\ meta_file = "none"
  /\ meta = [i \in Levels |-> 0]
  /\ curr_size = [i \in Levels |-> 0]
  /\ buffer = Empty
  /\ pc = "down" /\ at = 0 /\ top = 0 /\ written = 0
  /\ struck = {}
  /\ commands = 0 /\ kills = 0

-----------------------------------------------------------------------------
(* The memory of a process is gone.                                        *)
Gone == /\ curr_size' = [i \in Levels |-> 0]
        /\ buffer' = Empty
        /\ pc' = "down" /\ at' = 0 /\ top' = 0 /\ written' = 0

(* Starting: the metadata file, and level by level.                        *)

CreateMetadata == /\ pc = "down"
                  /\ meta_file = "none"
                  /\ meta_file' = "empty"
                  /\ pc' = "metadata"
                  /\ UNCHANGED <<file, temp, meta, curr_size, buffer, at, top,
                                 written, struck, bounds>>

ExtendMetadata == /\ pc = "metadata"
                  /\ meta_file' = "whole"
                  /\ pc' = "start" /\ at' = 1
                  /\ UNCHANGED <<file, temp, meta, curr_size, buffer, top,
                                 written, struck, bounds>>

(* The metadata file of an earlier process is mapped, whatever its length. *)
(* The size of the last level is past its end, in the page but not in the  *)
(* file: it reads as 0 when the kernel has not kept the page.              *)
Start == /\ pc = "down"
         /\ meta_file # "none"
         /\ \E n \in {0, meta[MAX_LEVELS]} : meta' = [meta EXCEPT ![MAX_LEVELS] = n]
         /\ pc' = "start" /\ at' = 1
         /\ UNCHANGED <<file, temp, meta_file, curr_size, buffer, top,
                        written, struck, bounds>>

Started == /\ IF at < MAX_LEVELS THEN at' = at + 1 /\ pc' = "start"
              ELSE at' = 0 /\ pc' = "idle"
           /\ UNCHANGED <<temp, metadata, buffer, top, written, struck, bounds>>

(* A mapped file without a byte is read: the metadata file's entry for the *)
(* level, or, when that says it has entries, the first one of its file.    *)
Unreadable(i) == meta_file = "empty" \/ (file[i] = <<>> /\ meta[i] > 0)

(* level::level() with a file of an earlier process.                       *)
Reuse == /\ pc = "start"
         /\ file[at] # NoFile
         /\ ~ Unreadable(at)
         /\ curr_size' = [curr_size EXCEPT ![at] = meta[at]]
         /\ UNCHANGED file
         /\ Started

(* SIGBUS there.                                                           *)
StartFails == /\ pc = "start"
              /\ file[at] # NoFile
              /\ Unreadable(at)
              /\ Gone
              /\ UNCHANGED <<files, struck, bounds>>

(* Variant: the file is left for the first merge to create.                *)
CreateLater == /\ pc = "start"
               /\ file[at] = NoFile
               /\ UNCHANGED <<file, curr_size>>
               /\ Started

(* level::level() without: the file is created, and the metadata stay.     *)
Create == /\ pc = "start"
          /\ file[at] = NoFile
          /\ file' = [file EXCEPT ![at] = <<>>]
          /\ pc' = "extend"
          /\ UNCHANGED <<temp, metadata, curr_size, buffer, at, top, written,
                         struck, bounds>>

Extend == /\ pc = "extend"
          /\ file' = [file EXCEPT ![at] = NewFile]
          /\ UNCHANGED curr_size
          /\ Started

-----------------------------------------------------------------------------
(* Commands.                                                               *)

(* A merge into level i begins.                                            *)
Command(i) == /\ pc = "idle"
              /\ commands < MaxCommands
              /\ commands' = commands + 1
              /\ pc' = "enter"
              /\ at' = i /\ top' = i
              /\ UNCHANGED <<files, curr_size, written, struck, kills>>

(* buffer::insert() or flush(), after the commands that filled the buffer. *)
Flush(run) == /\ Size(run) \in 1 .. BUFFER_CAPACITY
              /\ Command(1)
              /\ buffer' = run

(* lsm_tree::merge_level().                                                *)
MergeLevel(i) == /\ curr_size[i] > 0
                 /\ Command(i + 1)
                 /\ UNCHANGED buffer

-----------------------------------------------------------------------------
(* level::merge() into level `at`.                                         *)

Child == IF at = 1 THEN Array(buffer) ELSE Entries(at - 1)

(* Variant: the entries that the level holds already are not counted.      *)
OverflowsAlone == Capacity[at] < Len(Child)

Overflows == Capacity[at] - curr_size[at] < Len(Child)

(* Variant: the last level cascades, too.                                  *)
CascadeOn == /\ pc = "enter"
             /\ Overflows
             /\ at' = at + 1
             /\ UNCHANGED <<files, curr_size, buffer, pc, top, written, struck, bounds>>

(* The level is merged into the next one first.                            *)
Cascade == /\ pc = "enter"
           /\ Overflows /\ at # MAX_LEVELS
           /\ at' = at + 1
           /\ UNCHANGED <<files, curr_size, buffer, pc, top, written, struck, bounds>>

(* exit(0): the last level is full.                                        *)
DatabaseFull == /\ pc = "enter"
                /\ Overflows /\ at = MAX_LEVELS
                /\ Gone
                /\ UNCHANGED <<files, struck, bounds>>

Fits == /\ pc = "enter"
        /\ ~ Overflows
        /\ pc' = "temp"
        /\ UNCHANGED <<files, curr_size, buffer, at, top, written, struck, bounds>>

(* Variant: the file must be a new one.                                    *)
OpenTempExclusive == /\ pc = "temp"
                     /\ temp = NoFile
                     /\ temp' = NewFile
                     /\ pc' = "write"
                     /\ written' = 0
                     /\ UNCHANGED <<file, metadata, curr_size, buffer, at, top, struck, bounds>>

(* TEMP.data is created, unless a killed process has left it, and extended *)
(* in either case: one left without a byte makes no difference.            *)
OpenTemp == /\ pc = "temp"
            /\ temp' = IF temp = NoFile THEN NewFile ELSE temp
            /\ pc' = "write"
            /\ written' = 0
            /\ UNCHANGED <<file, metadata, curr_size, buffer, at, top, struck, bounds>>

(* What the loops write, also when the arrays are not sorted runs.         *)
MergeArrays(mine, theirs) ==
  LET rest[n \in (1 .. (Len(mine) + 1)) \X (1 .. (Len(theirs) + 1))] ==
        LET p == n[1]
            q == n[2]
        IN  IF p > Len(mine) THEN SubSeq(theirs, q, Len(theirs))
            ELSE IF q > Len(theirs) THEN SubSeq(mine, p, Len(mine))
            ELSE IF mine[p].key < theirs[q].key THEN <<mine[p]>> \o rest[<<p + 1, q>>]
            ELSE IF mine[p].key > theirs[q].key THEN <<theirs[q]>> \o rest[<<p, q + 1>>]
            ELSE IF theirs[q].value = DELETED_FLAG THEN rest[<<p + 1, q + 1>>]
            ELSE <<theirs[q]>> \o rest[<<p + 1, q + 1>>]
  IN  rest[<<1, 1>>]

Output == MergeArrays(Entries(at), Child)

Write == /\ pc = "write"
         /\ written < Len(Output)
         /\ temp' = [temp EXCEPT ![written + 1] = Output[written + 1]]
         /\ written' = written + 1
         /\ UNCHANGED <<file, metadata, curr_size, buffer, pc, at, top, struck, bounds>>

(* Variant: two entries of a key are counted twice.                        *)
RecordSum ==
  LET sum == curr_size[at] + Len(Child)
  IN  /\ pc = "write"
      /\ written = Len(Output)
      /\ meta_file = "whole"
      /\ curr_size' = [curr_size EXCEPT ![at] = sum]
      /\ meta' = [meta EXCEPT ![at] = sum]
      /\ pc' = IF at > 1 THEN "zero" ELSE "remove"
      /\ UNCHANGED <<file, temp, meta_file, buffer, at, top, written, struck, bounds>>

(* The size of the result, in memory and in the metadata.  What is merged  *)
(* from a damaged level makes the level merged into a damaged one, but the *)
(* one it comes from is empty again.                                       *)
RecordSize == /\ pc = "write"
              /\ written = Len(Output)
              /\ meta_file = "whole"
              /\ curr_size' = [curr_size EXCEPT ![at] = written]
              /\ meta' = [meta EXCEPT ![at] = written]
              /\ struck' = IF {at - 1, at} \cap struck = {} THEN struck
                           ELSE (struck \cup {at}) \ {at - 1}
              /\ pc' = IF at > 1 THEN "zero" ELSE "remove"
              /\ UNCHANGED <<file, temp, meta_file, buffer, at, top, written, bounds>>

(* SIGBUS: the metadata file has no byte to be written to.                 *)
RecordFails == /\ pc = "write"
               /\ written = Len(Output)
               /\ meta_file = "empty"
               /\ Gone
               /\ UNCHANGED <<files, struck, bounds>>

(* Variant: the level above keeps its size in the metadata.                *)
RecordNothing == /\ pc = "zero"
                 /\ pc' = "remove"
                 /\ UNCHANGED <<files, curr_size, buffer, at, top, written, struck, bounds>>

(* A zero for the level above.                                             *)
RecordZero == /\ pc = "zero"
              /\ meta' = [meta EXCEPT ![at - 1] = 0]
              /\ pc' = "remove"
              /\ UNCHANGED <<file, temp, meta_file, curr_size, buffer, at, top,
                             written, struck, bounds>>

Remove == /\ pc = "remove"
          /\ file' = [file EXCEPT ![at] = NoFile]
          /\ pc' = "rename"
          /\ UNCHANGED <<temp, metadata, curr_size, buffer, at, top, written,
                         struck, bounds>>

(* TEMP.data becomes the file of the level.  The caller empties what was   *)
(* merged: the buffer, or the level above, into which an outer merge may   *)
(* now go on to merge what is above that.                                  *)
Rename == /\ pc = "rename"
          /\ file' = [file EXCEPT ![at] = temp]
          /\ temp' = NoFile
          /\ curr_size' = [i \in Levels |-> IF i = at - 1 THEN 0 ELSE curr_size[i]]
          /\ buffer' = IF at = 1 THEN Empty ELSE buffer
          /\ written' = 0
          /\ IF at = top THEN pc' = "idle" /\ at' = 0 /\ top' = 0
             ELSE pc' = "temp" /\ at' = at - 1 /\ UNCHANGED top
          /\ UNCHANGED <<metadata, struck, bounds>>

-----------------------------------------------------------------------------
Kill == /\ pc # "down"
        /\ kills < MaxKills
        /\ kills' = kills + 1
        /\ Gone
        /\ struck' = IF pc \in Window THEN struck \cup ({at - 1, at} \cap Levels)
                     ELSE struck
        /\ UNCHANGED <<files, commands>>

Merge == \/ Cascade \/ DatabaseFull \/ Fits \/ OpenTemp \/ Write
         \/ RecordSize \/ RecordFails \/ RecordZero \/ Remove \/ Rename

Startup == \/ CreateMetadata \/ ExtendMetadata \/ Start
           \/ Reuse \/ StartFails \/ Create \/ Extend

Next == \/ Startup
        \/ \E run \in Run : Flush(run)
        \/ \E i \in 1 .. (MAX_LEVELS - 1) : MergeLevel(i)
        \/ Merge
        \/ Kill

Spec == Init /\ [][Next]_vars /\ WF_vars(Startup \/ Merge)

-----------------------------------------------------------------------------
Entry == lsm_data \cup {Zero}
FileContents == {NoFile, <<>>} \cup [1 .. Capacity[MAX_LEVELS] -> Entry]

TypeOK ==
  /\ file \in [Levels -> FileContents] /\ temp \in FileContents
  /\ meta_file \in {"none", "empty", "whole"}
  /\ meta \in [Levels -> Nat] /\ curr_size \in [Levels -> Nat]
  /\ buffer \in Run
  /\ pc \in {"down", "idle", "enter", "temp", "write"} \cup Starting \cup Window
  /\ at \in 0 .. MAX_LEVELS /\ top \in 0 .. at /\ written \in 0 .. Capacity[MAX_LEVELS]
  /\ struck \subseteq Levels
  /\ commands \in 0 .. MaxCommands /\ kills \in 0 .. MaxKills

(* Whatever kills have done to the files, no level ever counts more        *)
(* entries than it has room for, in memory or in the metadata: the         *)
(* unsigned difference in merge() does not wrap in any later process.      *)
SizesWithinCapacity ==
  \A i \in Levels : curr_size[i] <= Capacity[i] /\ meta[i] <= Capacity[i]

(* A process that takes commands has the file of every level, except for   *)
(* the moment between remove() and rename(): get() and range() find what   *)
(* they open, and no search waits for a file that never comes.             *)
FilesExist ==
  pc \notin {"down"} \cup Starting =>
     \A i \in Levels : file[i] = NoFile => pc = "rename" /\ i = at

(* What a level no kill has struck reads of its file is a sorted run, and  *)
(* all of it was written by its last merge: nothing that a killed merge    *)
(* left behind in TEMP.data shows up, and no byte that was never written.  *)
OnlyMergedRead ==
  pc = "idle" => \A i \in Levels \ struck :
                    /\ curr_size[i] = meta[i]
                    /\ Entries(i) = Array(RunOf(Entries(i)))

(* A process that is no longer killed takes commands again, whatever state *)
(* the files are in: neither a start nor a merge is held up.  Only a file  *)
(* left without a byte, the metadata file or that of a level that has      *)
(* entries on record, makes start after start fail.                        *)
ComesBack == []<>(pc = "idle") \/ <>[](\E i \in Levels : Unreadable(i))

(* The run that the data directory holds for a level.  A merge counts as   *)
(* done when the metadata do: until the rename, its result is TEMP.data.   *)
View(i) == IF i \in struck THEN Lost
           ELSE IF pc \in Window /\ i = at THEN RunOf(SubSeq(temp, 1, meta[i]))
           ELSE IF (pc \in Window /\ i = at - 1) \/ file[i] = NoFile THEN Empty
           ELSE RunOf(SubSeq(file[i], 1, meta[i]))

Durable == INSTANCE DurableRuns WITH
  up     <- pc # "down",
  runs   <- [i \in Levels |-> View(i)],
  buffer <- IF pc \in Window /\ at = 1 THEN Empty ELSE buffer

(* Killed or not, merges are atomic for what later processes find, but for *)
(* the two levels of a merge killed between its metadata and its rename;   *)
(* and no start loses a run, but that of the last level.                   *)
ImplementsDurableRuns == Durable!Spec
=============================================================================
