---------------------------- MODULE Server_proofs ----------------------------
(***************************************************************************)
(* Theorems about Server, for any number of clients, levels and lines of   *)
(* each kind, and any interleaving: which thread holds which lock, what a  *)
(* merge in progress leaves to see, and what readers may find.             *)
(***************************************************************************)
EXTENDS Server, SSTable_proofs

-----------------------------------------------------------------------------
(* Where threads are, and the locks they hold.                             *)

WritingSteps == {"open", "write", "rename"}

(* A thread is at a step of its command.                                   *)
Position(c) ==
  /\ pc[c] # "idle" => line[c] \in Lines
  /\ pc[c] = "insert" => op(c) \in {"p", "d"}
  /\ pc[c] = "find" => op(c) = "d"
  /\ pc[c] = "flush" => op(c) \in {"f", "e"}
  /\ pc[c] = "take" => op(c) = "m"
  /\ pc[c] \in MergeSteps => op(c) \in {"p", "d", "f", "e", "m"}
                             /\ at[c] \in Top(c) .. MAX_LEVELS
  /\ pc[c] \in ReadSteps => op(c) \in {"g", "r"}
  /\ pc[c] \in {"lock", "print"} => op(c) = "s"
  /\ pc[c] \in {"lock", "read"} /\ op(c) # "g" => at[c] < MAX_LEVELS
  /\ pc[c] \in {"idle", "insert", "find", "flush", "take", "leave"} => at[c] = 0

Positions == \A c \in Clients : Position(c)

(* The locks that a thread needs for what it does next.                    *)
Holds(c, m) ==
  \/ pc[c] = "enter" /\ Top(c) - 1 <= m /\ m < at[c]
  \/ pc[c] \in WritingSteps /\ Top(c) - 1 <= m /\ m <= at[c]
  \/ pc[c] = "finish" /\ m = Top(c) - 1
  \/ pc[c] = "lock" /\ m < at[c]
  \/ pc[c] = "print" /\ m < MAX_LEVELS

(* It holds these and no others.                                           *)
LocksHeld == \A c \in Clients, m \in 0 .. MAX_LEVELS : owner[m] = c <=> Holds(c, m)

Control == TypeOK /\ Positions /\ LocksHeld

LEMMA LineKinds ==
  ASSUME NEW l \in Lines
  PROVE  /\ l # <<>>
         /\ l[1] \in {"p", "d", "g", "m", "r", "s", "f", "e"}
         /\ l[1] \in {"p", "d", "g"} => l[2] \in Keys
         /\ l[1] = "p" => l[3] \in Vals
         /\ l[1] = "d" => l[2] \in DeletableKeys
         /\ l[1] = "m" => l[2] \in 1 .. (MAX_LEVELS - 1)
<1>1. l \in {"p"} \X Keys \X Vals => l # <<>> /\ l[1] = "p" /\ l[2] \in Keys /\ l[3] \in Vals
  OBVIOUS
<1>2. l \in {"d"} \X DeletableKeys =>
        l # <<>> /\ l[1] = "d" /\ l[2] \in Keys /\ l[2] \in DeletableKeys
  BY ServerAssumption
<1>3. l \in {"g"} \X Keys => l # <<>> /\ l[1] = "g" /\ l[2] \in Keys
  OBVIOUS
<1>4. l \in {"m"} \X (1 .. (MAX_LEVELS - 1)) =>
        l # <<>> /\ l[1] = "m" /\ l[2] \in 1 .. (MAX_LEVELS - 1)
  OBVIOUS
<1>5. l \in {<<"r">>, <<"s">>, <<"f">>, <<"e">>} =>
        l # <<>> /\ l[1] \in {"r", "s", "f", "e"}
  OBVIOUS
<1> QED
  BY <1>1, <1>2, <1>3, <1>4, <1>5, LinesAssumption

(* The first level that a command merges into, at most the last one.       *)
LEMMA TopLevel ==
  ASSUME NEW c \in Clients, line[c] \in Lines
  PROVE  /\ Top(c) \in Levels
         /\ op(c) # "m" => Top(c) = 1
         /\ op(c) = "m" => Top(c) = line[c][2] + 1 /\ Top(c) # 1
BY LineKinds, ServerAssumption DEF Top, op, Levels

(* A put's or a delete's entry.                                            *)
LEMMA EntryType ==
  ASSUME NEW c \in Clients, line[c] \in Lines, op(c) \in {"p", "d"}
  PROVE  /\ key(c) \in Keys
         /\ Entry(c) \in Stored
         /\ Tree!Visible(Entry(c)) \in Vals \cup {None}
         /\ key(c) \in UndeletedKeys =>
              Entry(c) \in Vals /\ Tree!Visible(Entry(c)) = Entry(c)
BY LineKinds, ValuesAssumption, ServerAssumption
DEF op, key, Entry, Stored, Tree!Visible, UndeletedKeys

-----------------------------------------------------------------------------
(* What a search finds of k at position i: the entry of the buffer or of   *)
(* the level.                                                              *)
At(i, k) == IF i = 0 THEN buffer[k] ELSE level[i][k]

LEMMA TreePrefix ==
  ASSUME NEW run, NEW n
  PROVE  Tree!Prefix(run, n) = Prefix(run, n)
<1>1. \A S : Tree!Cardinality(S) = Cardinality(S)
  BY DEF Tree!Cardinality, Cardinality
<1> QED
  BY <1>1 DEF Tree!Prefix, Prefix, Tree!KeysOf, KeysOf

LEMMA VersionIsAt ==
  ASSUME buffer \in Run, level \in [Levels -> Run], NEW k \in Keys
  PROVE  \A i \in 0 .. MAX_LEVELS : /\ Tree!Version(i, k) = At(i, k)
                                    /\ At(i, k) \in Stored \cup {None}
<1> SUFFICES ASSUME NEW i \in 0 .. MAX_LEVELS
             PROVE  Tree!Version(i, k) = At(i, k) /\ At(i, k) \in Stored \cup {None}
  OBVIOUS
<1>1. CASE i = 0
  BY <1>1 DEF Tree!Version, At, Run
<1>2. CASE i # 0
  <2>1. i \in Levels
    BY <1>2, ServerAssumption DEF Levels
  <2>2. level[i] \in Run
    BY <2>1
  <2>3. Tree!Level(i) = level[i]
    BY <2>1, <2>2, TreePrefix, PrefixAll DEF Tree!Level, file, curr_size
  <2>4. Tree!Version(i, k) = IF k \in KeysOf(level[i]) THEN level[i][k] ELSE None
    BY <1>2, <2>1, <2>3 DEF Tree!Version, filter, fences
  <2> QED
    BY <1>2, <2>2, <2>4 DEF At, KeysOf, Run
<1> QED
  BY <1>1, <1>2

LEMMA GetType ==
  ASSUME buffer \in Run, level \in [Levels -> Run], NEW k \in Keys
  PROVE  Tree!get(k) \in Vals \cup {None}
BY VersionIsAt DEF Tree!get, Tree!Visible, Stored

LEMMA InitControl == Init => Control
<1> SUFFICES ASSUME Init PROVE Control
  OBVIOUS
<1>1. /\ buffer \in Run /\ Size(buffer) <= BUFFER_CAPACITY
      /\ level \in [Levels -> Run]
  BY ServerAssumption DEF Init, RunsOf, Run
<1>2. store \in [Keys -> Vals \cup {None}]
  BY <1>1, GetType DEF Init
<1>3. TypeOK
  BY <1>1, <1>2, EmptyRun, ServerAssumption DEF Init, TypeOK, Steps
<1>4. Positions
  BY DEF Init, Positions, Position, MergeSteps, ReadSteps
<1>5. LocksHeld
  BY ServerAssumption DEF Init, LocksHeld, Holds, WritingSteps
<1> QED
  BY <1>3, <1>4, <1>5 DEF Control
-----------------------------------------------------------------------------
(* How a step moves its thread.                                            *)

ThreadTypes == /\ line \in [Clients -> Lines \cup {<<>>}]
               /\ pc \in [Clients -> Steps]
               /\ at \in [Clients -> 0 .. MAX_LEVELS]

(* What the thread of d is doing is as before.                             *)
Stays(d) == line'[d] = line[d] /\ pc'[d] = pc[d] /\ at'[d] = at[d]

LEMMA StepNames ==
  /\ MergeSteps \subseteq Steps /\ ReadSteps \subseteq Steps /\ WritingSteps \subseteq Steps
  /\ {"idle", "insert", "find", "flush", "take", "lock", "print", "leave", "read",
      "reply", "enter", "open", "write", "rename", "finish"} \subseteq Steps
BY DEF Steps, MergeSteps, ReadSteps, WritingSteps

LEMMA GoToMoves ==
  ASSUME ThreadTypes, NEW c \in Clients, NEW step \in Steps,
         NEW position \in 0 .. MAX_LEVELS, GoTo(c, step, position)
  PROVE  /\ ThreadTypes'
         /\ pc'[c] = step /\ at'[c] = position /\ line'[c] = line[c]
         /\ \A d \in Clients \ {c} : Stays(d)
BY DEF ThreadTypes, GoTo, Stays

LEMMA DoneMoves ==
  ASSUME ThreadTypes, NEW c \in Clients, Done(c)
  PROVE  /\ ThreadTypes'
         /\ pc'[c] = "idle" /\ at'[c] = 0
         /\ \A d \in Clients \ {c} : Stays(d)
BY StepNames, ServerAssumption DEF ThreadTypes, Done, Stays

LEMMA ReceiveMoves ==
  ASSUME ThreadTypes, NEW c \in Clients, Receive(c)
  PROVE  /\ ThreadTypes'
         /\ at'[c] = at[c]
         /\ line'[c] \in Lines /\ pc'[c] = FirstStep(line'[c][1])
         /\ \A d \in Clients \ {c} : Stays(d)
<1>1. PICK l \in Lines : /\ line' = [line EXCEPT ![c] = l]
                         /\ pc' = [pc EXCEPT ![c] = FirstStep(l[1])]
  BY DEF Receive
<1>2. FirstStep(l[1]) \in Steps
  BY LineKinds, StepNames DEF FirstStep
<1>3. at' = at
  BY DEF Receive
<1> QED
  BY <1>1, <1>2, <1>3 DEF ThreadTypes, Stays

-----------------------------------------------------------------------------
(* Each step keeps threads where their commands are, and the locks with    *)
(* those that hold them.                                                   *)

Moved(c) == /\ ThreadTypes' /\ Position(c)' /\ LocksHeld'
            /\ owner' \in [0 .. MAX_LEVELS -> Clients \cup {NoClient}]
            /\ \A d \in Clients \ {c} : Stays(d)

LEMMA HoldsStays ==
  ASSUME NEW d, NEW m, Stays(d)
  PROVE  Holds(d, m)' <=> Holds(d, m)
BY DEF Stays, Holds, Top, op

(* The locks of c change as owner does.                                    *)
LEMMA LocksKept ==
  ASSUME LocksHeld, NEW c \in Clients, owner' = owner,
         \A d \in Clients \ {c} : Stays(d),
         \A m \in 0 .. MAX_LEVELS : Holds(c, m)' <=> Holds(c, m)
  PROVE  LocksHeld'
BY HoldsStays DEF LocksHeld

LEMMA LockAcquired ==
  ASSUME LocksHeld, NEW c \in Clients, NEW l \in 0 .. MAX_LEVELS, Acquire(c, l),
         owner \in [0 .. MAX_LEVELS -> Clients \cup {NoClient}],
         \A d \in Clients \ {c} : Stays(d),
         \A m \in 0 .. MAX_LEVELS : Holds(c, m)' <=> Holds(c, m) \/ m = l
  PROVE  LocksHeld' /\ owner' \in [0 .. MAX_LEVELS -> Clients \cup {NoClient}]
<1>1. owner' \in [0 .. MAX_LEVELS -> Clients \cup {NoClient}]
  BY DEF Acquire
<1>2. ASSUME NEW m \in 0 .. MAX_LEVELS PROVE owner'[m] = c <=> Holds(c, m)'
  BY <1>2 DEF Acquire, LocksHeld
<1>3. ASSUME NEW d \in Clients \ {c}, NEW m \in 0 .. MAX_LEVELS
      PROVE  owner'[m] = d <=> Holds(d, m)'
  <2>1. Holds(d, m)' <=> Holds(d, m)
    BY HoldsStays
  <2> QED
    BY <2>1, ServerAssumption DEF Acquire, Free, LocksHeld
<1> QED
  BY <1>1, <1>2, <1>3 DEF LocksHeld

LEMMA LockReleased ==
  ASSUME LocksHeld, NEW c \in Clients, NEW l \in 0 .. MAX_LEVELS, Release(l),
         owner \in [0 .. MAX_LEVELS -> Clients \cup {NoClient}],
         Holds(c, l),
         \A d \in Clients \ {c} : Stays(d),
         \A m \in 0 .. MAX_LEVELS : Holds(c, m)' <=> Holds(c, m) /\ m # l
  PROVE  LocksHeld' /\ owner' \in [0 .. MAX_LEVELS -> Clients \cup {NoClient}]
<1>1. owner' \in [0 .. MAX_LEVELS -> Clients \cup {NoClient}]
  BY DEF Release
<1>2. ASSUME NEW m \in 0 .. MAX_LEVELS PROVE owner'[m] = c <=> Holds(c, m)'
  BY <1>2, ServerAssumption DEF Release, LocksHeld
<1>3. ASSUME NEW d \in Clients \ {c}, NEW m \in 0 .. MAX_LEVELS
      PROVE  owner'[m] = d <=> Holds(d, m)'
  <2>1. Holds(d, m)' <=> Holds(d, m)
    BY HoldsStays
  <2>2. owner[l] = c
    BY DEF LocksHeld
  <2> QED
    BY <2>1, <2>2, ServerAssumption DEF Release, LocksHeld
<1> QED
  BY <1>1, <1>2, <1>3 DEF LocksHeld

(* A thread that is not in one of these steps holds no lock.               *)
LockSteps == WritingSteps \cup {"enter", "finish", "lock", "print"}
LEMMA HoldsNothing ==
  ASSUME NEW c, NEW m
  PROVE  /\ pc[c] \notin LockSteps => ~ Holds(c, m)
         /\ pc'[c] \notin LockSteps => ~ Holds(c, m)'
BY DEF Holds, LockSteps, WritingSteps

(* What Control says of one thread.                                        *)
LEMMA ControlOf ==
  ASSUME Control, NEW c \in Clients
  PROVE  /\ ThreadTypes /\ Position(c) /\ LocksHeld
         /\ owner \in [0 .. MAX_LEVELS -> Clients \cup {NoClient}]
         /\ at[c] \in 0 .. MAX_LEVELS /\ pc[c] \in Steps
         /\ pc[c] # "idle" => line[c] \in Lines /\ Top(c) \in Levels
BY TopLevel DEF Control, TypeOK, ThreadTypes, Positions, Position

LEMMA ReceiveControl ==
  ASSUME Control, NEW c \in Clients, Receive(c) PROVE Moved(c)
<1>1. pc[c] = "idle" /\ at[c] = 0
  BY ControlOf DEF Position, Receive
<1>2. /\ ThreadTypes' /\ at'[c] = 0
      /\ line'[c] \in Lines /\ pc'[c] = FirstStep(line'[c][1])
      /\ \A d \in Clients \ {c} : Stays(d)
  BY <1>1, ControlOf, ReceiveMoves
<1>3. line'[c][1] \in {"p", "d", "g", "m", "r", "s", "f", "e"}
  BY <1>2, LineKinds
<1>4. Position(c)'
  BY <1>2, <1>3, ServerAssumption DEF Position, FirstStep, MergeSteps, ReadSteps, op
<1>5. \A m \in 0 .. MAX_LEVELS : ~ Holds(c, m) /\ ~ Holds(c, m)'
  BY <1>1, <1>2, <1>3 DEF Holds, WritingSteps, FirstStep
<1>6. LocksHeld' /\ owner' = owner
  BY <1>2, <1>5, ControlOf, LocksKept DEF Receive
<1> QED
  BY <1>2, <1>4, <1>6, ControlOf DEF Moved

(* Steps that several actions take: a command without locks ends, or goes  *)
(* on without them; a command begins a merge.                              *)
LEMMA EndsControl ==
  ASSUME Control, NEW c \in Clients, Done(c), owner' = owner, pc[c] \notin LockSteps
  PROVE  Moved(c)
<1>1. ThreadTypes' /\ pc'[c] = "idle" /\ at'[c] = 0 /\ \A d \in Clients \ {c} : Stays(d)
  BY ControlOf, DoneMoves
<1>2. Position(c)'
  BY <1>1 DEF Position, MergeSteps, ReadSteps
<1>3. \A m \in 0 .. MAX_LEVELS : ~ Holds(c, m) /\ ~ Holds(c, m)'
  BY <1>1, HoldsNothing DEF LockSteps, WritingSteps
<1> QED
  BY <1>1, <1>2, <1>3, ControlOf, LocksKept DEF Moved

LEMMA GoesOnControl ==
  ASSUME Control, NEW c \in Clients, NEW step \in Steps, NEW position \in 0 .. MAX_LEVELS,
         GoTo(c, step, position), owner' = owner,
         pc[c] \notin LockSteps, step \notin LockSteps,
         pc'[c] = step /\ at'[c] = position /\ line'[c] = line[c] => Position(c)'
  PROVE  Moved(c)
<1>1. /\ ThreadTypes' /\ \A d \in Clients \ {c} : Stays(d)
      /\ pc'[c] = step /\ at'[c] = position /\ line'[c] = line[c]
  BY ControlOf, GoToMoves
<1>2. \A m \in 0 .. MAX_LEVELS : ~ Holds(c, m) /\ ~ Holds(c, m)'
  BY <1>1, HoldsNothing
<1> QED
  BY <1>1, <1>2, ControlOf, LocksKept DEF Moved

LEMMA MergeBegins ==
  ASSUME Control, NEW c \in Clients, NEW l \in 0 .. (MAX_LEVELS - 1),
         pc[c] \in {"insert", "flush", "take"}, Top(c) = l + 1,
         Acquire(c, l), GoTo(c, "enter", l + 1)
  PROVE  Moved(c)
<1>1. line[c] \in Lines /\ op(c) \in {"p", "d", "f", "e", "m"}
  BY ControlOf DEF Position
<1>2. /\ ThreadTypes' /\ \A d \in Clients \ {c} : Stays(d)
      /\ pc'[c] = "enter" /\ at'[c] = l + 1 /\ line'[c] = line[c]
  BY ControlOf, GoToMoves, StepNames, ServerAssumption
<1>3. Top(c)' = l + 1 /\ op(c)' = op(c)
  BY <1>2 DEF Top, op
<1>4. Position(c)'
  BY <1>1, <1>2, <1>3, ServerAssumption DEF Position, MergeSteps, ReadSteps
<1>5. \A m \in 0 .. MAX_LEVELS : ~ Holds(c, m) /\ (Holds(c, m)' <=> m = l)
  BY <1>2, <1>3 DEF Holds, WritingSteps
<1>6. LocksHeld' /\ owner' \in [0 .. MAX_LEVELS -> Clients \cup {NoClient}]
  BY <1>2, <1>5, ControlOf, LockAcquired, ServerAssumption
<1> QED
  BY <1>2, <1>4, <1>6 DEF Moved

(* The commands.                                                           *)
LEMMA InsertControl ==
  ASSUME Control, NEW c \in Clients, Insert(c) PROVE Moved(c)
<1>1. pc[c] = "insert" /\ Top(c) = 1
  BY ControlOf, TopLevel DEF Position, Insert
<1>2. CASE Done(c) /\ owner' = owner
  BY <1>1, <1>2, EndsControl DEF LockSteps, WritingSteps
<1>3. CASE Acquire(c, 0) /\ GoTo(c, "enter", 1)
  BY <1>1, <1>3, MergeBegins, ServerAssumption
<1> QED
  BY <1>2, <1>3 DEF Insert

LEMMA FindControl ==
  ASSUME Control, NEW c \in Clients, Find(c) PROVE Moved(c)
<1>1. pc[c] = "find" /\ line[c] \in Lines /\ op(c) = "d" /\ owner' = owner
  BY ControlOf DEF Position, Find
<1>2. CASE Done(c)
  BY <1>1, <1>2, EndsControl DEF LockSteps, WritingSteps
<1>3. CASE GoTo(c, "insert", 0)
  <2>1. pc'[c] = "insert" /\ at'[c] = 0 /\ line'[c] = line[c] => Position(c)'
    BY <1>1 DEF Position, MergeSteps, ReadSteps, op
  <2> QED
    BY <1>1, <1>3, <2>1, GoesOnControl, StepNames, ServerAssumption DEF LockSteps, WritingSteps
<1> QED
  BY <1>2, <1>3 DEF Find

LEMMA FlushControl ==
  ASSUME Control, NEW c \in Clients, Flush(c) PROVE Moved(c)
<1>1. pc[c] = "flush" /\ Top(c) = 1
  BY ControlOf, TopLevel DEF Position, Flush
<1> QED
  BY <1>1, MergeBegins, ServerAssumption DEF Flush

LEMMA TakeControl ==
  ASSUME Control, NEW c \in Clients, Take(c) PROVE Moved(c)
<1>1. pc[c] = "take" /\ Top(c) = line[c][2] + 1 /\ line[c][2] \in 0 .. (MAX_LEVELS - 1)
  BY ControlOf, TopLevel, LineKinds, ServerAssumption DEF Position, Take, op
<1> QED
  BY <1>1, MergeBegins DEF Take

LEMMA GetControl ==
  ASSUME Control, NEW c \in Clients, Get(c) PROVE Moved(c)
<1>1. pc[c] = "read" /\ line[c] \in Lines /\ op(c) = "g" /\ owner' = owner
  BY ControlOf DEF Position, Get
<1>2. ASSUME NEW step \in {"read", "reply"}, NEW position \in 0 .. MAX_LEVELS,
             GoTo(c, step, position)
      PROVE  Moved(c)
  <2>1. pc'[c] = step /\ at'[c] = position /\ line'[c] = line[c] => Position(c)'
    BY <1>1 DEF Position, MergeSteps, ReadSteps, op
  <2> QED
    BY <1>1, <1>2, <2>1, GoesOnControl, StepNames DEF LockSteps, WritingSteps
<1>3. at[c] \in 0 .. MAX_LEVELS
  BY ControlOf
<1>4. \/ at[c] < MAX_LEVELS /\ GoTo(c, "read", at[c] + 1)
      \/ GoTo(c, "reply", at[c])
  BY DEF Get
<1> QED
  BY <1>2, <1>3, <1>4, ServerAssumption

LEMMA RangeControl ==
  ASSUME Control, NEW c \in Clients, RangeLevel(c) PROVE Moved(c)
<1>1. pc[c] = "read" /\ line[c] \in Lines /\ op(c) = "r" /\ owner' = owner
  BY ControlOf DEF Position, RangeLevel
<1>2. ASSUME NEW step \in {"read", "reply"}, NEW position \in 0 .. (MAX_LEVELS - 1),
             GoTo(c, step, position)
      PROVE  Moved(c)
  <2>1. pc'[c] = step /\ at'[c] = position /\ line'[c] = line[c] => Position(c)'
    BY <1>1, ServerAssumption DEF Position, MergeSteps, ReadSteps, op
  <2> QED
    BY <1>1, <1>2, <2>1, GoesOnControl, StepNames, ServerAssumption DEF LockSteps, WritingSteps
<1>3. at[c] \in 0 .. (MAX_LEVELS - 1)
  BY <1>1, ControlOf, ServerAssumption DEF Position
<1>4. \/ at[c] < MAX_LEVELS - 1 /\ GoTo(c, "read", at[c] + 1)
      \/ GoTo(c, "reply", at[c])
  BY DEF RangeLevel
<1> QED
  BY <1>2, <1>3, <1>4, ServerAssumption

LEMMA ReplyControl ==
  ASSUME Control, NEW c \in Clients, Reply(c) PROVE Moved(c)
BY EndsControl DEF Reply, LockSteps, WritingSteps

LEMMA LockControl ==
  ASSUME Control, NEW c \in Clients, Lock(c) PROVE Moved(c)
<1>1. /\ pc[c] = "lock" /\ line[c] \in Lines /\ op(c) = "s"
      /\ at[c] \in 0 .. (MAX_LEVELS - 1)
  BY ControlOf, ServerAssumption DEF Position, Lock
<1>2. ASSUME NEW step \in {"lock", "print"}, NEW position \in 0 .. MAX_LEVELS,
             GoTo(c, step, position), step = "lock" => position < MAX_LEVELS,
             step = "lock" => position = at[c] + 1,
             step = "print" => at[c] = MAX_LEVELS - 1
      PROVE  Moved(c)
  <2>1. /\ ThreadTypes' /\ \A d \in Clients \ {c} : Stays(d)
        /\ pc'[c] = step /\ at'[c] = position /\ line'[c] = line[c]
    BY <1>2, ControlOf, GoToMoves, StepNames
  <2>2. Position(c)'
    BY <1>1, <1>2, <2>1 DEF Position, MergeSteps, ReadSteps, op
  <2>3. \A m \in 0 .. MAX_LEVELS : Holds(c, m)' <=> Holds(c, m) \/ m = at[c]
    BY <1>1, <1>2, <2>1, ServerAssumption DEF Holds, WritingSteps
  <2>4. LocksHeld' /\ owner' \in [0 .. MAX_LEVELS -> Clients \cup {NoClient}]
    BY <1>1, <2>1, <2>3, ControlOf, LockAcquired, ServerAssumption DEF Lock
  <2> QED
    BY <2>1, <2>2, <2>4 DEF Moved
<1>3. \/ at[c] < MAX_LEVELS - 1 /\ GoTo(c, "lock", at[c] + 1)
      \/ at[c] = MAX_LEVELS - 1 /\ GoTo(c, "print", at[c])
  BY <1>1, ServerAssumption DEF Lock
<1> QED
  BY <1>1, <1>2, <1>3, ServerAssumption

LEMMA PrintStatsControl ==
  ASSUME Control, NEW c \in Clients, PrintStats(c) PROVE Moved(c)
<1>1. /\ ThreadTypes' /\ pc'[c] = "idle" /\ at'[c] = 0
      /\ \A d \in Clients \ {c} : Stays(d)
  BY ControlOf, DoneMoves DEF PrintStats
<1>2. Position(c)'
  BY <1>1 DEF Position, MergeSteps, ReadSteps
<1>3. owner' = [m \in 0 .. MAX_LEVELS |-> IF m < MAX_LEVELS THEN NoClient ELSE owner[m]]
  BY DEF PrintStats
<1>4. owner' \in [0 .. MAX_LEVELS -> Clients \cup {NoClient}]
  BY <1>3, ControlOf
<1>5. \A m \in 0 .. MAX_LEVELS : /\ Holds(c, m) <=> m < MAX_LEVELS
                                 /\ ~ Holds(c, m)'
  BY <1>1 DEF PrintStats, Holds, WritingSteps
<1>6. ASSUME NEW d \in Clients \ {c}, NEW m \in 0 .. MAX_LEVELS
      PROVE  owner'[m] = d <=> Holds(d, m)'
  <2>1. Holds(d, m)' <=> Holds(d, m)
    BY <1>1, HoldsStays
  <2> QED
    BY <1>3, <1>5, <2>1, ControlOf, ServerAssumption DEF LocksHeld
<1>7. ASSUME NEW m \in 0 .. MAX_LEVELS PROVE owner'[m] = c <=> Holds(c, m)'
  BY <1>3, <1>5, ControlOf, ServerAssumption DEF LocksHeld
<1>8. LocksHeld'
  BY <1>6, <1>7 DEF LocksHeld
<1> QED
  BY <1>1, <1>2, <1>4, <1>8 DEF Moved

LEMMA StuckControl ==
  ASSUME Control, NEW c \in Clients, UNCHANGED <<owner, line, pc, at>>
  PROVE  Moved(c)
<1>1. ThreadTypes' /\ \A d \in Clients : Stays(d)
  BY ControlOf DEF ThreadTypes, Stays
<1>2. Position(c)'
  BY ControlOf DEF Position, Top, op
<1>3. LocksHeld'
  BY <1>1, ControlOf, HoldsStays, LocksKept
<1> QED
  BY <1>1, <1>2, <1>3, ControlOf DEF Moved

(* A merge goes on to another step, at the same level or at the next or    *)
(* the previous one.                                                       *)
MergeAt(c, step, position) ==
  /\ ThreadTypes' /\ \A d \in Clients \ {c} : Stays(d)
  /\ pc'[c] = step /\ at'[c] = position
  /\ line'[c] = line[c] /\ op(c)' = op(c) /\ Top(c)' = Top(c) /\ Top(c) \in Levels
  /\ Position(c)'

LEMMA MergeGoesOn ==
  ASSUME Control, NEW c \in Clients, pc[c] \in MergeSteps,
         NEW step \in MergeSteps, NEW position \in Top(c) .. MAX_LEVELS,
         GoTo(c, step, position)
  PROVE  MergeAt(c, step, position)
<1>1. line[c] \in Lines /\ op(c) \in {"p", "d", "f", "e", "m"} /\ Top(c) \in Levels
  BY ControlOf DEF Position, MergeSteps
<1>2. /\ ThreadTypes' /\ \A d \in Clients \ {c} : Stays(d)
      /\ pc'[c] = step /\ at'[c] = position /\ line'[c] = line[c]
  BY <1>1, ControlOf, GoToMoves, StepNames, ServerAssumption DEF Levels
<1>3. op(c)' = op(c) /\ Top(c)' = Top(c)
  BY <1>2 DEF op, Top
<1>4. Position(c)'
  BY <1>1, <1>2, <1>3, ServerAssumption DEF Position, MergeSteps, ReadSteps
<1> QED
  BY <1>1, <1>2, <1>3, <1>4 DEF MergeAt

LEMMA MergePlace ==
  ASSUME Control, NEW c \in Clients, pc[c] \in MergeSteps
  PROVE  at[c] \in Levels /\ Top(c) \in Levels /\ Top(c) <= at[c]
BY ControlOf, ServerAssumption DEF Position, Levels, MergeSteps

LEMMA EnterControl ==
  ASSUME Control, NEW c \in Clients, Enter(c) PROVE Moved(c)
<1> DEFINE i == at[c]
<1>1. pc[c] = "enter" /\ i \in Levels /\ Top(c) \in Levels /\ Top(c) <= i
  BY MergePlace DEF Enter, MergeSteps
<1>2. CASE i = Top(c) /\ GoTo(c, "finish", i) /\ owner' = owner
  <2>1. MergeAt(c, "finish", i)
    BY <1>1, <1>2, MergeGoesOn DEF MergeSteps, Levels
  <2>2. \A m \in 0 .. MAX_LEVELS : Holds(c, m)' <=> Holds(c, m)
    BY <1>1, <1>2, <2>1 DEF MergeAt, Holds, WritingSteps, Levels
  <2> QED
    BY <1>2, <2>1, <2>2, ControlOf, LocksKept DEF Moved, MergeAt
<1>3. CASE i # Top(c) /\ GoTo(c, "open", i - 1) /\ owner' = owner
  <2>0. i - 1 \in Top(c) .. MAX_LEVELS
    BY <1>1, <1>3, ServerAssumption DEF Levels
  <2>1. MergeAt(c, "open", i - 1)
    BY <1>1, <1>3, <2>0, MergeGoesOn DEF MergeSteps
  <2>2. \A m \in 0 .. MAX_LEVELS : Holds(c, m)' <=> Holds(c, m)
    BY <1>1, <1>3, <2>1 DEF MergeAt, Holds, WritingSteps, Levels
  <2> QED
    BY <1>3, <2>1, <2>2, ControlOf, LocksKept DEF Moved, MergeAt
<1>4. CASE i < MAX_LEVELS /\ Acquire(c, i) /\ GoTo(c, "enter", i + 1)
  <2>1. MergeAt(c, "enter", i + 1)
    BY <1>1, <1>4, MergeGoesOn, ServerAssumption DEF MergeSteps, Levels
  <2>2. \A m \in 0 .. MAX_LEVELS : Holds(c, m)' <=> Holds(c, m) \/ m = i
    BY <1>1, <2>1, ServerAssumption DEF MergeAt, Holds, WritingSteps, Levels
  <2> QED
    BY <1>1, <1>4, <2>1, <2>2, ControlOf, LockAcquired DEF Moved, MergeAt
<1>5. CASE Acquire(c, i) /\ GoTo(c, "open", i)
  <2>1. MergeAt(c, "open", i)
    BY <1>1, <1>5, MergeGoesOn DEF MergeSteps, Levels
  <2>2. \A m \in 0 .. MAX_LEVELS : Holds(c, m)' <=> Holds(c, m) \/ m = i
    BY <1>1, <2>1, ServerAssumption DEF MergeAt, Holds, WritingSteps, Levels
  <2> QED
    BY <1>1, <1>5, <2>1, <2>2, ControlOf, LockAcquired DEF Moved, MergeAt
<1>6. CASE UNCHANGED <<owner, line, pc, at>>
  BY <1>6, StuckControl
<1> QED
  BY <1>2, <1>3, <1>4, <1>5, <1>6 DEF Enter

LEMMA OpenControl ==
  ASSUME Control, NEW c \in Clients, Open(c) PROVE Moved(c)
<1>1. pc[c] = "open" /\ at[c] \in Top(c) .. MAX_LEVELS
  BY ControlOf DEF Position, Open, MergeSteps
<1>2. MergeAt(c, "write", at[c])
  BY <1>1, MergeGoesOn DEF Open, MergeSteps
<1>3. \A m \in 0 .. MAX_LEVELS : Holds(c, m)' <=> Holds(c, m)
  BY <1>1, <1>2 DEF MergeAt, Holds, WritingSteps
<1> QED
  BY <1>2, <1>3, ControlOf, LocksKept DEF Moved, MergeAt, Open

LEMMA WriteControl ==
  ASSUME Control, NEW c \in Clients, Write(c) PROVE Moved(c)
<1>1. pc[c] = "write" /\ at[c] \in Top(c) .. MAX_LEVELS
  BY ControlOf DEF Position, Write, MergeSteps
<1>2. MergeAt(c, "rename", at[c])
  BY <1>1, MergeGoesOn DEF Write, MergeSteps
<1>3. \A m \in 0 .. MAX_LEVELS : Holds(c, m)' <=> Holds(c, m)
  BY <1>1, <1>2 DEF MergeAt, Holds, WritingSteps
<1> QED
  BY <1>2, <1>3, ControlOf, LocksKept DEF Moved, MergeAt, Write

LEMMA RenameControl ==
  ASSUME Control, NEW c \in Clients, Rename(c) PROVE Moved(c)
<1> DEFINE i == at[c]
<1>1. pc[c] = "rename" /\ i \in Levels /\ Top(c) \in Levels /\ Top(c) <= i
  BY MergePlace DEF Rename, MergeSteps
<1>2. Holds(c, i) /\ i \in 0 .. MAX_LEVELS
  BY <1>1 DEF Holds, WritingSteps, Levels
<1>3. CASE Release(i) /\ i = Top(c) /\ GoTo(c, "finish", i)
  <2>1. MergeAt(c, "finish", i)
    BY <1>1, <1>3, MergeGoesOn DEF MergeSteps, Levels
  <2>2. \A m \in 0 .. MAX_LEVELS : Holds(c, m)' <=> Holds(c, m) /\ m # i
    BY <1>1, <1>3, <2>1 DEF MergeAt, Holds, WritingSteps, Levels
  <2> QED
    BY <1>2, <1>3, <2>1, <2>2, ControlOf, LockReleased DEF Moved, MergeAt
<1>4. CASE Release(i) /\ i # Top(c) /\ GoTo(c, "open", i - 1)
  <2>0. i - 1 \in Top(c) .. MAX_LEVELS
    BY <1>1, <1>4, ServerAssumption DEF Levels
  <2>1. MergeAt(c, "open", i - 1)
    BY <1>1, <1>4, <2>0, MergeGoesOn DEF MergeSteps
  <2>2. \A m \in 0 .. MAX_LEVELS : Holds(c, m)' <=> Holds(c, m) /\ m # i
    BY <1>1, <1>4, <2>1 DEF MergeAt, Holds, WritingSteps, Levels
  <2> QED
    BY <1>2, <1>4, <2>1, <2>2, ControlOf, LockReleased DEF Moved, MergeAt
<1>5. CASE UNCHANGED <<owner, line, pc, at>>
  BY <1>5, StuckControl
<1> QED
  BY <1>3, <1>4, <1>5 DEF Rename

LEMMA FinishControl ==
  ASSUME Control, NEW c \in Clients, Finish(c) PROVE Moved(c)
<1>1. /\ pc[c] = "finish" /\ op(c) \in {"p", "d", "f", "e", "m"}
      /\ line[c] \in Lines /\ Top(c) \in Levels /\ Release(Top(c) - 1)
  BY ControlOf DEF Position, Finish, MergeSteps
<1>2. Holds(c, Top(c) - 1) /\ Top(c) - 1 \in 0 .. MAX_LEVELS
  BY <1>1, ServerAssumption DEF Holds, Levels
<1>3. ASSUME ThreadTypes', \A d \in Clients \ {c} : Stays(d), Position(c)',
             pc'[c] \in {"idle", "leave"}
      PROVE  Moved(c)
  <2>1. \A m \in 0 .. MAX_LEVELS : Holds(c, m)' <=> Holds(c, m) /\ m # Top(c) - 1
    BY <1>1, <1>3, HoldsNothing DEF Holds, LockSteps, WritingSteps
  <2> QED
    BY <1>1, <1>2, <1>3, <2>1, ControlOf, LockReleased DEF Moved
<1>4. CASE Done(c)
  <2>1. /\ ThreadTypes' /\ pc'[c] = "idle" /\ at'[c] = 0
        /\ \A d \in Clients \ {c} : Stays(d)
    BY <1>4, ControlOf, DoneMoves
  <2>2. Position(c)'
    BY <2>1 DEF Position, MergeSteps, ReadSteps
  <2> QED
    BY <1>3, <2>1, <2>2
<1>5. CASE GoTo(c, "leave", 0)
  <2>1. /\ ThreadTypes' /\ \A d \in Clients \ {c} : Stays(d)
        /\ pc'[c] = "leave" /\ at'[c] = 0 /\ line'[c] = line[c]
    BY <1>5, ControlOf, GoToMoves, StepNames, ServerAssumption
  <2>2. Position(c)'
    BY <1>1, <2>1 DEF Position, MergeSteps, ReadSteps
  <2> QED
    BY <1>3, <2>1, <2>2
<1> QED
  BY <1>1, <1>4, <1>5 DEF Finish

LEMMA LeaveControl ==
  ASSUME Control, NEW c \in Clients, Leave(c) PROVE Moved(c)
BY StuckControl DEF Leave

LEMMA StepControl ==
  ASSUME Control, NEW c \in Clients, Receive(c) \/ Step(c)
  PROVE  Moved(c)
BY ReceiveControl, InsertControl, FindControl, FlushControl, TakeControl, EnterControl,
   OpenControl, WriteControl, RenameControl, FinishControl, LeaveControl, GetControl,
   RangeControl, ReplyControl, LockControl, PrintStatsControl DEF Step

-----------------------------------------------------------------------------
(* Types of the data.                                                      *)

LEMMA AboveType ==
  ASSUME buffer \in Run, level \in [Levels -> Run], NEW i \in Levels
  PROVE  Above(i) \in Run
BY ServerAssumption DEF Above, Levels

LEMMA WrittenType ==
  ASSUME NEW k \in Keys, NEW v \in Stored, buffer \in Run, Size(buffer) <= BUFFER_CAPACITY,
         \/ /\ k \in KeysOf(buffer) \/ Size(buffer) < BUFFER_CAPACITY
            /\ buffer' = [buffer EXCEPT ![k] = v]
         \/ buffer' = [Empty EXCEPT ![k] = v]
  PROVE  buffer' \in Run /\ Size(buffer') <= BUFFER_CAPACITY
<1>1. CASE /\ k \in KeysOf(buffer) \/ Size(buffer) < BUFFER_CAPACITY
           /\ buffer' = [buffer EXCEPT ![k] = v]
  <2>1. /\ buffer' \in Run
        /\ Size(buffer') = IF k \in KeysOf(buffer) THEN Size(buffer) ELSE Size(buffer) + 1
    BY <1>1, WriteSize
  <2> QED
    BY <1>1, <2>1, SizeType, ServerAssumption
<1>2. CASE buffer' = [Empty EXCEPT ![k] = v]
  <2>1. buffer' \in Run /\ Size(buffer') = 0 + 1
    BY <1>2, WriteSize, EmptyRun
  <2> QED
    BY <2>1, ServerAssumption
<1> QED
  BY <1>1, <1>2

LEMMA StepBuffer ==
  ASSUME Control, NEW c \in Clients, Receive(c) \/ Step(c)
  PROVE  buffer' \in Run /\ Size(buffer)' <= BUFFER_CAPACITY
<1>1. buffer \in Run /\ Size(buffer) <= BUFFER_CAPACITY
  BY DEF Control, TypeOK
<1>2. CASE Insert(c)
  <2>1. line[c] \in Lines /\ op(c) \in {"p", "d"}
    BY <1>2, ControlOf DEF Position, Insert
  <2>2. CASE buffer' = buffer
    BY <1>1, <2>2
  <2>3. CASE /\ key(c) \in KeysOf(buffer) \/ Size(buffer) < BUFFER_CAPACITY
             /\ buffer' = [buffer EXCEPT ![key(c)] = Entry(c)]
    BY <1>1, <2>1, <2>3, EntryType, WrittenType
  <2> QED
    BY <1>2, <2>2, <2>3 DEF Insert
<1>3. CASE Find(c)
  <2>1. line[c] \in Lines /\ op(c) = "d"
    BY <1>3, ControlOf DEF Position, Find
  <2>2. CASE buffer' = buffer
    BY <1>1, <2>2
  <2>3. CASE key(c) \in KeysOf(buffer) /\ buffer' = [buffer EXCEPT ![key(c)] = DELETED_FLAG]
    BY <1>1, <2>1, <2>3, EntryType, WrittenType DEF Stored
  <2> QED
    BY <1>3, <2>2, <2>3 DEF Find
<1>4. CASE Finish(c)
  <2>1. line[c] \in Lines /\ op(c) \in {"p", "d", "f", "e", "m"}
    BY <1>4, ControlOf DEF Position, Finish, MergeSteps
  <2>2. CASE buffer' = buffer
    BY <1>1, <2>2
  <2>3. CASE buffer' = Empty
    BY <2>3, EmptyRun, ServerAssumption
  <2>4. CASE op(c) \in {"p", "d"} /\ buffer' = [Empty EXCEPT ![key(c)] = Entry(c)]
    BY <1>1, <2>1, <2>4, EntryType, WrittenType
  <2> QED
    BY <1>4, <2>1, <2>2, <2>3, <2>4 DEF Finish
<1>5. CASE buffer' = buffer
  BY <1>1, <1>5
<1> QED
  BY <1>2, <1>3, <1>4, <1>5
  DEF Step, Receive, Flush, Take, Enter, Open, Write, Rename, Leave, Get, RangeLevel,
      Reply, Lock, PrintStats, tree

LEMMA StepRuns ==
  ASSUME Control, NEW c \in Clients, Receive(c) \/ Step(c)
  PROVE  /\ level' \in [Levels -> Run]
         /\ temp' \in Run \cup {NoFile}
         /\ mapped' \in [Clients -> Levels \cup {TempFile, Removed}]
         /\ merged' \in [Clients -> Run]
<1>1. /\ buffer \in Run /\ level \in [Levels -> Run] /\ temp \in Run \cup {NoFile}
      /\ mapped \in [Clients -> Levels \cup {TempFile, Removed}]
      /\ merged \in [Clients -> Run]
  BY DEF Control, TypeOK
<1>2. CASE Open(c)
  BY <1>1, <1>2, EmptyRun DEF Open, tree
<1>3. CASE Write(c)
  <2>1. at[c] \in Levels
    BY <1>3, MergePlace DEF Write, MergeSteps
  <2> DEFINE run == MergeRuns(level[at[c]], Above(at[c]))
  <2>2. run \in Run
    BY <1>1, <2>1, AboveType, MergeRunsType
  <2>3. level' = (IF mapped[c] \in Levels THEN [level EXCEPT ![mapped[c]] = run] ELSE level)
    BY <1>3 DEF Write
  <2>4. level' \in [Levels -> Run]
    BY <1>1, <2>2, <2>3
  <2>5. merged' = [merged EXCEPT ![c] = run] /\ mapped' = mapped
        /\ temp' = IF mapped[c] = TempFile THEN run ELSE temp
    BY <1>3 DEF Write
  <2> QED
    BY <1>1, <2>2, <2>4, <2>5
<1>4. CASE Rename(c) /\ temp = NoFile
  BY <1>1, <1>4 DEF Rename, tree, merging
<1>5. CASE Rename(c) /\ temp # NoFile
  <2>1. at[c] \in Levels
    BY <1>5, MergePlace DEF Rename, MergeSteps
  <2>2. level' = [j \in Levels |-> IF j = at[c] THEN Prefix(temp, Size(merged[c]))
                                   ELSE IF j = at[c] - 1 THEN Empty
                                   ELSE level[j]]
    BY <1>5 DEF Rename
  <2>3. level' \in [Levels -> Run]
    BY <1>1, <1>5, <2>2, PrefixType, EmptyRun
  <2>4. mapped' = [d \in Clients |-> IF d = c \/ mapped[d] = at[c] THEN Removed
                                     ELSE IF mapped[d] = TempFile THEN at[c]
                                     ELSE mapped[d]]
    BY <1>5 DEF Rename
  <2>5. mapped' \in [Clients -> Levels \cup {TempFile, Removed}]
    BY <1>1, <2>1, <2>4
  <2>6. merged' = [merged EXCEPT ![c] = Empty] /\ temp' = NoFile
    BY <1>5 DEF Rename
  <2> QED
    BY <1>1, <2>3, <2>5, <2>6, EmptyRun
<1>6. CASE UNCHANGED <<level, merging>>
  BY <1>1, <1>6 DEF merging
<1> QED
  BY <1>2, <1>3, <1>4, <1>5, <1>6
  DEF Step, Receive, Insert, Find, Flush, Take, Enter, Finish, Leave, Get, RangeLevel,
      Reply, Lock, PrintStats, tree

LEMMA StepGot ==
  ASSUME Control, NEW c \in Clients, Receive(c) \/ Step(c)
  PROVE  got' \in [Clients -> Run]
<1>1. buffer \in Run /\ level \in [Levels -> Run] /\ got \in [Clients -> Run]
  BY DEF Control, TypeOK
<1>2. at[c] \in 0 .. MAX_LEVELS
  BY ControlOf
<1>3. \A k \in Keys : Tree!Version(at[c], k) \in Stored \cup {None}
  BY <1>1, <1>2, VersionIsAt
<1>4. CASE Get(c)
  <2>1. key(c) \in Keys
    BY <1>4, ControlOf, LineKinds DEF Get, op, key
  <2>2. got' = [got EXCEPT ![c] = [got[c] EXCEPT ![key(c)] = Tree!Version(at[c], key(c))]]
    BY <1>4 DEF Get
  <2>3. [got[c] EXCEPT ![key(c)] = Tree!Version(at[c], key(c))] \in Run
    BY <1>1, <1>3, <2>1 DEF Run
  <2> QED
    BY <1>1, <2>2, <2>3
<1>5. CASE RangeLevel(c)
  <2> DEFINE found == [k \in Keys |->
               IF got[c][k] # None THEN got[c][k] ELSE Tree!Version(at[c], k)]
  <2>1. got' = [got EXCEPT ![c] = found]
    BY <1>5 DEF RangeLevel
  <2>2. found \in Run
    BY <1>1, <1>3 DEF Run
  <2> QED
    BY <1>1, <2>1, <2>2
<1>6. CASE Reply(c)
  BY <1>1, <1>6, EmptyRun DEF Reply
<1>7. CASE got' = got
  BY <1>1, <1>7
<1> QED
  BY <1>4, <1>5, <1>6, <1>7
  DEF Step, Receive, Insert, Find, Flush, Take, Enter, Open, Write, Rename, Finish, Leave,
      Lock, PrintStats

LEMMA StepHistory ==
  ASSUME Control, NEW c \in Clients, Receive(c) \/ Step(c)
  PROVE  /\ store' \in [Keys -> Vals \cup {None}]
         /\ sent' \in 0 .. MaxCommands
         /\ status = "running" => status' \in {"running", "full", "failed", "exited"}
<1>1. store \in [Keys -> Vals \cup {None}] /\ sent \in 0 .. MaxCommands
  BY DEF Control, TypeOK
<1>2. store' = store \/ (Record(c) /\ line[c] \in Lines /\ op(c) \in {"p", "d"})
  <2>1. CASE Insert(c)
    <3>1. line[c] \in Lines /\ op(c) \in {"p", "d"}
      BY <2>1, ControlOf DEF Position, Insert
    <3> QED
      BY <2>1, <3>1 DEF Insert
  <2>2. CASE Find(c)
    <3>1. line[c] \in Lines /\ op(c) \in {"p", "d"}
      BY <2>2, ControlOf DEF Position, Find
    <3> QED
      BY <2>2, <3>1 DEF Find
  <2>3. CASE Finish(c)
    <3>1. line[c] \in Lines /\ op(c) \in {"p", "d", "f", "e", "m"}
      BY <2>3, ControlOf DEF Position, Finish, MergeSteps
    <3>2. (Record(c) /\ op(c) \in {"p", "d"}) \/ store' = store
      BY <2>3, <3>1 DEF Finish
    <3> QED
      BY <3>1, <3>2
  <2>4. CASE store' = store
    BY <2>4
  <2> QED
    BY <2>1, <2>2, <2>3, <2>4
    DEF Step, Receive, Flush, Take, Enter, Open, Write, Rename, Leave, Get, RangeLevel, Reply,
        Lock, PrintStats
<1>4. store' \in [Keys -> Vals \cup {None}]
  BY <1>1, <1>2, EntryType DEF Record
<1>5. sent' \in 0 .. MaxCommands
  <2>1. CASE sent < MaxCommands /\ sent' = sent + 1
    BY <1>1, <2>1, ServerAssumption
  <2>2. CASE sent' = sent
    BY <1>1, <2>2
  <2> QED
    BY <2>1, <2>2
    DEF Step, Receive, Insert, Find, Flush, Take, Enter, Open, Write, Rename, Finish, Leave,
        Get, RangeLevel, Reply, Lock, PrintStats
<1>6. status = "running" => status' \in {"running", "full", "failed", "exited"}
  BY DEF Step, Receive, Insert, Find, Flush, Take, Enter, Open, Write, Rename, Finish, Leave,
         Get, RangeLevel, Reply, Lock, PrintStats
<1> QED
  BY <1>4, <1>5, <1>6

LEMMA StepSeen ==
  ASSUME Watch, seen \in [Clients -> [UndeletedKeys -> SUBSET (Vals \cup {None})]],
         store' \in [Keys -> Vals \cup {None}]
  PROVE  seen' \in [Clients -> [UndeletedKeys -> SUBSET (Vals \cup {None})]]
<1>1. \A c \in Clients, k \in UndeletedKeys : Current(c, k)' \in SUBSET (Vals \cup {None})
  BY DEF Current, UndeletedKeys
<1> QED
  BY <1>1 DEF Watch

LEMMA NextControl == Control /\ [Next]_vars => Control'
<1>1. ASSUME Control, UNCHANGED vars PROVE Control'
  BY <1>1 DEF Control, vars, TypeOK, Positions, Position, LocksHeld, Holds, Top, op
<1>2. ASSUME Control, Next PROVE Control'
  <2>1. PICK c \in Clients : Receive(c) \/ Step(c)
    BY <1>2 DEF Next
  <2>2. Moved(c)
    BY <1>2, <2>1, StepControl
  <2>3. Positions'
    <3>1. ASSUME NEW d \in Clients \ {c} PROVE Position(d)'
      BY <1>2, <2>2 DEF Moved, Stays, Control, Positions, Position, Top, op
    <3> QED
      BY <2>2, <3>1 DEF Moved, Positions
  <2>4. seen' \in [Clients -> [UndeletedKeys -> SUBSET (Vals \cup {None})]]
    BY <1>2, <2>1, StepSeen, StepHistory DEF Next, Control, TypeOK
  <2>5. TypeOK'
    BY <1>2, <2>1, <2>2, <2>4, StepBuffer, StepRuns, StepGot, StepHistory
    DEF TypeOK, Moved, ThreadTypes, Next
  <2> QED
    BY <2>2, <2>3, <2>5 DEF Control, Moved
<1> QED
  BY <1>1, <1>2

-----------------------------------------------------------------------------
(* Variables have their types: no step of any thread, whoever it meets,    *)
(* leaves the buffer longer than it has room for or goes past the last     *)
(* level.                                                                  *)
THEOREM ServerTypeCorrect == Spec => []TypeOK
<1>1. Control => TypeOK
  BY DEF Control
<1> QED
  BY <1>1, InitControl, NextControl, PTL DEF Spec

(* A client whose thread holds a lock is its only holder.                  *)
LEMMA OneHolder ==
  ASSUME Control, NEW c \in Clients, NEW d \in Clients, NEW m \in 0 .. MAX_LEVELS,
         Holds(c, m)
  PROVE  owner[m] = c /\ ~ Free(m) /\ (Holds(d, m) => c = d)
BY ServerAssumption DEF Control, LocksHeld, Free

-----------------------------------------------------------------------------
(* No deadlock.                                                            *)

LockedMutexes == {m \in 0 .. MAX_LEVELS : ~ Free(m)}

(* A lock held is held by the thread of a command.                         *)
LEMMA LockedByCommand ==
  ASSUME Control, NEW m \in LockedMutexes
  PROVE  \E d \in Clients : pc[d] # "idle" /\ Holds(d, m)
<1>1. m \in 0 .. MAX_LEVELS /\ owner[m] # NoClient
  BY DEF LockedMutexes, Free
<1>2. owner[m] \in Clients
  BY <1>1 DEF Control, TypeOK
<1>3. Holds(owner[m], m)
  BY <1>1, <1>2 DEF Control, LocksHeld
<1> QED
  BY <1>2, <1>3 DEF Holds, WritingSteps

(* A thread that has a lock and waits for another waits for a larger level.*)
LEMMA WaitsDownwards ==
  ASSUME Control, NEW d \in Clients, NEW m \in 0 .. MAX_LEVELS, Holds(d, m), Blocked(d)
  PROVE  Wanted(d) \in LockedMutexes /\ m < Wanted(d)
<1>1. pc[d] \in {"enter", "lock"} /\ Wanted(d) = at[d] /\ m < at[d] /\ ~ Free(at[d])
  BY DEF Blocked, Wanted, Holds, WritingSteps
<1>2. at[d] \in 0 .. MAX_LEVELS
  BY DEF Control, TypeOK
<1> QED
  BY <1>1, <1>2 DEF LockedMutexes

(* The lock that a blocked thread waits for is one of the tree's.          *)
LEMMA WantedIsLocked ==
  ASSUME Control, NEW c \in Clients, Blocked(c)
  PROVE  Wanted(c) \in LockedMutexes
<1>1. MAX_LEVELS \in Nat \ {0} /\ 0 \in 0 .. MAX_LEVELS
  BY ServerAssumption
<1>2. at[c] \in 0 .. MAX_LEVELS
  BY DEF Control, TypeOK
<1>3. ASSUME pc[c] = "take"
      PROVE  line[c][2] \in 0 .. MAX_LEVELS
  <2>1. line[c] \in Lines /\ op(c) = "m"
    BY <1>3, ControlOf DEF Position
  <2> QED
    BY <2>1, <1>1, LineKinds DEF op
<1> QED
  BY <1>1, <1>2, <1>3 DEF Blocked, Wanted, LockedMutexes

(* Of all locks held, one is that of the largest level.  Its holder waits  *)
(* for none: so not all threads with commands wait.                        *)
THEOREM NoDeadlock == Spec => []SomeoneGoesOn
<1>1. Control => SomeoneGoesOn
  <2> SUFFICES ASSUME Control, NEW c \in Clients, pc[c] # "idle",
                      \A d \in Clients : pc[d] # "idle" => Blocked(d)
               PROVE  FALSE
    BY DEF SomeoneGoesOn
  <2>1. Wanted(c) \in LockedMutexes
    BY WantedIsLocked
  <2> DEFINE below == {MAX_LEVELS - m : m \in LockedMutexes}
  <2>2. below \subseteq Nat /\ below # {} /\ MAX_LEVELS \in Nat
    BY <2>1, ServerAssumption DEF LockedMutexes
  <2>3. PICK n \in below : \A l \in below : n <= l
    BY <2>2, LeastElement
  <2>4. PICK m \in LockedMutexes : n = MAX_LEVELS - m
    OBVIOUS
  <2>5. ASSUME NEW l \in LockedMutexes
        PROVE  l <= m
    <3>1. MAX_LEVELS - l \in below
      OBVIOUS
    <3>2. MAX_LEVELS - m <= MAX_LEVELS - l
      BY <3>1, <2>3, <2>4
    <3>3. l \in Nat /\ m \in Nat /\ MAX_LEVELS \in Nat
      BY ServerAssumption DEF LockedMutexes
    <3> QED
      BY <3>2, <3>3
  <2>6. PICK d \in Clients : pc[d] # "idle" /\ Holds(d, m)
    BY LockedByCommand
  <2>7. Wanted(d) \in LockedMutexes /\ m < Wanted(d)
    BY <2>6, WaitsDownwards DEF LockedMutexes
  <2> QED
    BY <2>5, <2>7 DEF LockedMutexes
<1> QED
  BY <1>1, InitControl, NextControl, PTL DEF Spec

-----------------------------------------------------------------------------
(* Statistics.                                                             *)

(* The steps that change the tree are those of a thread that has, or takes,*)
(* a lock of it other than that of the last level.                         *)
LEMMA TreeIsLocked ==
  ASSUME Control, NEW c \in Clients, Receive(c) \/ Step(c)
  PROVE  UNCHANGED tree \/ Free(0) \/ \E m \in 0 .. (MAX_LEVELS - 1) : Holds(c, m)
<1>1. CASE Insert(c) \/ Find(c)
  BY <1>1 DEF Insert, Find, tree
<1>2. CASE Write(c) \/ Rename(c)
  <2>1. pc[c] \in {"write", "rename"} /\ at[c] \in Levels /\ Top(c) \in Levels /\ Top(c) <= at[c]
    BY <1>2, MergePlace DEF Write, Rename, MergeSteps
  <2>2. Holds(c, at[c] - 1) /\ at[c] - 1 \in 0 .. (MAX_LEVELS - 1)
    BY <2>1, ServerAssumption DEF Holds, WritingSteps, Levels
  <2> QED
    BY <2>2
<1>3. CASE Finish(c)
  <2>1. pc[c] = "finish" /\ Top(c) \in Levels
    BY <1>3, MergePlace DEF Finish, MergeSteps
  <2>2. Holds(c, Top(c) - 1) /\ Top(c) - 1 \in 0 .. (MAX_LEVELS - 1)
    BY <2>1, ServerAssumption DEF Holds, Levels
  <2> QED
    BY <2>2
<1>4. CASE UNCHANGED tree
  BY <1>4
<1> QED
  BY <1>1, <1>2, <1>3, <1>4
  DEF Step, Receive, Flush, Take, Enter, Open, Leave, Get, RangeLevel, Reply, Lock,
      PrintStats, tree

(* While printStats() prints, neither the buffer nor any level changes, the*)
(* last one included, which it has not locked: every step that could       *)
(* change one needs a lock that the printing thread holds.                 *)
THEOREM StatsSeeOneStateCorrect == Spec => StatsSeeOneState
<1>1. ASSUME Control, [Next]_vars
      PROVE  [(\E c \in Clients : pc[c] = "print") => UNCHANGED tree]_vars
  <2> SUFFICES ASSUME Next, NEW p \in Clients, pc[p] = "print"
               PROVE  UNCHANGED tree
    BY <1>1
  <2>1. PICK c \in Clients : Receive(c) \/ Step(c)
    BY DEF Next
  <2>2. \A m \in 0 .. (MAX_LEVELS - 1) : Holds(p, m)
    BY ServerAssumption DEF Holds
  <2>3. 0 \in 0 .. (MAX_LEVELS - 1) /\ 0 .. (MAX_LEVELS - 1) \subseteq 0 .. MAX_LEVELS
    BY ServerAssumption
  <2>4. CASE c = p
    BY <2>1, <2>4
    DEF Step, Receive, Insert, Find, Flush, Take, Enter, Open, Write, Rename, Finish,
        Leave, Get, RangeLevel, Reply, Lock, PrintStats
  <2>5. CASE c # p
    BY <1>1, <2>1, <2>2, <2>3, <2>5, OneHolder, TreeIsLocked
  <2> QED
    BY <2>4, <2>5
<1> QED
  BY <1>1, InitControl, NextControl, PTL DEF Spec, StatsSeeOneState

-----------------------------------------------------------------------------
(* The temporary file.  All merges write to one file, data/TEMP.data, and  *)
(* nothing but the locks keeps them apart: merges that begin at the buffer *)
(* or at level 1 meet at the lock of level 1.  A merge that a client       *)
(* begins further down holds no lock that another needs, so the theorems   *)
(* below are about clients that send `m` of level 1 only.                  *)
LevelOneLocked == \A l \in Lines : l[1] = "m" => l[2] = 1

(* Another merge has not touched the file that this one maps; what it has  *)
(* written is there, and merges runs that are still the ones it read.      *)
MergeToTemp(c) ==
  /\ mapped[c] = IF pc[c] \in {"write", "rename"} THEN TempFile ELSE Removed
  /\ pc[c] \in {"write", "rename"} => temp # NoFile
  /\ pc[c] = "rename" => /\ temp = merged[c]
                         /\ temp = MergeRuns(level[at[c]], Above(at[c]))

MergesToTemp == \A c \in Clients : MergeToTemp(c)

LEMMA WriterHoldsOne ==
  ASSUME Control, LevelOneLocked, NEW c \in Clients, pc[c] \in WritingSteps
  PROVE  1 \in 0 .. MAX_LEVELS /\ Holds(c, 1) /\ (at[c] = 1 => Holds(c, 0))
<1>1. line[c] \in Lines /\ at[c] \in Levels /\ Top(c) \in Levels /\ Top(c) <= at[c]
  BY ControlOf, MergePlace DEF Position, WritingSteps, MergeSteps
<1>2. Top(c) \in {1, 2}
  BY <1>1, TopLevel DEF LevelOneLocked, op
<1> QED
  BY <1>1, <1>2, ServerAssumption DEF Holds, Levels

(* While a merge writes, no other thread opens, writes or renames the      *)
(* temporary file, or changes what is merged.                              *)
LEMMA MergeUndisturbed ==
  ASSUME Control, LevelOneLocked, NEW c \in Clients, NEW d \in Clients, c # d,
         pc[c] \in WritingSteps, Receive(d) \/ Step(d)
  PROVE  /\ UNCHANGED <<level, merging>>
         /\ at[c] = 1 => buffer' = buffer
<1>1. 1 \in 0 .. MAX_LEVELS /\ Holds(c, 1) /\ (at[c] = 1 => Holds(c, 0))
  BY WriterHoldsOne
<1>2. ~ (Open(d) \/ Write(d) \/ Rename(d))
  <2>1. pc[d] \notin WritingSteps
    BY <1>1, WriterHoldsOne, OneHolder
  <2> QED
    BY <2>1 DEF Open, Write, Rename, WritingSteps
<1>3. UNCHANGED <<level, merging>>
  BY <1>2
  DEF Step, Receive, Insert, Find, Flush, Take, Enter, Finish, Leave, Get, RangeLevel,
      Reply, Lock, PrintStats, tree
<1>4. ASSUME at[c] = 1 PROVE buffer' = buffer
  <2>1. ~ Free(0) /\ ~ Holds(d, 0)
    BY <1>1, <1>4, OneHolder, ServerAssumption
  <2>2. CASE Finish(d)
    <3>1. line[d] \in Lines /\ op(d) \in {"p", "d", "f", "e", "m"}
      BY <2>2, ControlOf DEF Position, Finish, MergeSteps
    <3>2. op(d) = "m"
      BY <2>1, <2>2, <3>1, TopLevel DEF Finish, Holds
    <3> QED
      BY <2>2, <3>2 DEF Finish
  <2> QED
    BY <1>2, <2>1, <2>2
    DEF Step, Receive, Insert, Find, Flush, Take, Enter, Leave, Get, RangeLevel, Reply, Lock,
        PrintStats, Acquire, tree
<1> QED
  BY <1>3, <1>4

LEMMA OwnMergeToTemp ==
  ASSUME Control, LevelOneLocked, MergesToTemp, NEW c \in Clients, Receive(c) \/ Step(c)
  PROVE  MergeToTemp(c)'
<1>1. /\ mapped[c] = IF pc[c] \in {"write", "rename"} THEN TempFile ELSE Removed
      /\ pc[c] \in {"write", "rename"} => temp # NoFile
  BY DEF MergesToTemp, MergeToTemp
<1>2. /\ pc \in [Clients -> Steps] /\ at \in [Clients -> 0 .. MAX_LEVELS]
      /\ mapped \in [Clients -> Levels \cup {TempFile, Removed}]
      /\ merged \in [Clients -> Run]
  BY DEF Control, TypeOK
<1>3. TempFile \notin Levels /\ Removed \notin Levels /\ Empty # NoFile
  BY EmptyRun, ServerAssumption DEF TempFile, Removed, Levels
<1>4. CASE Open(c)
  BY <1>2, <1>3, <1>4 DEF Open, GoTo, MergeToTemp
<1>5. CASE Write(c)
  <2>1. pc[c] = "write" /\ mapped[c] = TempFile
    BY <1>1, <1>5 DEF Write
  <2>2. at[c] \in Levels
    BY <2>1, MergePlace DEF MergeSteps
  <2> DEFINE run == MergeRuns(level[at[c]], Above(at[c]))
  <2>3. run \in Run
    BY <2>2, AboveType, MergeRunsType DEF Control, TypeOK
  <2>4. temp' = run /\ merged'[c] = run /\ level' = level /\ buffer' = buffer /\ mapped' = mapped
    BY <1>2, <1>3, <1>5, <2>1 DEF Write
  <2>5. pc'[c] = "rename" /\ at'[c] = at[c]
    BY <1>2, <1>5 DEF Write, GoTo
  <2>6. MergeRuns(level[at[c]], Above(at[c]))' = run
    BY <2>4, <2>5 DEF Above
  <2> QED
    BY <2>1, <2>3, <2>4, <2>5, <2>6, ServerAssumption DEF MergeToTemp
<1>6. CASE Rename(c)
  <2>1. temp # NoFile
    BY <1>1, <1>6 DEF Rename
  <2>2. pc'[c] \in {"finish", "open"} /\ mapped'[c] = Removed
    BY <1>2, <1>6, <2>1 DEF Rename, GoTo
  <2> QED
    BY <2>2 DEF MergeToTemp
<1>7. ASSUME pc[c] \notin {"write", "rename"}, pc'[c] \notin {"write", "rename"},
             mapped' = mapped
      PROVE  MergeToTemp(c)'
  BY <1>1, <1>7 DEF MergeToTemp
<1>8. CASE Receive(c)
  <2>1. line'[c] \in Lines /\ pc'[c] = FirstStep(line'[c][1])
    BY <1>8, ReceiveMoves, ControlOf
  <2>2. pc'[c] \notin {"write", "rename"}
    BY <2>1, LineKinds DEF FirstStep
  <2> QED
    BY <1>7, <1>8, <2>2 DEF Receive, merging
<1>9. CASE Insert(c) \/ Find(c) \/ Flush(c) \/ Take(c) \/ Get(c) \/ RangeLevel(c) \/ Reply(c)
           \/ Lock(c) \/ PrintStats(c)
  BY <1>2, <1>7, <1>9
  DEF Insert, Find, Flush, Take, Get, RangeLevel, Reply, Lock, PrintStats, GoTo, Done, merging
<1>10. CASE Enter(c) \/ Leave(c)
  BY <1>2, <1>7, <1>10 DEF Enter, Leave, GoTo, merging
<1>11. CASE Finish(c)
  <2>1. op(c) \in {"p", "d", "f", "e", "m"}
    BY <1>11, ControlOf DEF Position, Finish, MergeSteps
  <2> QED
    BY <1>2, <1>7, <1>11, <2>1 DEF Finish, GoTo, Done, merging
<1> QED
  BY <1>4, <1>5, <1>6, <1>8, <1>9, <1>10, <1>11 DEF Step

LEMMA OtherMergeToTemp ==
  ASSUME Control, LevelOneLocked, MergesToTemp, NEW c \in Clients, NEW d \in Clients, c # d,
         Receive(d) \/ Step(d)
  PROVE  MergeToTemp(c)'
<1>1. Stays(c)
  BY StepControl DEF Moved
<1>2. mapped \in [Clients -> Levels \cup {TempFile, Removed}]
  BY DEF Control, TypeOK
<1>3. CASE pc[c] \in {"write", "rename"}
  <2>1. UNCHANGED <<level, merging>> /\ (at[c] = 1 => buffer' = buffer)
    BY <1>3, MergeUndisturbed DEF WritingSteps
  <2>2. pc'[c] = pc[c] /\ at'[c] = at[c]
    BY <1>1 DEF Stays
  <2>3. MergeRuns(level[at[c]], Above(at[c]))' = MergeRuns(level[at[c]], Above(at[c]))
    BY <2>1, <2>2 DEF Above
  <2> QED
    BY <2>1, <2>2, <2>3 DEF MergesToTemp, MergeToTemp, merging
<1>4. CASE pc[c] \notin {"write", "rename"}
  <2>1. pc'[c] = pc[c] /\ mapped[c] = Removed
    BY <1>1, <1>4 DEF Stays, MergesToTemp, MergeToTemp
  <2>2. CASE Rename(d)
    <3>1. pc[d] = "rename" /\ at[d] \in Levels
      BY <2>2, MergePlace DEF Rename, MergeSteps
    <3>2. temp # NoFile
      BY <3>1 DEF MergesToTemp, MergeToTemp
    <3>3. mapped'[c] = IF c = d \/ mapped[c] = at[d] THEN Removed
                       ELSE IF mapped[c] = TempFile THEN at[d]
                       ELSE mapped[c]
      BY <2>2, <3>2 DEF Rename
    <3>4. mapped'[c] = Removed
      BY <2>1, <3>1, <3>3 DEF TempFile, Removed
    <3> QED
      BY <1>4, <2>1, <3>4 DEF MergeToTemp
  <2>3. CASE Open(d)
    BY <1>2, <1>4, <2>1, <2>3 DEF MergeToTemp, Open
  <2>4. CASE mapped' = mapped
    BY <1>4, <2>1, <2>4 DEF MergeToTemp
  <2> QED
    BY <2>2, <2>3, <2>4
    DEF Step, Receive, Insert, Find, Flush, Take, Enter, Write, Finish, Leave, Get, RangeLevel,
        Reply, Lock, PrintStats, merging
<1> QED
  BY <1>3, <1>4

LEMMA NextMergesToTemp ==
  ASSUME LevelOneLocked
  PROVE  Control /\ MergesToTemp /\ [Next]_vars => MergesToTemp'
<1>1. ASSUME MergesToTemp, UNCHANGED vars PROVE MergesToTemp'
  BY <1>1 DEF MergesToTemp, MergeToTemp, Above, vars
<1>2. ASSUME Control, MergesToTemp, Next PROVE MergesToTemp'
  <2>1. PICK c \in Clients : Receive(c) \/ Step(c)
    BY <1>2 DEF Next
  <2> QED
    BY <1>2, <2>1, OwnMergeToTemp, OtherMergeToTemp DEF MergesToTemp
<1> QED
  BY <1>1, <1>2

LEMMA InitMergesToTemp == Init => MergesToTemp
BY DEF Init, MergesToTemp, MergeToTemp

(* What a merge renames is the run that it has written itself, when manual *)
(* merges are of level 1 only (finding: they are not kept apart further    *)
(* down).                                                                  *)
THEOREM TempNotSharedCorrect ==
  ASSUME LevelOneLocked
  PROVE  Spec => []TempNotShared
<1>1. MergesToTemp => TempNotShared
  BY DEF MergesToTemp, MergeToTemp, TempNotShared
<1> QED
  BY <1>1, InitControl, NextControl, InitMergesToTemp, NextMergesToTemp, PTL DEF Spec

-----------------------------------------------------------------------------
(* The steps that change the tree, or the dictionary: an entry is written  *)
(* to the buffer; the buffer, merged, is emptied; a level's run takes in   *)
(* the one above it.                                                       *)

Written(c) == /\ line[c] \in Lines /\ op(c) \in {"p", "d"}
              /\ Record(c)

EntryWritten(c) == /\ Written(c) /\ Free(0)
                   /\ buffer' = [buffer EXCEPT ![key(c)] = Entry(c)]
                   /\ level' = level

BufferEmptied(c) == /\ pc[c] = "finish" /\ Top(c) = 1
                    /\ level' = level
                    /\ \/ buffer' = Empty /\ store' = store
                       \/ /\ Written(c)
                          /\ buffer' = [Empty EXCEPT ![key(c)] = Entry(c)]

MergedDown(i) == /\ buffer' = buffer /\ store' = store
                 /\ level' = [j \in Levels |-> IF j = i THEN MergeRuns(level[i], Above(i))
                                               ELSE IF j = i - 1 THEN Empty
                                               ELSE level[j]]

LEMMA RenameMerges ==
  ASSUME Control, MergesToTemp, NEW c \in Clients, Rename(c)
  PROVE  /\ pc[c] = "rename" /\ at[c] \in Levels /\ MergedDown(at[c])
         /\ IF at[c] = Top(c) THEN GoTo(c, "finish", at[c]) ELSE GoTo(c, "open", at[c] - 1)
<1> DEFINE i == at[c]
<1>1. pc[c] = "rename" /\ i \in Levels
  BY MergePlace DEF Rename, MergeSteps
<1>2. temp # NoFile /\ temp = merged[c] /\ temp = MergeRuns(level[i], Above(i))
  BY <1>1 DEF MergesToTemp, MergeToTemp
<1>3. Prefix(temp, Size(merged[c])) = MergeRuns(level[i], Above(i))
  BY <1>1, <1>2, AboveType, MergeRunsType, PrefixAll DEF Control, TypeOK
<1>4. MergedDown(i)
  BY <1>2, <1>3 DEF Rename, MergedDown
<1>5. IF i = Top(c) THEN GoTo(c, "finish", i) ELSE GoTo(c, "open", i - 1)
  BY <1>2 DEF Rename
<1> QED
  BY <1>1, <1>4, <1>5

LEMMA TreeSteps ==
  ASSUME Control, MergesToTemp, NEW c \in Clients, Receive(c) \/ Step(c)
  PROVE  \/ UNCHANGED <<tree, store>>
         \/ EntryWritten(c)
         \/ BufferEmptied(c)
         \/ pc[c] = "rename" /\ at[c] \in Levels /\ MergedDown(at[c])
<1>1. CASE Insert(c)
  <2>1. line[c] \in Lines /\ op(c) \in {"p", "d"}
    BY <1>1, ControlOf DEF Position, Insert
  <2> QED
    BY <1>1, <2>1 DEF Insert, EntryWritten, Written, tree
<1>2. CASE Find(c)
  <2>1. line[c] \in Lines /\ op(c) = "d"
    BY <1>2, ControlOf DEF Position, Find
  <2>2. Entry(c) = DELETED_FLAG
    BY <2>1 DEF Entry
  <2> QED
    BY <1>2, <2>1, <2>2 DEF Find, EntryWritten, Written, tree
<1>3. CASE Write(c)
  <2>1. mapped[c] = TempFile
    BY <1>3 DEF Write, MergesToTemp, MergeToTemp
  <2>2. level' = level
    BY <1>3, <2>1, ServerAssumption DEF Write, TempFile, Levels
  <2> QED
    BY <1>3, <2>2 DEF Write, tree
<1>4. CASE Rename(c)
  BY <1>4, RenameMerges
<1>5. CASE Finish(c)
  <2>1. /\ pc[c] = "finish" /\ line[c] \in Lines /\ op(c) \in {"p", "d", "f", "e", "m"}
        /\ level' = level
    BY <1>5, ControlOf DEF Position, Finish, MergeSteps
  <2>2. CASE op(c) = "m"
    BY <1>5, <2>2 DEF Finish, tree
  <2>3. CASE op(c) \in {"f", "e"}
    BY <1>5, <2>1, <2>3, TopLevel DEF Finish, BufferEmptied
  <2>4. CASE op(c) \in {"p", "d"}
    BY <1>5, <2>1, <2>4, TopLevel DEF Finish, BufferEmptied, Written
  <2> QED
    BY <2>1, <2>2, <2>3, <2>4
<1>6. CASE UNCHANGED <<tree, store>>
  BY <1>6
<1> QED
  BY <1>1, <1>2, <1>3, <1>4, <1>5, <1>6
  DEF Step, Receive, Flush, Take, Enter, Open, Leave, Get, RangeLevel, Reply, Lock,
      PrintStats, tree

(* A search for k from position p to position q finds v.                   *)
Finds(p, q, k, v) ==
  \/ /\ v # None
     /\ \E i \in p .. q : At(i, k) = v /\ \A j \in p .. (i - 1) : At(j, k) = None
  \/ v = None /\ \A j \in p .. q : At(j, k) = None

(* What a merge changes for a key.                                         *)
LEMMA MergedAt ==
  ASSUME Control, NEW i \in Levels, MergedDown(i), NEW k \in Keys
  PROVE  /\ \A j \in 0 .. MAX_LEVELS : j # i /\ j # i - 1 => At(j, k)' = At(j, k)
         /\ At(i - 1, k)' = IF i = 1 THEN At(0, k) ELSE None
         /\ At(i, k)' = IF At(i - 1, k) = None THEN At(i, k)
                        ELSE IF At(i - 1, k) = DELETED_FLAG /\ At(i, k) # None THEN None
                        ELSE At(i - 1, k)
<1>1. level' = [j \in Levels |-> IF j = i THEN MergeRuns(level[i], Above(i))
                                 ELSE IF j = i - 1 THEN Empty
                                 ELSE level[j]]
  BY DEF MergedDown
<1>2. \A j \in Levels : j # i /\ j # i - 1 => level'[j] = level[j]
  BY <1>1
<1>3. buffer' = buffer
  BY DEF MergedDown
<1>4. \A j \in 0 .. MAX_LEVELS : j # i /\ j # i - 1 => At(j, k)' = At(j, k)
  BY <1>2, <1>3, ServerAssumption DEF At, Levels
<1>5. At(i - 1, k)' = IF i = 1 THEN At(0, k) ELSE None
  <2>1. CASE i = 1
    BY <1>3, <2>1 DEF At
  <2>2. CASE i # 1
    <3>1. i - 1 \in Levels /\ i - 1 # i /\ i - 1 # 0
      BY <2>2, ServerAssumption DEF Levels
    <3>2. level'[i - 1] = Empty
      BY <1>1, <3>1
    <3> QED
      BY <2>2, <3>1, <3>2 DEF At, Empty
  <2> QED
    BY <2>1, <2>2
<1>6. At(i, k)' = MergeRuns(level[i], Above(i))[k]
  BY <1>1, ServerAssumption DEF At, Levels
<1>7. Above(i)[k] = At(i - 1, k) /\ level[i][k] = At(i, k)
  BY ServerAssumption DEF Above, At, Levels
<1>8. At(i, k)' = IF At(i - 1, k) = None THEN At(i, k)
                  ELSE IF At(i - 1, k) = DELETED_FLAG /\ At(i, k) # None THEN None
                  ELSE At(i - 1, k)
  BY <1>6, <1>7 DEF MergeRuns
<1> QED
  BY <1>4, <1>5, <1>8

(* What is found of a live key, a merge leaves to find: it moves an entry  *)
(* out of what the search has before it only when the search ends between  *)
(* the two levels, and brings one in only when it begins there.            *)
LEMMA MergeFinds ==
  ASSUME Control, NEW i \in Levels, MergedDown(i), NEW k \in Keys,
         NEW p \in 0 .. MAX_LEVELS, NEW q \in 0 .. MAX_LEVELS, NEW v \in Vals \cup {None},
         Finds(p, q, k, v), p # i, q # i - 1 \/ v = None
  PROVE  Finds(p, q, k, v)'
<1>1. i \in 1 .. MAX_LEVELS /\ MAX_LEVELS \in Nat
  BY ServerAssumption DEF Levels
<1>2. v # DELETED_FLAG
  BY ValuesAssumption
<1>3. CASE v = None
  <2>1. ASSUME NEW j \in p .. q PROVE At(j, k)' = None
    <3>1. At(j, k) = None /\ j \in 0 .. MAX_LEVELS
      BY <1>1, <1>3 DEF Finds
    <3>2. CASE j = i
      <4>1. i - 1 \in p .. q
        BY <1>1, <3>2
      <4>2. At(i - 1, k) = None
        BY <1>3, <4>1 DEF Finds
      <4> QED
        BY <3>1, <3>2, <4>2, MergedAt
    <3>3. CASE j = i - 1
      BY <1>1, <3>1, <3>3, MergedAt
    <3> QED
      BY <3>1, <3>2, <3>3, MergedAt
  <2> QED
    BY <1>3, <2>1 DEF Finds
<1>4. CASE v # None
  <2>1. PICK n \in p .. q : At(n, k) = v /\ \A j \in p .. (n - 1) : At(j, k) = None
    BY <1>4 DEF Finds
  <2>2. ASSUME NEW j \in p .. (n - 1), j # i \/ n # i PROVE At(j, k)' = None
    <3>1. At(j, k) = None /\ j \in 0 .. MAX_LEVELS
      BY <1>1, <2>1
    <3>2. CASE j = i
      <4>1. i - 1 \in p .. (n - 1)
        BY <1>1, <3>2
      <4> QED
        BY <2>1, <3>1, <3>2, <4>1, MergedAt
    <3>3. CASE j = i - 1
      BY <1>1, <3>1, <3>3, MergedAt
    <3> QED
      BY <3>1, <3>2, <3>3, MergedAt
  <2>3. CASE n = i
    <3>1. i - 1 \in p .. (n - 1)
      BY <1>1, <2>3
    <3>2. At(i, k)' = v
      BY <2>1, <2>3, <3>1, MergedAt
    <3> QED
      BY <1>4, <2>2, <2>3, <3>2 DEF Finds
  <2>4. CASE n = i - 1
    <3>1. CASE i = 1
      <4>1. At(n, k)' = v
        BY <1>1, <2>1, <2>4, <3>1, MergedAt
      <4>2. \A j \in p .. (n - 1) : At(j, k)' = None
        BY <1>1, <2>4, <3>1
      <4> QED
        BY <1>4, <4>1, <4>2 DEF Finds
    <3>2. CASE i # 1
      <4>1. At(i, k)' = v
        BY <1>2, <1>4, <2>1, <2>4, MergedAt
      <4>2. At(n, k)' = None
        BY <2>4, <3>2, MergedAt
      <4>3. i \in p .. q
        BY <1>1, <1>4, <2>4
      <4>4. \A j \in p .. (i - 1) : At(j, k)' = None
        BY <1>1, <2>2, <2>4, <4>2
      <4> QED
        BY <1>4, <4>1, <4>3, <4>4 DEF Finds
    <3> QED
      BY <3>1, <3>2
  <2>5. CASE n # i /\ n # i - 1
    <3>1. At(n, k)' = v
      BY <1>1, <2>1, <2>5, MergedAt
    <3> QED
      BY <1>4, <2>2, <2>5, <3>1 DEF Finds
  <2> QED
    BY <2>3, <2>4, <2>5
<1> QED
  BY <1>3, <1>4

-----------------------------------------------------------------------------
(* What the tree holds for the keys of the dictionary.                     *)

(* A search for a live key finds the dictionary's value.                   *)
LiveNewest == \A k \in Keys : store[k] # None => Finds(0, MAX_LEVELS, k, store[k])

(* A key that no client deletes has no tombstone, and no entry before it   *)
(* is put.                                                                 *)
Undeleted == \A k \in UndeletedKeys, i \in 0 .. MAX_LEVELS :
               At(i, k) # DELETED_FLAG /\ (store[k] = None => At(i, k) = None)

(* When a merge of the buffer is over, its live entries are in the levels  *)
(* as well, and are what a search finds there.                             *)
BufferMerged == \A c \in Clients : pc[c] = "finish" /\ Top(c) = 1 =>
                  \A k \in Keys : buffer[k] \notin {None, DELETED_FLAG} =>
                                    Finds(1, MAX_LEVELS, k, buffer[k])

Content == LiveNewest /\ Undeleted /\ BufferMerged

LEMMA AtType ==
  ASSUME Control, NEW i \in 0 .. MAX_LEVELS, NEW k \in Keys
  PROVE  At(i, k) \in Stored \cup {None} /\ Tree!Version(i, k) = At(i, k)
BY VersionIsAt DEF Control, TypeOK

(* A search finds exactly one version, or None, and get() answers with it. *)
LEMMA SearchFinds ==
  ASSUME Control, NEW k \in Keys
  PROVE  /\ Tree!get(k) # None => Finds(0, MAX_LEVELS, k, Tree!get(k))
         /\ Tree!get(k) = None => (\A i \in 0 .. MAX_LEVELS : At(i, k) = None)
                                  \/ (\E i \in 0 .. MAX_LEVELS : At(i, k) = DELETED_FLAG)
<1> DEFINE found == {i \in 0 .. MAX_LEVELS : At(i, k) # None}
<1>1. \A i \in 0 .. MAX_LEVELS : Tree!Newest(i, k) <=>
        At(i, k) # None /\ \A j \in 0 .. (i - 1) : At(j, k) = None
  BY AtType, ServerAssumption DEF Tree!Newest
<1>2. CASE \E i \in 0 .. MAX_LEVELS : Tree!Newest(i, k)
  <2> DEFINE n == CHOOSE i \in 0 .. MAX_LEVELS : Tree!Newest(i, k)
  <2>1. n \in 0 .. MAX_LEVELS /\ Tree!Newest(n, k)
    BY <1>2
  <2>2. Tree!get(k) = IF At(n, k) = DELETED_FLAG THEN None ELSE At(n, k)
    BY <1>2, <2>1, AtType DEF Tree!get, Tree!Visible
  <2> HIDE DEF n
  <2> QED
    BY <1>1, <2>1, <2>2 DEF Finds
<1>3. CASE ~ \E i \in 0 .. MAX_LEVELS : Tree!Newest(i, k)
  <2>1. found = {}
    <3> SUFFICES ASSUME found # {} PROVE FALSE
      OBVIOUS
    <3>0. found \subseteq Nat
      BY ServerAssumption
    <3> HIDE DEF found
    <3>1. PICK n \in found : \A m \in found : n <= m
      BY <3>0, LeastElement
    <3> USE DEF found
    <3>2. \A j \in 0 .. (n - 1) : At(j, k) = None
      BY <3>1, ServerAssumption
    <3> QED
      BY <1>1, <1>3, <3>1, <3>2
  <2>2. Tree!get(k) = None
    BY <1>3 DEF Tree!get
  <2> QED
    BY <2>1, <2>2
<1> QED
  BY <1>2, <1>3

LEMMA FoundIsAnswer ==
  ASSUME Control, NEW k \in Keys, NEW v \in Vals, Finds(0, MAX_LEVELS, k, v)
  PROVE  Tree!get(k) = v
<1>1. PICK n \in 0 .. MAX_LEVELS : At(n, k) = v /\ \A j \in 0 .. (n - 1) : At(j, k) = None
  BY ValuesAssumption DEF Finds
<1>2. v # None /\ v # DELETED_FLAG
  BY ValuesAssumption
<1>3. \A i \in 0 .. MAX_LEVELS : Tree!Newest(i, k) <=>
        At(i, k) # None /\ \A j \in 0 .. (i - 1) : At(j, k) = None
  BY AtType, ServerAssumption DEF Tree!Newest
<1>4. \A i \in 0 .. MAX_LEVELS : Tree!Newest(i, k) <=> i = n
  BY <1>1, <1>2, <1>3, ServerAssumption
<1>5. (CHOOSE i \in 0 .. MAX_LEVELS : Tree!Newest(i, k)) = n
  BY <1>4
<1> QED
  BY <1>1, <1>2, <1>4, <1>5, AtType DEF Tree!get, Tree!Visible

LEMMA LiveNewestAnswers ==
  Control /\ LiveNewest => \A k \in Keys : store[k] # None => Tree!get(k) = store[k]
BY FoundIsAnswer DEF LiveNewest, Control, TypeOK

LEMMA InitContent == Init => Content
<1> SUFFICES ASSUME Init PROVE Content
  OBVIOUS
<1>1. Control
  BY InitControl
<1>2. \A k \in Keys : store[k] = Tree!get(k)
  BY DEF Init
<1>3. LiveNewest
  BY <1>1, <1>2, SearchFinds DEF LiveNewest
<1>4. ASSUME NEW k \in UndeletedKeys, NEW i \in 0 .. MAX_LEVELS PROVE At(i, k) # DELETED_FLAG
  <2>1. buffer[k] # DELETED_FLAG
    BY DEF Init, RunsOf
  <2>2. \A j \in Levels : level[j][k] # DELETED_FLAG
    BY DEF Init, RunsOf
  <2> QED
    BY <2>1, <2>2, ServerAssumption DEF At, Levels
<1>5. Undeleted
  BY <1>1, <1>2, <1>4, SearchFinds DEF Undeleted, UndeletedKeys
<1>6. BufferMerged
  BY DEF Init, BufferMerged
<1> QED
  BY <1>3, <1>5, <1>6 DEF Content

(* A key when the buffer is written to or emptied: it has been written     *)
(* there, with what the dictionary then holds; or it is as before; or its  *)
(* entry in the buffer, merged before, is gone.                            *)
LEMMA KeyWritten ==
  ASSUME Control, NEW c \in Clients, EntryWritten(c) \/ BufferEmptied(c), NEW k \in Keys
  PROVE  /\ \A j \in 1 .. MAX_LEVELS : At(j, k)' = At(j, k)
         /\ \/ /\ At(0, k)' \in Stored /\ store'[k] = Tree!Visible(At(0, k)')
               /\ k \in UndeletedKeys => At(0, k)' \in Vals /\ store'[k] = At(0, k)'
            \/ store'[k] = store[k] /\ At(0, k)' = At(0, k)
            \/ store'[k] = store[k] /\ At(0, k)' = None /\ BufferEmptied(c)
<1>1. buffer \in Run /\ store \in [Keys -> Vals \cup {None}]
  BY DEF Control, TypeOK
<1>2. \A j \in 1 .. MAX_LEVELS : At(j, k)' = At(j, k)
  BY DEF At, EntryWritten, BufferEmptied
<1>3. ASSUME Written(c), k = key(c), At(0, k)' = Entry(c)
      PROVE  /\ At(0, k)' \in Stored /\ store'[k] = Tree!Visible(At(0, k)')
             /\ k \in UndeletedKeys => At(0, k)' \in Vals /\ store'[k] = At(0, k)'
  <2>1. store'[k] = Tree!Visible(Entry(c))
    BY <1>1, <1>3 DEF Written, Record
  <2> QED
    BY <1>3, <2>1, EntryType DEF Written
<1>4. ASSUME Written(c), k # key(c) PROVE store'[k] = store[k]
  BY <1>1, <1>4 DEF Written, Record
<1>5. CASE EntryWritten(c)
  <2>1. k = key(c) => At(0, k)' = Entry(c)
    BY <1>1, <1>5 DEF EntryWritten, At, Run
  <2>2. k # key(c) => At(0, k)' = At(0, k)
    BY <1>1, <1>5 DEF EntryWritten, At, Run
  <2>3. Written(c)
    BY <1>5 DEF EntryWritten
  <2> QED
    BY <1>2, <1>3, <1>4, <2>1, <2>2, <2>3
<1>6. CASE BufferEmptied(c) /\ Written(c) /\ buffer' = [Empty EXCEPT ![key(c)] = Entry(c)]
  <2>1. k = key(c) => At(0, k)' = Entry(c)
    BY <1>6 DEF At, Empty
  <2>2. k # key(c) => At(0, k)' = None
    BY <1>6 DEF At, Empty
  <2> QED
    BY <1>2, <1>3, <1>4, <1>6, <2>1, <2>2
<1>7. CASE BufferEmptied(c) /\ buffer' = Empty /\ store' = store
  BY <1>2, <1>7 DEF At, Empty
<1> QED
  BY <1>5, <1>6, <1>7 DEF BufferEmptied

(* Where a search finds a version of a key depends on the versions of that *)
(* key alone, and the first of them, if there is one, is what it finds.    *)
LEMMA FindsSame ==
  ASSUME NEW k, NEW p \in Nat, NEW q \in Nat, NEW v, Finds(p, q, k, v),
         \A j \in p .. q : At(j, k)' = At(j, k)
  PROVE  Finds(p, q, k, v)'
<1>1. CASE v = None
  BY <1>1 DEF Finds
<1>2. CASE v # None
  <2>1. PICK i \in p .. q : At(i, k) = v /\ \A j \in p .. (i - 1) : At(j, k) = None
    BY <1>2 DEF Finds
  <2>2. At(i, k)' = v
    BY <2>1
  <2>3. \A j \in p .. (i - 1) : At(j, k)' = None
    BY <2>1
  <2> QED
    BY <1>2, <2>1, <2>2, <2>3 DEF Finds
<1> QED
  BY <1>1, <1>2

LEMMA FindsFirst ==
  ASSUME NEW k, NEW p \in Nat, NEW q \in Nat, p <= q, NEW v, Finds(p, q, k, v)
  PROVE  IF At(p, k) = None THEN Finds(p + 1, q, k, v) ELSE v = At(p, k)
<1>1. CASE v = None
  BY <1>1 DEF Finds
<1>2. CASE v # None
  <2>1. PICK i \in p .. q : At(i, k) = v /\ \A j \in p .. (i - 1) : At(j, k) = None
    BY <1>2 DEF Finds
  <2>2. CASE i = p
    BY <1>2, <2>1, <2>2
  <2>3. CASE i # p
    <3>1. p \in p .. (i - 1) /\ i \in (p + 1) .. q
      BY <2>1, <2>3
    <3> QED
      BY <1>2, <2>1, <3>1 DEF Finds
  <2> QED
    BY <2>2, <2>3
<1> QED
  BY <1>1, <1>2

(* From the buffer on, after it has been written to or emptied.            *)
LEMMA WrittenFinds ==
  ASSUME Control, Content, NEW c \in Clients, EntryWritten(c) \/ BufferEmptied(c),
         NEW k \in Keys, NEW v \in Vals \cup {None}, Finds(0, MAX_LEVELS, k, v)
  PROVE  /\ Finds(0, MAX_LEVELS, k, v)' \/ (At(0, k)' \in Stored /\
                                           store'[k] = Tree!Visible(At(0, k)'))
         /\ k \in UndeletedKeys => Finds(0, MAX_LEVELS, k, v)' \/ (At(0, k)' \in Vals /\
                                                                  store'[k] = At(0, k)')
<1>0. MAX_LEVELS \in Nat /\ v # DELETED_FLAG
  BY ServerAssumption, ValuesAssumption
<1>1. CASE At(0, k)' = At(0, k)
  <2>1. \A j \in 0 .. MAX_LEVELS : At(j, k)' = At(j, k)
    BY <1>1, KeyWritten
  <2> QED
    BY <1>0, <2>1, FindsSame
<1>2. CASE At(0, k)' = None /\ BufferEmptied(c)
  <2>1. Finds(1, MAX_LEVELS, k, v)
    <3>1. CASE At(0, k) = None
      <4>1. Finds(0 + 1, MAX_LEVELS, k, v)
        BY <1>0, <3>1, FindsFirst
      <4> QED
        BY <4>1
    <3>2. CASE At(0, k) # None
      <4>1. v = buffer[k] /\ v # None
        BY <1>0, <3>2, FindsFirst DEF At
      <4> QED
        BY <1>0, <1>2, <4>1 DEF BufferEmptied, Content, BufferMerged
    <3> QED
      BY <3>1, <3>2
  <2>2. Finds(1, MAX_LEVELS, k, v)'
    BY <1>0, <2>1, KeyWritten, FindsSame
  <2>3. Finds(0, MAX_LEVELS, k, v)'
    <3>1. CASE v = None
      BY <1>0, <1>2, <2>2, <3>1 DEF Finds
    <3>2. CASE v # None
      <4>1. PICK i \in 1 .. MAX_LEVELS :
              At(i, k)' = v /\ \A j \in 1 .. (i - 1) : At(j, k)' = None
        BY <2>2, <3>2 DEF Finds
      <4>2. \A j \in 0 .. (i - 1) : At(j, k)' = None
        BY <1>0, <1>2, <4>1
      <4> QED
        BY <1>0, <3>2, <4>1, <4>2 DEF Finds
    <3> QED
      BY <3>1, <3>2
  <2> QED
    BY <2>3
<1> QED
  BY <1>1, <1>2, KeyWritten

LEMMA NextLiveNewest ==
  ASSUME Control, MergesToTemp, Content, NEW c \in Clients, Receive(c) \/ Step(c)
  PROVE  LiveNewest'
<1> SUFFICES ASSUME NEW k \in Keys, NEW v, v = store'[k], v # None
             PROVE  Finds(0, MAX_LEVELS, k, v)'
  BY DEF LiveNewest, Finds
<1>0. MAX_LEVELS \in Nat /\ 0 \in 0 .. MAX_LEVELS /\ MAX_LEVELS \in 0 .. MAX_LEVELS
  BY ServerAssumption
<1>1. store[k] \in Vals \cup {None} /\ (store[k] # None => Finds(0, MAX_LEVELS, k, store[k]))
  BY DEF Control, TypeOK, Content, LiveNewest
<1>2. CASE UNCHANGED <<tree, store>>
  <2>1. \A j \in 0 .. MAX_LEVELS : At(j, k)' = At(j, k)
    BY <1>2 DEF At, tree
  <2> QED
    BY <1>0, <1>1, <1>2, <2>1, FindsSame
<1>3. CASE EntryWritten(c) \/ BufferEmptied(c)
  <2>1. ASSUME At(0, k)' \in Stored, store'[k] = Tree!Visible(At(0, k)')
        PROVE  Finds(0, MAX_LEVELS, k, v)'
    <3>1. v = At(0, k)'
      BY <2>1 DEF Tree!Visible
    <3>2. \A j \in 0 .. (0 - 1) : At(j, k)' = None
      OBVIOUS
    <3> QED
      BY <1>0, <3>1, <3>2 DEF Finds
  <2>2. CASE store'[k] = store[k]
    BY <1>1, <1>3, <2>1, <2>2, WrittenFinds
  <2> QED
    BY <1>3, <2>1, <2>2, KeyWritten
<1>4. CASE pc[c] = "rename" /\ at[c] \in Levels /\ MergedDown(at[c])
  <2>1. store' = store /\ at[c] # 0
    BY <1>4, ServerAssumption DEF MergedDown, Levels
  <2>2. MAX_LEVELS # at[c] - 1
    BY <1>4, ServerAssumption DEF Levels
  <2> QED
    BY <1>0, <1>1, <1>4, <2>1, <2>2, MergeFinds
<1> QED
  BY <1>2, <1>3, <1>4, TreeSteps

LEMMA NextUndeleted ==
  ASSUME Control, MergesToTemp, Content, NEW c \in Clients, Receive(c) \/ Step(c)
  PROVE  Undeleted'
<1> SUFFICES ASSUME NEW k \in UndeletedKeys, NEW i \in 0 .. MAX_LEVELS
             PROVE  At(i, k)' # DELETED_FLAG /\ (store'[k] = None => At(i, k)' = None)
  BY DEF Undeleted, UndeletedKeys
<1>1. k \in Keys /\ \A j \in 0 .. MAX_LEVELS :
                      At(j, k) # DELETED_FLAG /\ (store[k] = None => At(j, k) = None)
  BY DEF Content, Undeleted, UndeletedKeys
<1>2. CASE UNCHANGED <<tree, store>>
  <2>1. At(i, k)' = At(i, k)
    BY <1>2 DEF At, tree
  <2> QED
    BY <1>1, <1>2, <2>1
<1>3. CASE EntryWritten(c) \/ BufferEmptied(c)
  <2>1. CASE i = 0
    BY <1>1, <1>3, <2>1, KeyWritten, ValuesAssumption
  <2>2. CASE i # 0
    <3>1. i \in 1 .. MAX_LEVELS
      BY <2>2, ServerAssumption
    <3> QED
      BY <1>1, <1>3, <3>1, KeyWritten, ValuesAssumption
  <2> QED
    BY <2>1, <2>2
<1>4. CASE pc[c] = "rename" /\ at[c] \in Levels /\ MergedDown(at[c])
  <2>1. store' = store
    BY <1>4 DEF MergedDown
  <2>2. at[c] - 1 \in 0 .. MAX_LEVELS /\ at[c] \in 0 .. MAX_LEVELS /\ 0 \in 0 .. MAX_LEVELS
    BY <1>4, ServerAssumption DEF Levels
  <2>3. At(i, k)' \in {At(j, k) : j \in 0 .. MAX_LEVELS} \cup {None}
    BY <1>1, <1>4, <2>2, MergedAt
  <2> QED
    BY <1>1, <2>1, <2>3, ValuesAssumption
<1> QED
  BY <1>2, <1>3, <1>4, TreeSteps

LEMMA OwnBufferMerged ==
  ASSUME Control, MergesToTemp, Content, NEW c \in Clients, Receive(c) \/ Step(c),
         pc'[c] = "finish" /\ Top(c)' = 1, NEW k \in Keys,
         NEW v, v = buffer'[k], v \notin {None, DELETED_FLAG}
  PROVE  Finds(1, MAX_LEVELS, k, v)'
<1>0. /\ pc \in [Clients -> Steps] /\ at \in [Clients -> 0 .. MAX_LEVELS]
      /\ buffer \in Run /\ line \in [Clients -> Lines \cup {<<>>}]
  BY DEF Control, TypeOK
<1>1. CASE Enter(c)
  <2>1. pc[c] = "enter" /\ Top(c) = at[c] /\ Above(at[c]) = Empty /\ line' = line
    BY <1>0, <1>1 DEF Enter, GoTo
  <2>2. Top(c)' = Top(c)
    BY <2>1 DEF Top, op
  <2>3. buffer = Empty /\ buffer' = buffer
    BY <1>1, <2>1, <2>2 DEF Enter, Above, tree
  <2> QED
    BY <2>3 DEF Empty
<1>2. CASE Rename(c)
  <2>1. at[c] \in Levels /\ MergedDown(at[c]) /\ line' = line
    BY <1>2, RenameMerges DEF GoTo
  <2>2. Top(c)' = Top(c)
    BY <2>1 DEF Top, op
  <2>3. at[c] = 1
    BY <1>0, <1>2, <2>2, RenameMerges DEF GoTo
  <2>4. buffer' = buffer /\ At(0, k) = v
    BY <2>1 DEF MergedDown, At
  <2>5. At(1, k)' = v
    BY <2>1, <2>3, <2>4, MergedAt
  <2>6. 1 \in 1 .. MAX_LEVELS /\ \A j \in 1 .. (1 - 1) : At(j, k)' = None
    BY ServerAssumption
  <2> QED
    BY <2>5, <2>6 DEF Finds
<1>3. ~ Receive(c)
  <2> SUFFICES ASSUME Receive(c) PROVE FALSE
    OBVIOUS
  <2>1. line'[c] \in Lines /\ pc'[c] = FirstStep(line'[c][1])
    BY ReceiveMoves, ControlOf
  <2> QED
    BY <2>1, LineKinds DEF FirstStep
<1>4. ~ (Insert(c) \/ Find(c) \/ Flush(c) \/ Take(c) \/ Get(c) \/ RangeLevel(c) \/ Reply(c)
           \/ Lock(c) \/ PrintStats(c) \/ Open(c) \/ Write(c) \/ Leave(c))
  BY <1>0
  DEF Insert, Find, Flush, Take, Get, RangeLevel, Reply, Lock, PrintStats, Open, Write, Leave,
      GoTo, Done
<1>5. ~ Finish(c)
  <2> SUFFICES ASSUME Finish(c) PROVE FALSE
    OBVIOUS
  <2>1. op(c) \in {"p", "d", "f", "e", "m"}
    BY ControlOf DEF Position, Finish, MergeSteps
  <2> QED
    BY <1>0, <2>1 DEF Finish, GoTo, Done
<1> QED
  BY <1>1, <1>2, <1>3, <1>4, <1>5 DEF Step

LEMMA OtherBufferMerged ==
  ASSUME Control, MergesToTemp, Content, NEW c \in Clients, NEW d \in Clients, c # d,
         Receive(d) \/ Step(d), pc[c] = "finish", Top(c) = 1, NEW k \in Keys,
         NEW v \in Vals, v = buffer'[k]
  PROVE  Finds(1, MAX_LEVELS, k, v)'
<1>0. 0 \in 0 .. MAX_LEVELS /\ 1 \in 0 .. MAX_LEVELS /\ MAX_LEVELS \in 0 .. MAX_LEVELS
      /\ MAX_LEVELS \in Nat
  BY ServerAssumption
<1>1. Holds(c, 0)
  BY DEF Holds
<1>2. ~ Free(0) /\ ~ Holds(d, 0)
  BY <1>0, <1>1, OneHolder
<1>3. buffer' = buffer => Finds(1, MAX_LEVELS, k, v)
  BY ValuesAssumption DEF Content, BufferMerged
<1>4. ~ BufferEmptied(d)
  BY <1>2 DEF BufferEmptied, Holds
<1>5. CASE UNCHANGED <<tree, store>>
  <2>1. \A j \in 1 .. MAX_LEVELS : At(j, k)' = At(j, k)
    BY <1>5 DEF At, tree
  <2> QED
    BY <1>0, <1>3, <1>5, <2>1, FindsSame DEF tree
<1>6. CASE pc[d] = "rename" /\ at[d] \in Levels /\ MergedDown(at[d])
  <2>1. line[d] \in Lines /\ Top(d) \in Levels /\ Top(d) <= at[d]
    BY <1>6, ControlOf, MergePlace DEF Position, MergeSteps
  <2>2. at[d] # 1
    BY <1>2, <1>6, <2>1 DEF Holds, WritingSteps, Levels
  <2>3. buffer' = buffer /\ MAX_LEVELS # at[d] - 1
    BY <1>6, ServerAssumption DEF MergedDown, Levels
  <2> QED
    BY <1>0, <1>3, <1>6, <2>2, <2>3, MergeFinds
<1>7. ~ EntryWritten(d)
  BY <1>2 DEF EntryWritten
<1> QED
  BY <1>4, <1>5, <1>6, <1>7, TreeSteps


LEMMA NextContent ==
  ASSUME Control, MergesToTemp, Content, [Next]_vars
  PROVE  Content'
<1>1. CASE UNCHANGED vars
  BY <1>1 DEF Content, LiveNewest, Undeleted, BufferMerged, Finds, At, Top, op, vars
<1>2. CASE Next
  <2>1. PICK c \in Clients : Receive(c) \/ Step(c)
    BY <1>2 DEF Next
  <2>2. ASSUME NEW d \in Clients, pc'[d] = "finish", Top(d)' = 1, NEW k \in Keys,
               NEW v, v = buffer'[k], v \notin {None, DELETED_FLAG}
        PROVE  Finds(1, MAX_LEVELS, k, v)'
    <3>1. CASE d = c
      BY <2>1, <2>2, <3>1, OwnBufferMerged
    <3>2. CASE d # c
      <4>1. Stays(d)
        BY <2>1, <3>2, StepControl DEF Moved
      <4>2. pc[d] = "finish" /\ Top(d) = 1
        BY <2>2, <4>1 DEF Stays, Top, op
      <4>3. v \in Vals
        BY <2>1, <2>2, StepBuffer DEF Run, Stored
      <4> QED
        BY <2>1, <2>2, <3>2, <4>2, <4>3, OtherBufferMerged
    <3> QED
      BY <3>1, <3>2
  <2>3. BufferMerged'
    BY <2>2 DEF BufferMerged, Finds
  <2> QED
    BY <2>1, <2>3, NextLiveNewest, NextUndeleted DEF Content
<1> QED
  BY <1>1, <1>2

(* At any moment, also in the middle of a cascade and whatever the other   *)
(* threads do, the tree holds for every key of the dictionary its value:   *)
(* the entries that a merge moves are at each of its steps in the level    *)
(* they come from or in the one they go to, and found there first.         *)
THEOREM ServerLiveKeysCorrect ==
  ASSUME LevelOneLocked
  PROVE  Spec => []LiveKeysRead
<1>1. Control /\ Content => LiveKeysRead
  BY LiveNewestAnswers DEF LiveKeysRead, Tree!LiveKeysRead, Content
<1>2. Control /\ MergesToTemp /\ Content /\ [Next]_vars => Content'
  BY NextContent
<1> QED
  BY <1>1, <1>2, InitControl, NextControl, InitMergesToTemp, NextMergesToTemp, InitContent,
     PTL DEF Spec

-----------------------------------------------------------------------------
(* What readers find.                                                      *)

(* The last position that a get or a range reads.                          *)
LastRead(c) == IF op(c) = "g" THEN MAX_LEVELS ELSE MAX_LEVELS - 1

(* A search that has found nothing before position p still finds one of    *)
(* the answers S; and nothing behind it would be a wrong one, should a     *)
(* merge bring it to where the search is.                                  *)
WillFind(S, p, q, k) ==
  /\ \A j \in 0 .. (p - 1) : At(j, k) \in S \cup {None}
  /\ \E v \in S : Finds(p, q, k, v)

(* A search has found nothing outside the commands that read, and a get    *)
(* nothing before its last step.                                           *)
GotSoFar == \A c \in Clients :
  /\ pc[c] \notin ReadSteps => got[c] = Empty
  /\ pc[c] = "read" /\ op(c) = "g" => got[c] = Empty

(* What a search has found, or still finds, is an answer that it may give. *)
StillToFind(c, k) ==
  pc[c] = "read" /\ Reads(c, k) =>
    IF got[c][k] # None THEN got[c][k] \in seen[c][k]
    ELSE WillFind(seen[c][k], at[c], LastRead(c), k)

Answered(c, k) == pc[c] = "reply" /\ Reads(c, k) => got[c][k] \in seen[c][k]

Reading == GotSoFar /\ \A c \in Clients, k \in UndeletedKeys :
                         StillToFind(c, k) /\ Answered(c, k)

(* A step of any other thread leaves a search an answer to find.           *)
LEMMA SearchUndisturbed ==
  ASSUME Control, MergesToTemp, Content, NEW d \in Clients, Receive(d) \/ Step(d),
         NEW k \in UndeletedKeys, NEW S \in SUBSET (Vals \cup {None}), NEW T, S \subseteq T,
         store'[k] \in T,
         NEW p \in 0 .. MAX_LEVELS, NEW q \in {MAX_LEVELS, MAX_LEVELS - 1}, p <= q,
         q = MAX_LEVELS - 1 /\ At(MAX_LEVELS, k)' # None => None \in T,
         WillFind(S, p, q, k)
  PROVE  WillFind(T, p, q, k)'
<1>0. /\ k \in Keys /\ MAX_LEVELS \in Nat \ {0} /\ p \in Nat /\ q \in Nat
      /\ 0 \in 0 .. MAX_LEVELS /\ q \in 0 .. MAX_LEVELS
  BY ServerAssumption DEF UndeletedKeys
<1>1. PICK v \in S : Finds(p, q, k, v)
  BY DEF WillFind
<1>2. v \in Vals \cup {None} /\ v \in T /\ v # DELETED_FLAG
  BY <1>1, ValuesAssumption
<1>3. \A j \in 0 .. (p - 1) : At(j, k) \in S \cup {None}
  BY DEF WillFind
<1>4. ASSUME Finds(p, q, k, v)', \A j \in 0 .. (p - 1) : At(j, k)' \in T \cup {None}
      PROVE  WillFind(T, p, q, k)'
  BY <1>2, <1>4 DEF WillFind
<1>5. CASE UNCHANGED <<tree, store>>
  <2>1. \A j \in Nat : At(j, k)' = At(j, k)
    BY <1>5 DEF At, tree
  <2>2. Finds(p, q, k, v)'
    BY <1>0, <1>1, <2>1, FindsSame
  <2> QED
    BY <1>0, <1>3, <1>4, <2>1, <2>2
<1>6. CASE EntryWritten(d) \/ BufferEmptied(d)
  <2>1. \A j \in 1 .. MAX_LEVELS : At(j, k)' = At(j, k)
    BY <1>0, <1>6, KeyWritten
  <2>2. \/ At(0, k)' \in Vals /\ store'[k] = At(0, k)'
        \/ At(0, k)' = At(0, k)
        \/ At(0, k)' = None /\ BufferEmptied(d)
    BY <1>0, <1>6, KeyWritten
  <2>3. ASSUME NEW j \in 0 .. (p - 1) PROVE At(j, k)' \in T \cup {None}
    <3>1. CASE j = 0
      BY <1>3, <2>2, <3>1
    <3>2. CASE j # 0
      <4>1. j \in 1 .. MAX_LEVELS
        BY <1>0, <3>2
      <4> QED
        BY <1>3, <2>1, <4>1
    <3> QED
      BY <3>1, <3>2
  <2>4. \E w \in T : Finds(p, q, k, w)'
    <3>1. CASE p # 0
      <4>1. \A j \in p .. q : At(j, k)' = At(j, k)
        BY <1>0, <2>1, <3>1
      <4> QED
        BY <1>0, <1>1, <1>2, <4>1, FindsSame
    <3>2. CASE p = 0 /\ At(0, k)' = At(0, k)
      <4>1. \A j \in p .. q : At(j, k)' = At(j, k)
        BY <1>0, <2>1, <3>2
      <4> QED
        BY <1>0, <1>1, <1>2, <4>1, FindsSame
    <3>3. CASE p = 0 /\ At(0, k)' \in Vals /\ store'[k] = At(0, k)'
      <4>1. At(0, k)' # None /\ \A j \in 0 .. (0 - 1) : At(j, k)' = None
        BY <3>3, ValuesAssumption
      <4>2. PICK w \in T : w = At(0, k)'
        BY <3>3
      <4> QED
        BY <1>0, <3>3, <4>1, <4>2 DEF Finds
    <3>4. CASE p = 0 /\ At(0, k)' = None /\ At(0, k) # None /\ BufferEmptied(d)
      <4>1. v = At(0, k)
        BY <1>0, <1>1, <3>4, FindsFirst
      <4>2. Finds(1, MAX_LEVELS, k, v)
        BY <1>0, <1>2, <3>4, <4>1 DEF BufferEmptied, Content, BufferMerged, At
      <4>3. PICK n \in 1 .. MAX_LEVELS : At(n, k) = v /\ \A j \in 1 .. (n - 1) : At(j, k) = None
        BY <3>4, <4>1, <4>2 DEF Finds
      <4>4. At(n, k)' = v /\ \A j \in 0 .. (n - 1) : At(j, k)' = None
        BY <1>0, <2>1, <3>4, <4>3
      <4>5. CASE n <= q
        <5>1. n \in p .. q /\ v # None
          BY <1>0, <3>4, <4>1, <4>5
        <5> QED
          BY <1>2, <3>4, <4>4, <5>1 DEF Finds
      <4>6. CASE n > q
        <5>1. n = MAX_LEVELS /\ q = MAX_LEVELS - 1
          BY <1>0, <4>6
        <5>2. None \in T
          BY <3>4, <4>1, <4>4, <5>1
        <5> QED
          BY <3>4, <4>4, <5>1, <5>2 DEF Finds
      <4> QED
        BY <1>0, <4>5, <4>6
    <3> QED
      BY <2>2, <3>1, <3>2, <3>3, <3>4
  <2> QED
    BY <2>3, <2>4 DEF WillFind
<1>7. CASE pc[d] = "rename" /\ at[d] \in Levels /\ MergedDown(at[d])
  <2>0. PICK i \in Levels : MergedDown(i)
    BY <1>7
  <2>1. i \in 1 .. MAX_LEVELS /\ i \in 0 .. MAX_LEVELS /\ i - 1 \in 0 .. MAX_LEVELS
    BY <1>0 DEF Levels
  <2>2. /\ \A j \in 0 .. MAX_LEVELS : j # i /\ j # i - 1 => At(j, k)' = At(j, k)
        /\ At(i - 1, k)' = IF i = 1 THEN At(0, k) ELSE None
        /\ At(i, k)' = IF At(i - 1, k) = None THEN At(i, k) ELSE At(i - 1, k)
    <3>1. At(i - 1, k) # DELETED_FLAG
      BY <2>1 DEF Content, Undeleted
    <3> QED
      BY <1>0, <2>0, <3>1, MergedAt
  <2>3. ASSUME NEW j \in 0 .. (p - 1) PROVE At(j, k)' \in T \cup {None}
    <3>1. j \in 0 .. MAX_LEVELS
      BY <1>0
    <3>2. CASE j = i
      <4>1. i - 1 \in 0 .. (p - 1)
        BY <1>0, <2>1, <3>2
      <4> QED
        BY <1>3, <2>2, <3>2, <4>1
    <3>3. CASE j = i - 1
      BY <1>0, <1>3, <2>1, <2>2, <3>3
    <3> QED
      BY <1>3, <2>2, <3>1, <3>2, <3>3
  <2>4. CASE p = i
    <3>1. i - 1 \in 0 .. (p - 1)
      BY <1>0, <2>1, <2>4
    <3>2. CASE At(i - 1, k) = None
      <4>1. \A j \in p .. q : At(j, k)' = At(j, k)
        BY <1>0, <2>1, <2>2, <2>4, <3>2
      <4> QED
        BY <1>0, <1>1, <1>4, <2>3, <4>1, FindsSame
    <3>3. CASE At(i - 1, k) # None
      <4>1. PICK w \in T : w # None /\ At(p, k)' = w
        BY <1>3, <2>2, <2>4, <3>1, <3>3
      <4>2. p \in p .. q /\ \A j \in p .. (p - 1) : At(j, k)' = None
        BY <1>0
      <4>3. Finds(p, q, k, w)'
        BY <4>1, <4>2 DEF Finds
      <4> QED
        BY <2>3, <4>1, <4>3 DEF WillFind
    <3> QED
      BY <3>2, <3>3
  <2>5. CASE p # i /\ (q # i - 1 \/ v = None)
    <3>1. Finds(p, q, k, v)'
      BY <1>0, <1>1, <1>2, <2>0, <2>5, MergeFinds
    <3> QED
      BY <1>4, <2>3, <3>1
  <2>6. CASE p # i /\ q = i - 1 /\ v # None
    <3>1. i = MAX_LEVELS /\ q = MAX_LEVELS - 1
      BY <1>0, <2>1, <2>6
    <3>2. PICK n \in p .. q : At(n, k) = v /\ \A j \in p .. (n - 1) : At(j, k) = None
      BY <1>1, <2>6 DEF Finds
    <3>3. \A j \in p .. (n - 1) : At(j, k)' = None
      BY <1>0, <2>2, <2>6, <3>2
    <3>4. CASE At(n, k)' = At(n, k)
      <4>1. Finds(p, q, k, v)'
        BY <2>6, <3>2, <3>3, <3>4 DEF Finds
      <4> QED
        BY <1>4, <2>3, <4>1
    <3>5. CASE At(n, k)' # At(n, k)
      <4>1. n = i - 1 /\ At(n, k)' = None
        BY <1>0, <2>1, <2>2, <2>6, <3>2, <3>5
      <4>2. At(MAX_LEVELS, k)' # None
        BY <2>2, <2>6, <3>1, <3>2, <4>1
      <4>3. None \in T
        BY <3>1, <4>2
      <4>4. Finds(p, q, k, None)'
        BY <1>0, <2>1, <2>6, <3>3, <4>1 DEF Finds
      <4> QED
        BY <2>3, <4>3, <4>4 DEF WillFind
    <3> QED
      BY <3>4, <3>5
  <2> QED
    BY <2>4, <2>5, <2>6
<1> QED
  BY <1>5, <1>6, <1>7, TreeSteps

LEMMA VersionNext ==
  Control' => (\A i \in 0 .. MAX_LEVELS, k \in Keys : Tree!Version(i, k) = At(i, k))'
<1>1. Control => \A i \in 0 .. MAX_LEVELS, k \in Keys : Tree!Version(i, k) = At(i, k)
  BY AtType
<1> QED
  BY <1>1, PTL

(* The answers that a read may give: those that it might have given before,*)
(* the dictionary's value now, and None for a range while the last level   *)
(* has an entry.                                                           *)
LEMMA SeenNext ==
  ASSUME Control, Control', Watch, NEW c \in Clients, NEW k \in UndeletedKeys, Reads(c, k)'
  PROVE  /\ seen[c][k] \subseteq seen'[c][k] /\ store'[k] \in seen'[c][k]
         /\ op(c)' = "r" /\ At(MAX_LEVELS, k)' # None => None \in seen'[c][k]
<1>1. seen'[c][k] = seen[c][k] \cup Current(c, k)'
  BY DEF Watch
<1>2. Tree!Version(MAX_LEVELS, k)' = At(MAX_LEVELS, k)'
  <2>1. MAX_LEVELS \in 0 .. MAX_LEVELS /\ k \in Keys
    BY ServerAssumption DEF UndeletedKeys
  <2> QED
    BY <2>1, VersionNext
<1> QED
  BY <1>1, <1>2 DEF Current

LEMMA WillFindSame ==
  ASSUME NEW k, NEW S, NEW p \in Nat, NEW q \in Nat, tree' = tree, WillFind(S, p, q, k)
  PROVE  WillFind(S, p, q, k)'
<1>1. \A j : At(j, k)' = At(j, k)
  BY DEF At, tree
<1> QED
  BY <1>1, FindsSame DEF WillFind

(* The search that a read begins with, and one step of it.                 *)
LEMMA WillFindFirst ==
  ASSUME Control, Content, NEW k \in UndeletedKeys, NEW T, store[k] \in T,
         NEW q \in {MAX_LEVELS, MAX_LEVELS - 1},
         q = MAX_LEVELS - 1 /\ At(MAX_LEVELS, k) # None => None \in T
  PROVE  WillFind(T, 0, q, k)
<1>0. MAX_LEVELS \in Nat \ {0} /\ k \in Keys
  BY ServerAssumption DEF UndeletedKeys
<1>1. \A j \in 0 .. (0 - 1) : At(j, k) \in T \cup {None}
  OBVIOUS
<1>2. CASE store[k] = None
  <2>1. \A j \in 0 .. MAX_LEVELS : At(j, k) = None
    BY <1>2 DEF Content, Undeleted
  <2>2. Finds(0, q, k, store[k])
    BY <1>0, <1>2, <2>1 DEF Finds
  <2> QED
    BY <1>1, <2>2 DEF WillFind
<1>3. CASE store[k] # None
  <2>1. PICK n \in 0 .. MAX_LEVELS : At(n, k) = store[k] /\ \A j \in 0 .. (n - 1) : At(j, k) = None
    BY <1>0, <1>3 DEF Content, LiveNewest, Finds
  <2>2. CASE n <= q
    <3>1. Finds(0, q, k, store[k])
      BY <1>0, <1>3, <2>1, <2>2 DEF Finds
    <3> QED
      BY <1>1, <3>1 DEF WillFind
  <2>3. CASE n > q
    <3>1. q = MAX_LEVELS - 1 /\ n = MAX_LEVELS
      BY <1>0, <2>3
    <3>2. Finds(0, q, k, None) /\ None \in T
      BY <1>3, <2>1, <3>1 DEF Finds
    <3> QED
      BY <1>1, <3>2 DEF WillFind
  <2> QED
    BY <1>0, <2>2, <2>3
<1> QED
  BY <1>2, <1>3

LEMMA WillFindStep ==
  ASSUME NEW k, NEW S, NEW T, S \subseteq T, NEW p \in Nat, NEW q \in Nat, p <= q,
         WillFind(S, p, q, k)
  PROVE  /\ At(p, k) # None => At(p, k) \in T
         /\ At(p, k) = None => WillFind(T, p + 1, q, k) /\ (p = q => None \in T)
<1>1. PICK v \in S : Finds(p, q, k, v)
  BY DEF WillFind
<1>2. ASSUME At(p, k) = None PROVE WillFind(T, p + 1, q, k) /\ (p = q => None \in T)
  <2>1. Finds(p + 1, q, k, v)
    BY <1>1, <1>2, FindsFirst
  <2>2. \A j \in 0 .. ((p + 1) - 1) : At(j, k) \in T \cup {None}
    BY <1>2 DEF WillFind
  <2>3. p = q => v = None
    BY <2>1 DEF Finds
  <2> QED
    BY <1>1, <2>1, <2>2, <2>3 DEF WillFind
<1> QED
  BY <1>1, <1>2, FindsFirst

(* The thread that reads takes a step itself.                              *)
LEMMA LastReadRange ==
  ASSUME Control, NEW c \in Clients, pc[c] = "read"
  PROVE  /\ LastRead(c) \in {MAX_LEVELS, MAX_LEVELS - 1}
         /\ LastRead(c) \in Nat /\ at[c] \in Nat /\ at[c] <= LastRead(c)
         /\ line[c] \in Lines /\ op(c) \in {"g", "r"}
         /\ LastRead(c) = IF op(c) = "g" THEN MAX_LEVELS ELSE MAX_LEVELS - 1
<1>1. /\ line[c] \in Lines /\ op(c) \in {"g", "r"} /\ at[c] \in 0 .. MAX_LEVELS
      /\ op(c) # "g" => at[c] < MAX_LEVELS
  BY ControlOf DEF Position, ReadSteps
<1>2. LastRead(c) = IF op(c) = "g" THEN MAX_LEVELS ELSE MAX_LEVELS - 1
  BY DEF LastRead
<1>3. LastRead(c) \in {MAX_LEVELS, MAX_LEVELS - 1} /\ at[c] <= LastRead(c)
  BY <1>1, <1>2, ServerAssumption
<1>4. LastRead(c) \in Nat /\ at[c] \in Nat
  BY <1>1, <1>3, ServerAssumption
<1> QED
  BY <1>1, <1>2, <1>3, <1>4

LEMMA GetReads ==
  ASSUME Control, Control', Watch, Content, Reading, NEW c \in Clients, Get(c),
         NEW k \in UndeletedKeys
  PROVE  StillToFind(c, k)' /\ Answered(c, k)'
<1> DEFINE T == seen'[c][k]
           x == At(at[c], key(c))
<1>1. /\ pc[c] = "read" /\ op(c) = "g" /\ line[c] \in Lines /\ LastRead(c) = MAX_LEVELS
      /\ at[c] \in Nat /\ at[c] <= MAX_LEVELS /\ MAX_LEVELS \in Nat
  BY LastReadRange, ServerAssumption DEF Get
<1>2. key(c) \in Keys
  BY <1>1, LineKinds DEF op, key
<1>3. Tree!Version(at[c], key(c)) = x
  BY <1>1, <1>2, AtType
<1>4. /\ got' = [got EXCEPT ![c][key(c)] = x] /\ tree' = tree
      /\ IF x = None /\ at[c] < MAX_LEVELS THEN GoTo(c, "read", at[c] + 1)
                                           ELSE GoTo(c, "reply", at[c])
  BY <1>3 DEF Get
<1>5. pc \in [Clients -> Steps] /\ at \in [Clients -> 0 .. MAX_LEVELS] /\ got \in [Clients -> Run]
  BY DEF Control, TypeOK
<1>6. line' = line /\ op(c)' = op(c) /\ key(c)' = key(c) /\ LastRead(c)' = MAX_LEVELS
  BY <1>1, <1>4 DEF GoTo, op, key, LastRead
<1>7. Reads(c, k)' => k = key(c) /\ seen[c][k] \subseteq T
  BY <1>1, <1>6, SeenNext DEF Reads
<1>8. got[c] = Empty
  BY <1>1 DEF Reading, GotSoFar
<1>9. k = key(c) => WillFind(seen[c][k], at[c], MAX_LEVELS, k)
  <2>1. k = key(c) => Reads(c, k) /\ got[c][k] = None
    BY <1>1, <1>2, <1>8 DEF Reads, ReadSteps, Empty
  <2> QED
    BY <1>1, <2>1 DEF Reading, StillToFind
<1>10. k = key(c) => got'[c][k] = x
  BY <1>2, <1>4, <1>5 DEF Run
<1>11. ASSUME Reads(c, k)'
       PROVE  /\ x # None => x \in T
              /\ x = None => WillFind(T, at[c] + 1, MAX_LEVELS, k)
                             /\ (at[c] = MAX_LEVELS => None \in T)
  <2> HIDE DEF T
  <2> QED
    BY <1>1, <1>7, <1>9, <1>11, WillFindStep
<1>12. CASE x = None /\ at[c] < MAX_LEVELS
  <2>1. pc'[c] = "read" /\ at'[c] = at[c] + 1
    BY <1>4, <1>5, <1>12 DEF GoTo
  <2>2. ASSUME Reads(c, k)' PROVE WillFind(seen[c][k], at[c], LastRead(c), k)'
    <3>1. PICK p \in Nat : p = at[c] + 1
      BY <1>1
    <3>2. PICK S : S = T
      OBVIOUS
    <3>3. WillFind(S, p, MAX_LEVELS, k)
      BY <1>11, <1>12, <2>2, <3>1, <3>2
    <3>4. WillFind(S, p, MAX_LEVELS, k)'
      BY <1>1, <1>4, <3>3, WillFindSame
    <3> QED
      BY <1>6, <2>1, <3>1, <3>2, <3>4 DEF WillFind, Finds
  <2>3. Reads(c, k)' => got'[c][k] = None
    BY <1>7, <1>10, <1>12
  <2> QED
    BY <2>1, <2>2, <2>3 DEF StillToFind, Answered
<1>13. CASE ~ (x = None /\ at[c] < MAX_LEVELS)
  <2>1. pc'[c] = "reply"
    BY <1>4, <1>5, <1>13 DEF GoTo
  <2>2. Reads(c, k)' => got'[c][k] \in T
    BY <1>1, <1>7, <1>10, <1>11, <1>13
  <2> QED
    BY <2>1, <2>2 DEF StillToFind, Answered
<1> QED
  BY <1>12, <1>13

LEMMA RangeReads ==
  ASSUME Control, Control', Watch, Content, Reading, NEW c \in Clients, RangeLevel(c),
         NEW k \in UndeletedKeys
  PROVE  StillToFind(c, k)' /\ Answered(c, k)'
<1> DEFINE T == seen'[c][k]
           x == At(at[c], k)
           q == MAX_LEVELS - 1
<1>1. /\ pc[c] = "read" /\ op(c) = "r" /\ LastRead(c) = q
      /\ at[c] \in Nat /\ at[c] <= q /\ q \in Nat /\ MAX_LEVELS \in Nat
  BY LastReadRange, ServerAssumption DEF RangeLevel
<1>2. k \in Keys
  BY DEF UndeletedKeys
<1>3. Tree!Version(at[c], k) = x
  BY <1>1, <1>2, AtType
<1>4. /\ got'[c][k] = IF got[c][k] # None THEN got[c][k] ELSE x
      /\ tree' = tree
      /\ IF at[c] < q THEN GoTo(c, "read", at[c] + 1) ELSE GoTo(c, "reply", at[c])
  <2>1. got \in [Clients -> Run]
    BY DEF Control, TypeOK
  <2> QED
    BY <1>2, <1>3, <2>1 DEF RangeLevel
<1>5. pc \in [Clients -> Steps] /\ at \in [Clients -> 0 .. MAX_LEVELS]
  BY DEF Control, TypeOK
<1>6. line' = line /\ op(c)' = op(c) /\ LastRead(c)' = q
  BY <1>1, <1>4 DEF GoTo, op, LastRead
<1>7. pc'[c] \in ReadSteps
  BY <1>4, <1>5 DEF GoTo, ReadSteps
<1>8. Reads(c, k) /\ Reads(c, k)'
  BY <1>1, <1>6, <1>7 DEF Reads, ReadSteps
<1>9. seen[c][k] \subseteq T
  BY <1>8, SeenNext
<1>10. IF got[c][k] # None THEN got[c][k] \in seen[c][k]
       ELSE WillFind(seen[c][k], at[c], q, k)
  BY <1>1, <1>8 DEF Reading, StillToFind
<1>11. ASSUME got[c][k] = None
       PROVE  /\ x # None => x \in T
              /\ x = None => WillFind(T, at[c] + 1, q, k) /\ (at[c] = q => None \in T)
  <2> HIDE DEF T, q
  <2> QED
    BY <1>1, <1>9, <1>10, <1>11, WillFindStep
<1>12. got'[c][k] # None => got'[c][k] \in T
  BY <1>4, <1>9, <1>10, <1>11
<1>13. CASE at[c] < q
  <2>1. pc'[c] = "read" /\ at'[c] = at[c] + 1
    BY <1>4, <1>5, <1>13 DEF GoTo
  <2>2. ASSUME got'[c][k] = None PROVE WillFind(seen[c][k], at[c], LastRead(c), k)'
    <3>1. PICK p \in Nat : p = at[c] + 1
      BY <1>1
    <3>2. PICK S : S = T
      OBVIOUS
    <3>3. WillFind(S, p, q, k)
      BY <1>4, <1>11, <2>2, <3>1, <3>2
    <3>4. WillFind(S, p, q, k)'
      BY <1>1, <1>4, <3>3, WillFindSame
    <3> QED
      BY <1>6, <2>1, <3>1, <3>2, <3>4 DEF WillFind, Finds
  <2> QED
    BY <1>12, <2>1, <2>2 DEF StillToFind, Answered
<1>14. CASE ~ (at[c] < q)
  <2>1. pc'[c] = "reply" /\ at[c] = q
    BY <1>1, <1>4, <1>5, <1>14 DEF GoTo
  <2>2. got'[c][k] \in T
    BY <1>4, <1>11, <1>12, <2>1
  <2> QED
    BY <2>1, <2>2 DEF StillToFind, Answered
<1> QED
  BY <1>13, <1>14

LEMMA OtherStepsGot ==
  ASSUME Control, GotSoFar, NEW c \in Clients, Receive(c) \/ Step(c),
         ~ Get(c), ~ RangeLevel(c)
  PROVE  /\ got'[c] = Empty
         /\ pc'[c] \in ReadSteps =>
              /\ Receive(c) /\ pc'[c] = "read" /\ at'[c] = 0 /\ op(c)' \in {"g", "r"}
<1>0. /\ pc \in [Clients -> Steps] /\ at \in [Clients -> 0 .. MAX_LEVELS]
      /\ got \in [Clients -> Run]
  BY DEF Control, TypeOK
<1>1. CASE Receive(c)
  <2>1. pc[c] = "idle" /\ got' = got
    BY <1>1 DEF Receive
  <2>2. got'[c] = Empty /\ at[c] = 0
    BY <2>1, ControlOf DEF GotSoFar, ReadSteps, Position
  <2>3. line'[c] \in Lines /\ pc'[c] = FirstStep(line'[c][1]) /\ at'[c] = 0
    BY <1>1, <2>2, ReceiveMoves, ControlOf
  <2> QED
    BY <1>1, <2>2, <2>3, LineKinds DEF FirstStep, ReadSteps, op
<1>2. CASE Reply(c)
  BY <1>0, <1>2 DEF Reply, Done, ReadSteps
<1>3. ASSUME pc[c] \notin ReadSteps, got' = got, pc'[c] \notin ReadSteps
      PROVE  got'[c] = Empty /\ pc'[c] \notin ReadSteps
  BY <1>3 DEF GotSoFar
<1>4. CASE Insert(c) \/ Find(c) \/ Flush(c) \/ Take(c) \/ Lock(c) \/ PrintStats(c)
           \/ Open(c) \/ Write(c)
  BY <1>0, <1>3, <1>4
  DEF Insert, Find, Flush, Take, Lock, PrintStats, Open, Write, GoTo, Done, ReadSteps
<1>5. CASE Enter(c) \/ Rename(c) \/ Leave(c)
  BY <1>0, <1>3, <1>5 DEF Enter, Rename, Leave, GoTo, ReadSteps
<1>6. CASE Finish(c)
  <2>1. op(c) \in {"p", "d", "f", "e", "m"}
    BY <1>6, ControlOf DEF Position, Finish, MergeSteps
  <2> QED
    BY <1>0, <1>3, <1>6, <2>1 DEF Finish, GoTo, Done, ReadSteps
<1> QED
  BY <1>1, <1>2, <1>4, <1>5, <1>6 DEF Step

LEMMA OwnReading ==
  ASSUME Control, Control', Watch, Content, Reading, NEW c \in Clients, Receive(c) \/ Step(c),
         NEW k \in UndeletedKeys
  PROVE  StillToFind(c, k)' /\ Answered(c, k)'
<1>1. CASE Get(c)
  BY <1>1, GetReads
<1>2. CASE RangeLevel(c)
  BY <1>2, RangeReads
<1>3. CASE ~ Get(c) /\ ~ RangeLevel(c)
  <2>1. CASE pc'[c] \notin ReadSteps
    BY <2>1 DEF StillToFind, Answered, ReadSteps
  <2>2. CASE pc'[c] \in ReadSteps
    <3>1. Receive(c) /\ pc'[c] = "read" /\ at'[c] = 0 /\ op(c)' \in {"g", "r"} /\ got'[c] = Empty
      BY <1>3, <2>2, OtherStepsGot DEF Reading
    <3>2. tree' = tree /\ store' = store
      BY <3>1 DEF Receive
    <3>3. At(MAX_LEVELS, k)' = At(MAX_LEVELS, k)
      BY <3>2 DEF At, tree
    <3>4. PICK S : S = seen'[c][k]
      OBVIOUS
    <3>5. PICK q \in {MAX_LEVELS, MAX_LEVELS - 1} : q = LastRead(c)'
      BY DEF LastRead
    <3>6. q \in Nat /\ (q = MAX_LEVELS - 1 => op(c)' = "r") /\ k \in Keys
      BY <3>1, <3>5, ServerAssumption DEF LastRead, UndeletedKeys
    <3>7. CASE Reads(c, k)'
      <4>1. store[k] \in S
        BY <3>2, <3>4, <3>7, SeenNext
      <4>2. q = MAX_LEVELS - 1 /\ At(MAX_LEVELS, k) # None => None \in S
        BY <3>3, <3>4, <3>6, <3>7, SeenNext
      <4>3. WillFind(S, 0, q, k)
        BY <4>1, <4>2, WillFindFirst
      <4>4. WillFind(S, 0, q, k)'
        BY <3>2, <3>6, <4>3, WillFindSame
      <4>5. WillFind(seen[c][k], at[c], LastRead(c), k)'
        BY <3>1, <3>4, <3>5, <4>4 DEF WillFind, Finds
      <4>6. got'[c][k] = None
        BY <3>1, <3>6 DEF Empty
      <4> QED
        BY <3>1, <4>5, <4>6 DEF StillToFind, Answered
    <3>8. CASE ~ Reads(c, k)'
      BY <3>8 DEF StillToFind, Answered
    <3> QED
      BY <3>7, <3>8
  <2> QED
    BY <2>1, <2>2
<1> QED
  BY <1>1, <1>2, <1>3

LEMMA OtherReading ==
  ASSUME Control, Control', Watch, MergesToTemp, Content, Reading,
         NEW c \in Clients, NEW d \in Clients, c # d, Receive(d) \/ Step(d),
         NEW k \in UndeletedKeys
  PROVE  StillToFind(c, k)' /\ Answered(c, k)'
<1>1. Stays(c)
  BY StepControl DEF Moved
<1>2. op(c)' = op(c) /\ key(c)' = key(c) /\ LastRead(c)' = LastRead(c)
  BY <1>1 DEF Stays, op, key, LastRead
<1>3. Reads(c, k)' <=> Reads(c, k)
  BY <1>1, <1>2 DEF Stays, Reads
<1>4. got'[c] = got[c]
  <2>1. got \in [Clients -> Run]
    BY DEF Control, TypeOK
  <2>2. CASE Get(d) \/ RangeLevel(d) \/ Reply(d)
    BY <2>1, <2>2 DEF Get, RangeLevel, Reply
  <2>3. CASE got' = got
    BY <2>3
  <2> QED
    BY <2>2, <2>3
    DEF Step, Receive, Insert, Find, Flush, Take, Enter, Open, Write, Rename, Finish, Leave,
        Lock, PrintStats
<1>5. Reads(c, k)' => seen[c][k] \subseteq seen'[c][k]
  BY SeenNext
<1>6. Answered(c, k)'
  <2>1. Answered(c, k)
    BY DEF Reading
  <2> QED
    BY <1>1, <1>3, <1>4, <1>5, <2>1 DEF Answered, Stays
<1>7. StillToFind(c, k)'
  <2> SUFFICES ASSUME pc'[c] = "read", Reads(c, k)'
               PROVE  IF got'[c][k] # None THEN got'[c][k] \in seen'[c][k]
                      ELSE WillFind(seen[c][k], at[c], LastRead(c), k)'
    BY DEF StillToFind
  <2>1. /\ pc[c] = "read" /\ Reads(c, k)
        /\ IF got[c][k] # None THEN got[c][k] \in seen[c][k]
           ELSE WillFind(seen[c][k], at[c], LastRead(c), k)
    BY <1>1, <1>3 DEF Reading, StillToFind, Stays
  <2>2. CASE got[c][k] # None
    BY <1>4, <1>5, <2>1, <2>2
  <2>3. CASE got[c][k] = None
    <3>1. PICK S \in SUBSET (Vals \cup {None}) : S = seen[c][k]
      BY DEF Control, TypeOK
    <3>2. PICK T : T = seen'[c][k]
      OBVIOUS
    <3>3. PICK p \in 0 .. MAX_LEVELS : p = at[c]
      BY DEF Control, TypeOK
    <3>4. PICK q \in {MAX_LEVELS, MAX_LEVELS - 1} : q = LastRead(c)
      BY DEF LastRead
    <3>5. p <= q /\ (q = MAX_LEVELS - 1 => op(c)' = "r")
      BY <1>2, <2>1, <3>3, <3>4, LastReadRange, ServerAssumption
    <3>6. S \subseteq T /\ store'[k] \in T
          /\ (q = MAX_LEVELS - 1 /\ At(MAX_LEVELS, k)' # None => None \in T)
      BY <1>5, <3>1, <3>2, <3>5, SeenNext
    <3>7. WillFind(S, p, q, k)
      BY <2>1, <2>3, <3>1, <3>3, <3>4
    <3>8. WillFind(T, p, q, k)'
      BY <3>5, <3>6, <3>7, SearchUndisturbed
    <3>9. p = at'[c] /\ q = LastRead(c)'
      BY <1>1, <1>2, <3>3, <3>4 DEF Stays
    <3>10. WillFind(seen[c][k], at[c], LastRead(c), k)'
      BY <3>2, <3>8, <3>9 DEF WillFind, Finds
    <3> QED
      BY <1>4, <2>3, <3>10
  <2> QED
    BY <2>2, <2>3
<1> QED
  BY <1>6, <1>7

LEMMA NextGotSoFar ==
  ASSUME Control, GotSoFar, NEW c \in Clients, Receive(c) \/ Step(c), NEW d \in Clients
  PROVE  /\ pc'[d] \notin ReadSteps => got'[d] = Empty
         /\ pc'[d] = "read" /\ op(d)' = "g" => got'[d] = Empty
<1>0. /\ pc \in [Clients -> Steps] /\ got \in [Clients -> Run]
      /\ buffer \in Run /\ level \in [Levels -> Run]
  BY DEF Control, TypeOK
<1>1. CASE d # c
  <2>1. Stays(d)
    BY <1>1, StepControl DEF Moved
  <2>2. got'[d] = got[d]
    <3>2. CASE Get(c) \/ RangeLevel(c) \/ Reply(c)
      BY <1>0, <1>1, <3>2 DEF Get, RangeLevel, Reply
    <3>3. CASE got' = got
      BY <3>3
    <3> QED
      BY <3>2, <3>3
      DEF Step, Receive, Insert, Find, Flush, Take, Enter, Open, Write, Rename, Finish, Leave,
          Lock, PrintStats
  <2> QED
    BY <2>1, <2>2 DEF Stays, GotSoFar, op
<1>2. CASE d = c /\ Get(c)
  <2>1. got[c] = Empty
    BY <1>2 DEF GotSoFar, Get
  <2>2. pc'[c] \in {"read", "reply"}
    BY <1>0, <1>2 DEF Get, GoTo
  <2>3. pc'[c] = "read" => Tree!Version(at[c], key(c)) = None
    BY <1>0, <1>2 DEF Get, GoTo
  <2>4. got' = [got EXCEPT ![c][key(c)] = Tree!Version(at[c], key(c))]
    BY <1>2 DEF Get
  <2>5. pc'[c] = "read" => got'[c] = Empty
    BY <1>0, <2>1, <2>3, <2>4 DEF Empty, Run
  <2> QED
    BY <1>2, <2>2, <2>5 DEF ReadSteps
<1>3. CASE d = c /\ RangeLevel(c)
  <2>1. op(c) = "r" /\ line' = line /\ pc'[c] \in {"read", "reply"}
    BY <1>0, <1>3 DEF RangeLevel, GoTo
  <2> QED
    BY <1>3, <2>1 DEF ReadSteps, op
<1>4. CASE d = c /\ ~ Get(c) /\ ~ RangeLevel(c)
  BY <1>4, OtherStepsGot
<1> QED
  BY <1>1, <1>2, <1>3, <1>4

LEMMA NextReading ==
  Control /\ Control' /\ MergesToTemp /\ Content /\ Reading /\ [Next]_vars => Reading'
<1>1. ASSUME Reading, UNCHANGED vars PROVE Reading'
  BY <1>1 DEF Reading, GotSoFar, StillToFind, Answered, Reads, WillFind, Finds, At, LastRead,
              op, key, vars
<1>2. ASSUME Control, Control', MergesToTemp, Content, Reading, Next PROVE Reading'
  <2>1. PICK c \in Clients : Receive(c) \/ Step(c)
    BY <1>2 DEF Next
  <2>2. Watch
    BY <1>2 DEF Next
  <2>3. ASSUME NEW d \in Clients, NEW k \in UndeletedKeys
        PROVE  StillToFind(d, k)' /\ Answered(d, k)'
    BY <1>2, <2>1, <2>2, OwnReading, OtherReading
  <2>4. GotSoFar'
    BY <1>2, <2>1, NextGotSoFar DEF GotSoFar, Reading
  <2> QED
    BY <2>3, <2>4 DEF Reading
<1> QED
  BY <1>1, <1>2

LEMMA InitReading == Init => Reading
BY DEF Init, Reading, GotSoFar, StillToFind, Answered, ReadSteps

(* The whole invariant: where threads are and what they hold, what merges  *)
(* and the tree contain, and what readers still find.                      *)
SInv == Control /\ MergesToTemp /\ Content /\ Reading

LEMMA AlwaysSInv ==
  ASSUME LevelOneLocked
  PROVE  Spec => []SInv
<1>1. Init => SInv
  BY InitControl, InitMergesToTemp, InitContent, InitReading DEF SInv
<1>2. SInv /\ [Next]_vars => SInv'
  BY NextControl, NextMergesToTemp, NextContent, NextReading DEF SInv
<1> QED
  BY <1>1, <1>2, PTL DEF Spec

(* A get answers with a value that its key had at some moment of the       *)
(* command: a merge may move the key's entry while the search is on its way*)
(* down, but only down, where the search has not been yet.                 *)
THEOREM GetAnswersCorrect ==
  ASSUME LevelOneLocked
  PROVE  Spec => []GetAnswersCurrent
<1>1. SInv => GetAnswersCurrent
  BY DEF SInv, Reading, Answered, Reads, ReadSteps, GetAnswersCurrent
<1> QED
  BY <1>1, AlwaysSInv, PTL

(* A range reports of each key what it had at some moment of the command,  *)
(* and leaves out no key that was neither absent nor at the last level.    *)
THEOREM RangeAnswersCorrect ==
  ASSUME LevelOneLocked
  PROVE  Spec => []RangeAnswersCurrent
<1>1. SInv => RangeAnswersCurrent
  BY DEF SInv, Reading, Answered, Reads, ReadSteps, RangeAnswersCurrent
<1> QED
  BY <1>1, AlwaysSInv, PTL
=============================================================================
