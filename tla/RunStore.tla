------------------------------ MODULE RunStore ------------------------------
(***************************************************************************)
(* What a level promises: it stores one run, merges another into it, hands *)
(* its run on and is empty, and answers for a key with the entry of the    *)
(* run.  Files, filters and fence pointers do not show, nor do restarts.   *)
(***************************************************************************)
EXTENDS SSTable

CONSTANT Probes   \* the keys asked for

VARIABLES run,    \* the run stored
          doing   \* what goes on under the lock

Idle == [op |-> "nothing"]

Init == run = Empty /\ doing = Idle

Begin == /\ doing = Idle
         /\ doing' \in [op : {"merge"}, incoming : Run]
         /\ UNCHANGED run

MergeIn == /\ doing.op = "merge"
           /\ run' = MergeRuns(run, doing.incoming)
           /\ doing' = Idle

Drain == /\ doing = Idle
         /\ run' = Empty
         /\ UNCHANGED doing

Ask == /\ doing = Idle
       /\ doing' \in [op : {"get"}, key : Probes]
       /\ UNCHANGED run

Answer == /\ doing.op = "get"
          /\ doing' = [op    |-> "answer",
                       value |-> IF doing.key \in Keys THEN run[doing.key] ELSE None]
          /\ UNCHANGED run

Reply == /\ doing.op = "answer"
         /\ doing' = Idle
         /\ UNCHANGED run

Next == Begin \/ MergeIn \/ Drain \/ Ask \/ Answer \/ Reply

Spec == Init /\ [][Next]_<<run, doing>>
=============================================================================
