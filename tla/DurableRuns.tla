---------------------------- MODULE DurableRuns ----------------------------
(***************************************************************************)
(* What the data directory promises to processes that may be killed at any *)
(* moment: one run for each level, merged into the next one at a stroke.   *)
(* A process that dies takes with it what the buffer held, and it may take *)
(* the runs of the two levels of one merge; the process started next may   *)
(* find the last level empty.  No other run is ever lost.                  *)
(***************************************************************************)
EXTENDS SSTable

CONSTANTS MAX_LEVELS,
          Lost         \* nothing is known of a level's run any more

VARIABLES up,      \* there is a process
          runs,    \* the run of each level, or Lost
          buffer   \* the run in memory

Init == /\ up = FALSE
        /\ runs = [i \in 1 .. MAX_LEVELS |-> Empty]
        /\ buffer = Empty

Forgotten(run) == IF run = Lost THEN Lost ELSE Empty

(* A process starts.                                                       *)
Start == /\ ~ up
         /\ up' = TRUE
         /\ runs' \in {runs, [runs EXCEPT ![MAX_LEVELS] = Forgotten(@)]}
         /\ UNCHANGED buffer

(* Puts and deletes, as many as the buffer has room for.                   *)
Fill == /\ up
        /\ buffer' \in Run
        /\ UNCHANGED <<up, runs>>

Merged(run, child) == IF Lost \in {run, child} THEN Lost ELSE MergeRuns(run, child)

Flush == /\ up
         /\ runs' = [runs EXCEPT ![1] = Merged(@, buffer)]
         /\ buffer' = Empty
         /\ UNCHANGED up

MergeDown(i) == /\ up
                /\ runs' = [runs EXCEPT ![i] = Empty,
                                        ![i + 1] = Merged(@, runs[i])]
                /\ UNCHANGED <<up, buffer>>

(* i is the level that was merged into, 0 when no merge was.               *)
Die(i) == /\ up
          /\ up' = FALSE
          /\ runs' = [j \in 1 .. MAX_LEVELS |-> IF i # 0 /\ j \in {i - 1, i} THEN Lost
                                                ELSE runs[j]]
          /\ buffer' = Empty

Next == \/ Start \/ Fill \/ Flush
        \/ \E i \in 1 .. (MAX_LEVELS - 1) : MergeDown(i)
        \/ \E i \in 0 .. MAX_LEVELS : Die(i)

Spec == Init /\ [][Next]_<<up, runs, buffer>>
=============================================================================
