----------------------------- MODULE MCServer -----------------------------
(***************************************************************************)
(* Instances of Server for TLC: key 1 may be deleted, key 2 is put.        *)
(***************************************************************************)
EXTENDS Server, TLC

CONSTANTS a, b

MCCapacity == [i \in 1 .. MAX_LEVELS |->
                 INITIAL_LEVEL_CAPACITY * SIZE_RATIO ^ (i - 1)]

MCInitialVals == {a}
ClientSymmetry == Permutations(Clients)

AllLines == {<<"p", 2, b>>, <<"p", 1, b>>, <<"d", 1>>, <<"g", 2>>, <<"r">>,
             <<"s">>, <<"f">>, <<"m", 1>>, <<"e">>}
MergeLines == {<<"p", 2, b>>, <<"f">>, <<"m", 1>>, <<"m", 2>>}
LockLines == {<<"p", 2, b>>, <<"g", 2>>, <<"s">>, <<"m", 1>>, <<"m", 2>>}
LeaveLines == {<<"p", 2, b>>, <<"e">>}
=============================================================================
