---------------------------- MODULE MCLSMTreeKV ----------------------------
(***************************************************************************)
(* Instances of LSMTreeKV for TLC.                                         *)
(***************************************************************************)
EXTENDS LSMTreeKV, TLC

CONSTANTS a, b

MCVals == {a, b}
MCCapacity == [i \in 1 .. MAX_LEVELS |->
                 INITIAL_LEVEL_CAPACITY * SIZE_RATIO ^ (i - 1)]
Symmetry == Permutations({a, b})
=============================================================================
