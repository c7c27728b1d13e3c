------------------------------ MODULE MCLevel ------------------------------
(***************************************************************************)
(* LevelLife for TLC: tables of a few bytes of two bits, in which keys     *)
(* collide, so that filters admit keys their level does not have.          *)
(***************************************************************************)
EXTENDS LevelLife

MCHash(k, s) == (k * s) \div 2 + s

(* Odd for some counts, so that the rounding to whole bytes matters.       *)
MCOptimalSize(count) == 2 * count + 1
=============================================================================
