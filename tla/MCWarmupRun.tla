---------------------------- MODULE MCWarmupRun ----------------------------
(* A small instance of WarmupRun: nothing on the first day, little after it, *)
(* and less again on some.                                                   *)
EXTENDS WarmupRun, TLC

MCQuota == <<0, 1, 0, 2, 1>>
MCSymmetry == Permutations(Slots)
=============================================================================
