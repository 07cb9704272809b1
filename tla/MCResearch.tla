----------------------------- MODULE MCResearch -----------------------------
(* Research with two jobs and two people, as model values.                  *)
EXTENDS Research, TLC

MCSymmetry == Permutations(Job)
=============================================================================
