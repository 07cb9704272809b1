---------------------------- MODULE MCMailJournal ----------------------------
(* A small instance of MailJournal. *)
EXTENDS MailJournal, TLC

MCSymmetry == Permutations(Person) \cup Permutations(Readers)
=============================================================================
