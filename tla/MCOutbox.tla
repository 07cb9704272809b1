------------------------------ MODULE MCOutbox ------------------------------
(* A small instance of Outbox: any of its words may be asked for anywhere. *)
EXTENDS Outbox

MCAsks == (Threads \cup Firsts) \X Words
MCSymmetry == Permutations(Slots) \cup Permutations(Words)

\* as many replies as the limits need go into the open conversation while no first
\* message is written, a third one after two of different words; with a first message
\* there are two replies, of one date
Untouched ==
  /\ \A t \in Firsts : chat[t] = Nothing
  /\ \A i \in Ids : replies[i].thread \notin Firsts
  /\ \A s \in Slots : job[s].thread \notin Firsts
Few ==
  \/ /\ Untouched
     /\ Len(replies) = 3 => replies[1].words # replies[2].words
  \/ /\ Len(replies) <= 2
     /\ \A i \in Ids : replies[i].age = 0
=============================================================================
