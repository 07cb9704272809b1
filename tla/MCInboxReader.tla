---------------------------- MODULE MCInboxReader ----------------------------
(* A small instance of InboxReader. *)
EXTENDS InboxReader

\* one message of the inbox is deleted at most, and of two one is an auto-reply
\* (nobody's read leads out of these: liveness is checked within them)
Few ==
  /\ Cardinality({i \in Arrived : inbox[i].gone}) <= 1
  /\ Len(inbox) = 2 => \E i \in Arrived : inbox[i].kind = "autoreply"
=============================================================================
