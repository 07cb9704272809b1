---------------------------- MODULE MCInvitations ----------------------------
(* Small instances of Invitations.  Two people over several days are too    *)
(* many states: where the second one comes in, the day is short and only    *)
(* one account is at work.                                                  *)
EXTENDS Invitations, TLC

MaxLog == 2

\* The bound on the events of one row.
LogBound == \A r \in Rows : Len(log[r]) <= MaxLog

\* The people a row, a request in hand or LinkedIn knows of.
Touched == {p \in People : \/ \E r \in Rows : row[r].person = p
                           \/ \E s \in Slots : job[s].person = p
                           \/ \E a \in Accounts : linkedin[<<a, p>>] # "none"}

\* One day and one session in which requests are made, sent and reported.
ShortDay ==
    /\ day = 1 /\ agent.lease <= 1 /\ agent.try <= 1 /\ paused = {}
    /\ agent.outcome \in {None, "sent"}
    /\ \A s \in Slots : job[s].kind \in {"idle", "byhand", "sent"}
    /\ \A r \in Rows : row[r].status \in {"new", "waiting", "pending"} /\ log[r] = <<>>
    /\ \E a \in Accounts :
          /\ \A r \in Rows : row[r].account \in {None, a}
          /\ \A s \in Slots : job[s].account \in {None, a}
          /\ agent.account \in {None, a}
    /\ \A x \in Accounts \X People : linkedin[x] \in {"none", "pending"}

Explored == LogBound /\ (Cardinality(Touched) <= 1 \/ ShortDay)

Symmetry == Permutations(Rows) \cup Permutations(Slots) \cup Permutations(Accounts) \cup Permutations(People)

=============================================================================
