---------------------------- MODULE OutreachLedger ----------------------------
(***************************************************************************)
(* What the outreach table promises about one person, whoever writes it    *)
(* and in whatever order: the person is free, or held for a request, or    *)
(* asked, or has answered, and only ever moves along ALLOWED_MOVES         *)
(* (warmup/invites.mjs).  Only a held person can be let go again, and a    *)
(* recorded answer is never erased.                                        *)
(***************************************************************************)
CONSTANT People

VARIABLES
    stage,      \* how far the approach to each person has come
    answered    \* the people whose own words have been recorded

vars == <<stage, answered>>

Stages == {"free", "waiting", "pending", "accepted", "connected", "withdrawn"}

After ==
    [ free      |-> {"waiting", "pending"},
      waiting   |-> {"pending", "accepted", "withdrawn", "free"},
      pending   |-> {"accepted", "connected", "withdrawn"},
      accepted  |-> {"connected"},
      connected |-> {},
      withdrawn |-> {} ]

Init ==
    /\ stage = [p \in People |-> "free"]
    /\ answered = {}

Move(p, to) ==
    /\ to \in After[stage[p]]
    /\ stage' = [stage EXCEPT ![p] = to]
    /\ answered' = IF to = "connected" THEN answered \cup {p} ELSE answered

Next == \E p \in People, to \in Stages : Move(p, to)

Spec == Init /\ [][Next]_vars

=============================================================================
