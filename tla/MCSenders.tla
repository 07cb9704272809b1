----------------------------- MODULE MCSenders -----------------------------
(* Small instances of Senders for TLC: three stories, each with all of the  *)
(* steps that matter to it.                                                 *)
EXTENDS Senders, TLC

MCAllow == <<2, 3, 4>>

NoWork(work) == \A x \in DOMAIN work : work[x].at = "idle"
Untouched(s) ==
  /\ sender[s] = [status |-> "active", stage |-> 1, ceiling |-> 4, moved |-> 1, wrote |-> {}]
  /\ used[s] = 0 /\ delivered[s] = 0 /\ top[s] = 2 /\ base[s] = 1
  /\ \A w \in Writers : writer[w].of # s
  /\ \A i \in DOMAIN queue : queue[i].of # s
OneMailbox ==
  /\ domain = "active" /\ blindAny = 0 /\ \A w \in Singles \cup Replies : writer[w].at = "idle"
  /\ \A i \in DOMAIN queue : queue[i].kind \notin {"domain", "ceiling"}
  /\ \E s \in Senders : sender[s].ceiling = 4 /\ \A t \in Senders \ {s} : Untouched(t)

Replying == {w \in Replies : writer[w].at # "idle"}

\* two mailboxes of a domain, the pass and a single letter or a quick reply, one day
Letters == day = 1 /\ NoWork(check) /\ NoWork(review) /\ bad = {}
           /\ calls + faults <= 1
           /\ (Replying # {} => \A w \in Singles : writer[w].at = "idle")
           /\ Len(queue) <= 2
           /\ Total(delivered) <= 2 /\ blindAny <= 1 /\ Total(used) <= 3
           /\ \A s \in Senders : sender[s].status # "retired" /\ sender[s].ceiling \in {1, 4}
           /\ domain # "retired" /\ \A w \in Writers : Total(writer[w].ledger) <= 2

\* one mailbox, two checks, what people do about it
Alarms == OneMailbox /\ day <= 2 /\ NoWork(review)
          /\ \A s \in Senders : sender[s].stage = 1 /\ top[s] = 2 /\ base[s] = 1

\* one mailbox, days, two reviews, people who change the stage
Ramp == OneMailbox /\ NoWork(check) /\ faults + overlaps = 0
        /\ \A s \in Senders : raised[s] = 0

Stories == Letters \/ Alarms \/ Ramp

Swaps == Permutations(Senders) \cup Permutations(Checks) \cup Permutations(Reviews)
=============================================================================
