------------------------- MODULE MCMailChainStories -------------------------
(* A larger instance of MailChain: two people of one company and two       *)
(* campaigns.  Everything that can happen, at once, is too much, so that a  *)
(* behaviour keeps to one of three stories: Somebody, who is in the         *)
(* campaign First to begin with, stays alone, and then everything fails or  *)
(* everything comes and goes, or is joined by colleagues at the start.      *)
EXTENDS MCMailChain

Somebody == CHOOSE p \in Person : TRUE
MCOneEnrolled == {<<First, Somebody>>}

Alone ==
  /\ \A p \in Person \ {Somebody} : InNone(p)
  /\ \A e \in journal : e.who \in {Somebody, Nobody}
Together == \A p \in Person : ~InNone(p)
OneRuns == \A c \in Campaign : camp[c] = IF c = First THEN "running" ELSE "draft"
\* requests that have asked about people and not yet written their rows
Joining == {r \in pending : r[1] = "enroll"}
NoneSaid(kinds) == \A e \in journal : e.kind \notin kinds

\* Somebody is in one campaign, running, that nobody leaves, and everything
\* fails; who bounces has not also been away.
Failing ==
  /\ Alone /\ OneRuns /\ late.camp[First] = 0 /\ \A e \in journal : e.camp = First
  /\ enr[First][Somebody].st # "none" /\ enr[First][Somebody].since = 0
  /\ Joining = {}
  /\ NoneSaid({"replied", "erased", "unsubscribed"})
  /\ NoneSaid({"bounced"}) \/ NoneSaid({"autoreplied"})

\* Nothing fails and nothing is stopped; people and campaigns come and go, and
\* one request at a time adds Somebody, or their colleagues before the first
\* letter.  While it waits nobody pauses a campaign or unsubscribes.
Leaving ==
  /\ Alone /\ faults = 0 /\ Cardinality(Joining) <= 1
  /\ \A r \in Joining :
       r[3] # Somebody => OneRuns /\ pc = "idle" /\ pending = Joining /\ last = 0
  /\ NoneSaid({"replied", "bounced", "autoreplied"})
  /\ Joining # {} => /\ \A c \in Campaign : camp[c] # "paused"
                     /\ NoneSaid({"unsubscribed"})
  /\ saved.camp = [c \in Campaign |-> IF c = First THEN "running" ELSE "draft"]
  /\ saved.enr[First][Somebody] = [NoRow EXCEPT !.st = "active"]

\* Colleagues joined one campaign before its first letter: they answer, the
\* campaign is paused and started, and people are picked up again; nothing
\* fails and limits say no to nobody.  Somebody is the first to answer (the
\* others are like them).
Colleagues ==
  /\ Together /\ faults = 0 /\ pending = {}
  /\ \A c \in Campaign \ {First} : camp[c] = "draft"
  /\ camp[First] \in {"running", "paused"}
  /\ \A p \in Person : enr[First][p].st # "none" /\ enr[First][p].since = 0
  /\ \A p \in Person : saved.enr[First][p].st = IF p = Somebody THEN "active" ELSE "none"
  /\ NoneSaid({"bounced", "unsubscribed", "autoreplied", "erased"})
  /\ NoneSaid({"replied"}) \/ Told(journal, Somebody, {"replied"})
  /\ \A p \in Person : enr[First][p].st = "stopped" => Told(journal, p, {"replied"})

OneStory == Failing \/ Leaving \/ Colleagues

\* They join before anything happens and stay together.
StoryGoesOn ==
  /\ Together' # Together => pc = "idle" /\ OneRuns /\ faults = 0 /\ ~Together
  /\ Together => \A p \in todo \ todo' : Sendable(p) => enr' # enr
=============================================================================
