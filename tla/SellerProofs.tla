----------------------------- MODULE SellerProofs -----------------------------
(***************************************************************************)
(* What holds of the three parts that serve the seller, for every value of *)
(* their constants:                                                        *)
(*  - the outbox (Outbox), whatever the number of conversations, words,    *)
(*    calls served at once and replies: no double copy waits, what was     *)
(*    taken back is not typed, the limit of the day is kept;               *)
(*  - the pings (Pings): a step of a dialog has one task, and what people  *)
(*    decided is kept;                                                     *)
(*  - the research jobs (Research): one job of a person at a time, what a  *)
(*    restart may cost, and a file that never goes back.                   *)
(* The three share no state: Spec is the outbox's, PingsSpec the pings',   *)
(* ResearchSpec the jobs'.                                                 *)
(***************************************************************************)
EXTENDS Outbox, Pings, Research, Integers, WellFoundedInduction, FiniteSetTheorems,
        SequenceTheorems, TLAPS

-----------------------------------------------------------------------------
(* The shape of the state, as far as the proofs need it.                   *)

Verdicts == {"none", "sent", "failed", "cancelled"}

Reply == [thread : Away, words : Words, age : Nat, verdict : Verdicts, today : BOOLEAN]

RepliesOK == replies \in Seq(Reply)

JobOK(j) ==
  /\ j.kind \in {"none", "queue", "cancelled", "sent", "failed"}
  /\ j.kind = "queue" => j.thread \in Away /\ j.words \in Words
  /\ j.kind = "cancelled" => j.id \in Ids

JobsOK == DOMAIN job = Slots /\ \A s \in Slots : JobOK(job[s])

\* The calls that queue take turns, and what one of them looked for is still not there.
OneAsks == \A s, t \in Slots : job[s].kind = "queue" /\ job[t].kind = "queue" => s = t
StillNew == \A s \in Slots : job[s].kind = "queue" => ~Same(job[s].thread, job[s].words)

\* The agent reports that a reply went, or that it did not.
AgentOK ==
  /\ agent = [at |-> agent.at, items |-> agent.items, id |-> agent.id,
              slot |-> agent.slot, say |-> agent.say, left |-> agent.left]
  /\ agent.at \in {"tell", "wait"} => agent.say \in {"sent", "failed"}

CallsInv == JobsOK /\ OneAsks /\ StillNew
CopyInv == RepliesOK /\ CallsInv /\ AgentOK /\ OneWaitingCopy

-----------------------------------------------------------------------------
(* What may happen to the replies: a verdict, an age, one more.            *)

LEMMA WaitingIs ==
  ASSUME RepliesOK
  PROVE  \A i \in Ids : State(i) = "waiting" <=> replies[i].verdict = "none" /\ replies[i].age <= Expire
<1> TAKE i \in Ids
<1>1. replies[i] \in Reply
  BY DEF RepliesOK, Ids
<1>2. replies[i].verdict \in Verdicts /\ replies[i].age \in Nat /\ Expire \in Nat
  BY <1>1, ConstantsAssumption DEF Reply
<1> QED
  BY <1>2 DEF State, Expired, Verdicts

LEMMA LeastOfThree ==
  ASSUME NEW x \in Nat, NEW y \in Nat, NEW z \in Nat
  PROVE  Min({x, y, z}) \in Nat /\ Min({x, y, z}) <= y
<1>1. \E m \in {x, y, z} : \A k \in {x, y, z} : m <= k
  <2>1. CASE x <= y /\ x <= z
    BY <2>1
  <2>2. CASE y <= x /\ y <= z
    BY <2>2
  <2>3. CASE z <= x /\ z <= y
    BY <2>3
  <2> QED
    BY <2>1, <2>2, <2>3
<1> QED
  BY <1>1 DEF Min

LEMMA Sequence ==
  ASSUME NEW S, NEW n \in Nat, NEW t \in [1 .. n -> S]
  PROVE  t \in Seq(S) /\ Len(t) = n
OBVIOUS

\* A verdict changes neither the words nor the place of any reply.
LEMMA Noting ==
  ASSUME RepliesOK, NEW i, NEW v \in Verdicts \ {"none"}, Note(i, v)
  PROVE  /\ RepliesOK' /\ Len(replies') = Len(replies)
         /\ \A k \in Ids : /\ replies'[k].thread = replies[k].thread
                           /\ replies'[k].words = replies[k].words
                           /\ replies'[k].age = replies[k].age
                           /\ replies'[k].verdict = IF k = i THEN v ELSE replies[k].verdict
<1> DEFINE Given(r) == [r EXCEPT !.verdict = v]
           Dated(r) == [r EXCEPT !.today = TRUE]
           Noted(k) == IF k = i THEN Dated(Given(replies[k])) ELSE replies[k]
<1>1. \A k \in Ids : replies[k] \in Reply
  BY DEF RepliesOK, Ids
<1>2. \A r \in Reply : /\ Given(r) \in Reply /\ Given(r).verdict = v
                       /\ Given(r).thread = r.thread /\ Given(r).words = r.words
                       /\ Given(r).age = r.age
  BY DEF Reply
<1>3. \A r \in Reply : /\ Dated(r) \in Reply /\ Dated(r).verdict = r.verdict
                       /\ Dated(r).thread = r.thread /\ Dated(r).words = r.words
                       /\ Dated(r).age = r.age
  BY DEF Reply
<1>4. Len(replies) \in Nat /\ DOMAIN replies = Ids
  BY DEF RepliesOK, Ids
<1>5. replies' = [k \in Ids |-> Noted(k)]
  BY <1>4, Zenon DEF Note
<1> HIDE DEF Given, Dated
<1>6. \A k \in Ids : /\ Noted(k) \in Reply
                     /\ Noted(k).thread = replies[k].thread /\ Noted(k).words = replies[k].words
                     /\ Noted(k).age = replies[k].age
                     /\ Noted(k).verdict = IF k = i THEN v ELSE replies[k].verdict
  BY <1>1, <1>2, <1>3
<1> HIDE DEF Noted
<1>7. replies' \in [Ids -> Reply]
  BY <1>5, <1>6
<1>8. RepliesOK' /\ Len(replies') = Len(replies)
  BY <1>4, <1>7, Sequence DEF RepliesOK, Ids
<1> QED
  BY <1>5, <1>6, <1>8

LEMMA Aging ==
  ASSUME RepliesOK, Midnight
  PROVE  /\ RepliesOK' /\ Len(replies') = Len(replies)
         /\ \A k \in Ids : /\ replies'[k].thread = replies[k].thread
                           /\ replies'[k].words = replies[k].words
                           /\ replies'[k].verdict = replies[k].verdict
                           /\ State(k)' = "waiting" => State(k) = "waiting"
<1>1. \A k \in Ids : replies[k] \in Reply
  BY DEF RepliesOK, Ids
<1>2. Expire \in Nat
  BY ConstantsAssumption
<1>3. \A a \in Nat : Min({a + 1, Expire + 1}) \in Nat
  BY <1>2 DEF Min
<1>4. \A a \in Nat : Min({a + 1, Expire + 1}) > Expire <=> a + 1 > Expire
  BY <1>2 DEF Min
<1> DEFINE Older(r) == [r EXCEPT !.age = Min({@ + 1, Expire + 1}), !.today = FALSE]
<1>5. \A r \in Reply : /\ Older(r) \in Reply /\ Older(r).verdict = r.verdict
                       /\ Older(r).thread = r.thread /\ Older(r).words = r.words
                       /\ Older(r).age = Min({r.age + 1, Expire + 1})
  BY <1>3 DEF Reply
<1>6. replies' = [k \in Ids |-> Older(replies[k])]
  BY DEF Midnight
<1> HIDE DEF Older
<1>7. RepliesOK' /\ Len(replies') = Len(replies) /\ \A k \in Ids : replies'[k] = Older(replies[k])
  <2>1. \A k \in Ids : Older(replies[k]) \in Reply
    BY <1>1, <1>5
  <2>2. replies' \in [Ids -> Reply]
    BY <1>6, <2>1
  <2>3. Len(replies) \in Nat
    BY DEF RepliesOK
  <2> QED
    BY <1>6, <2>2, <2>3, Sequence DEF RepliesOK, Ids
<1>8. Ids' = Ids
  BY <1>7 DEF Ids
<1>9. ASSUME NEW k \in Ids, State(k)' = "waiting"
      PROVE  State(k) = "waiting"
  <2>1. /\ replies[k].age \in Nat /\ replies[k].verdict \in Verdicts
        /\ replies'[k].age = Min({replies[k].age + 1, Expire + 1})
        /\ replies'[k].verdict = replies[k].verdict
    BY <1>1, <1>5, <1>7 DEF Reply
  <2>2. replies'[k].verdict = "none" /\ ~(replies'[k].age > Expire)
    BY <1>9, <2>1 DEF State, Expired, Verdicts
  <2>3. ~(replies[k].age > Expire)
    BY <1>2, <1>4, <2>1, <2>2
  <2> QED
    BY <2>1, <2>2, <2>3 DEF State, Expired
<1> QED
  BY <1>1, <1>5, <1>7, <1>9

\* A reply that does not wait never waits again.
Fewer ==
  /\ Len(replies') = Len(replies)
  /\ \A k \in Ids : /\ replies'[k].thread = replies[k].thread
                    /\ replies'[k].words = replies[k].words
                    /\ State(k)' = "waiting" => State(k) = "waiting"

LEMMA AgingFewer ==
  ASSUME RepliesOK, Midnight
  PROVE  Fewer
BY Aging DEF Fewer

LEMMA NotingFewer ==
  ASSUME RepliesOK, NEW i, NEW v \in Verdicts \ {"none"}, Note(i, v)
  PROVE  Fewer
<1>1. \A k \in Ids : State(k)' = "waiting" => State(k) = "waiting"
  <2> TAKE k \in Ids
  <2>1. CASE k = i
    BY <2>1, Noting DEF State, Verdicts
  <2>2. CASE k # i
    BY <2>2, Noting DEF State, Expired
  <2> QED
    BY <2>1, <2>2
<1> QED
  BY <1>1, Noting DEF Fewer

LEMMA SameFewer ==
  ASSUME UNCHANGED replies
  PROVE  Fewer
BY DEF Fewer, State, Expired, Ids

LEMMA FewerWait ==
  ASSUME RepliesOK, Fewer
  PROVE  /\ Ids' = Ids /\ Waiting' \subseteq Waiting
         /\ OneWaitingCopy => OneWaitingCopy'
         /\ \A t, w : Same(t, w)' => Same(t, w)
<1>1. Ids' = Ids
  BY DEF Fewer, Ids
<1>2. Waiting' \subseteq Waiting
  BY <1>1 DEF Fewer, Waiting
<1>3. Waiting \subseteq Ids
  BY DEF Waiting
<1>4. OneWaitingCopy => OneWaitingCopy'
  BY <1>2, <1>3 DEF Fewer, OneWaitingCopy
<1>5. \A t, w : Same(t, w)' => Same(t, w)
  BY <1>2, <1>3 DEF Fewer, Same
<1> QED
  BY <1>1, <1>2, <1>4, <1>5

-----------------------------------------------------------------------------
(* The calls.                                                              *)

\* A call that does not queue a reply begins, goes on or ends.
LEMMA OtherCall ==
  ASSUME RepliesOK, CallsInv, Fewer, NEW s \in Slots, NEW j, j.kind # "queue", JobOK(j),
         job' = [job EXCEPT ![s] = j]
  PROVE  CallsInv'
<1>1. /\ DOMAIN job' = Slots
      /\ \A t \in Slots : job'[t] = IF t = s THEN j ELSE job[t]
  BY DEF CallsInv, JobsOK
<1>2. Ids' = Ids /\ \A t, w : Same(t, w)' => Same(t, w)
  BY FewerWait
<1>3. JobsOK'
  BY <1>1, <1>2 DEF CallsInv, JobsOK, JobOK
<1>4. OneAsks'
  BY <1>1 DEF CallsInv, OneAsks
<1>5. StillNew'
  BY <1>1, <1>2 DEF CallsInv, StillNew
<1> QED
  BY <1>3, <1>4, <1>5 DEF CallsInv

LEMMA SameCalls ==
  ASSUME RepliesOK, CallsInv, Fewer, UNCHANGED job
  PROVE  CallsInv'
<1>1. Ids' = Ids /\ \A t, w : Same(t, w)' => Same(t, w)
  BY FewerWait
<1>2. JobsOK' /\ OneAsks'
  BY <1>1 DEF CallsInv, JobsOK, JobOK, OneAsks
<1>3. StillNew'
  BY <1>1 DEF CallsInv, StillNew
<1> QED
  BY <1>2, <1>3 DEF CallsInv

\* A call that ends is off.
LEMMA LeavesCall ==
  ASSUME RepliesOK, CallsInv, Fewer, NEW s \in Slots, Leaves(s)
  PROVE  CallsInv'
<1>1. Idle.kind # "queue" /\ JobOK(Idle)
  BY DEF Idle, JobOK
<1> QED
  BY <1>1, OtherCall DEF Leaves

-----------------------------------------------------------------------------
(* One waiting copy.                                                       *)

LEMMA CopyInit ==
  ASSUME Init
  PROVE  CopyInv
<1>1. replies = <<>> /\ \A s \in Slots : job[s].kind = "none"
  BY DEF Init, Idle
<1>2. RepliesOK
  BY <1>1 DEF RepliesOK
<1>3. CallsInv
  BY <1>1 DEF Init, CallsInv, JobsOK, JobOK, OneAsks, StillNew
<1>4. AgentOK
  BY DEF Init, Gone, AgentOK
<1>5. OneWaitingCopy
  BY <1>1 DEF OneWaitingCopy, Waiting, Ids
<1> QED
  BY <1>2, <1>3, <1>4, <1>5 DEF CopyInv

\* A call looks: no other one is between its look and its insert.
LEMMA QueueReadStep ==
  ASSUME CopyInv, NEW s \in Slots, NEW a \in Asks, QueueRead(s, a[1], a[2])
  PROVE  CopyInv'
<1> DEFINE j == [Idle EXCEPT !.kind = "queue", !.thread = a[1], !.words = a[2]]
<1>1. /\ j.kind = "queue" /\ j.thread = a[1] /\ j.words = a[2]
  BY DEF Idle
<1>2. a[1] \in Away /\ a[2] \in Words
  BY ConstantsAssumption DEF Away
<1>3. /\ job' = [job EXCEPT ![s] = j] /\ UNCHANGED <<replies, agent>>
      /\ ~Same(a[1], a[2]) /\ \A t \in Slots : job[t].kind # "queue"
  BY DEF QueueRead, MyTurn
<1> HIDE DEF j
<1>4. DOMAIN job = Slots /\ \A t \in Slots : job'[t] = IF t = s THEN j ELSE job[t]
  BY <1>3 DEF CopyInv, CallsInv, JobsOK
<1>5. Fewer
  BY <1>3, SameFewer
<1>6. Ids' = Ids /\ OneWaitingCopy' /\ \A t, w : Same(t, w)' => Same(t, w)
  BY <1>5, FewerWait DEF CopyInv
<1>7. JobsOK'
  BY <1>1, <1>2, <1>3, <1>4, <1>6 DEF CopyInv, CallsInv, JobsOK, JobOK
<1>8. OneAsks'
  BY <1>3, <1>4 DEF OneAsks
<1>9. StillNew'
  BY <1>1, <1>3, <1>4, <1>6 DEF StillNew
<1>10. RepliesOK' /\ AgentOK'
  BY <1>3 DEF CopyInv, RepliesOK, AgentOK
<1> QED
  BY <1>6, <1>7, <1>8, <1>9, <1>10 DEF CopyInv, CallsInv

\* Its insert adds a reply that none of the waiting ones is a copy of.
LEMMA QueueWriteStep ==
  ASSUME CopyInv, NEW s \in Slots, QueueWrite(s)
  PROVE  CopyInv'
<1> DEFINE r == [thread |-> job[s].thread, words |-> job[s].words,
                 age |-> 0, verdict |-> "none", today |-> FALSE]
<1>1. r \in Reply /\ r.thread = job[s].thread /\ r.words = job[s].words
  BY DEF CopyInv, CallsInv, JobsOK, JobOK, QueueWrite, Reply, Verdicts
<1>2. replies' = Append(replies, r) /\ Leaves(s) /\ UNCHANGED agent
      /\ ~Same(job[s].thread, job[s].words)
  BY DEF QueueWrite, CopyInv, CallsInv, StillNew
<1> HIDE DEF r
<1>3. /\ RepliesOK' /\ Len(replies') = Len(replies) + 1 /\ Len(replies) \in Nat
      /\ \A k \in Ids : replies'[k] = replies[k]
      /\ replies'[Len(replies) + 1] = r
  BY <1>1, <1>2 DEF CopyInv, RepliesOK, Ids
<1>4. Ids' = Ids \cup {Len(replies) + 1} /\ Len(replies) + 1 \notin Ids
  BY <1>3 DEF Ids
<1>5. \A k \in Ids : State(k)' = State(k)
  BY <1>3 DEF State, Expired
<1>6. Waiting' \subseteq Waiting \cup {Len(replies) + 1}
  BY <1>4, <1>5 DEF Waiting
<1>7. \A k \in Waiting : ~(replies[k].thread = r.thread /\ replies[k].words = r.words)
  BY <1>1, <1>2 DEF Same
<1>8. Waiting \subseteq Ids
  BY DEF Waiting
<1>9. OneWaitingCopy'
  BY <1>3, <1>6, <1>7, <1>8 DEF OneWaitingCopy, CopyInv
<1>10. /\ \A t \in Slots : job'[t] = IF t = s THEN Idle ELSE job[t]
       /\ DOMAIN job' = Slots /\ Idle.kind = "none"
  BY <1>2 DEF Leaves, CopyInv, CallsInv, JobsOK, Idle
<1>11. \A t \in Slots : job'[t].kind # "queue"
  BY <1>10 DEF CopyInv, CallsInv, OneAsks, QueueWrite
<1>12. CallsInv'
  BY <1>4, <1>10, <1>11 DEF CopyInv, CallsInv, JobsOK, JobOK, OneAsks, StillNew
<1> QED
  BY <1>2, <1>3, <1>9, <1>12 DEF CopyInv, AgentOK

\* A visit begins with a plan.
LEMMA VisitGoes ==
  ASSUME Visit
  PROVE  (\E items : agent' = Onwards(items)) /\ UNCHANGED <<replies, chat, twice, job, back>>
BY Zenon DEF Visit

\* The agent's report of a reply that went, or did not, and what it is asked next.
LEMMA AgentShape ==
  ASSUME AgentOK, [Next]_vars
  PROVE  AgentOK'
<1> USE DEF AgentOK
<1>1. CASE UNCHANGED agent
  BY <1>1
<1>2. ASSUME \/ agent' = Gone
             \/ \E items : agent' = Onwards(items)
      PROVE  AgentOK'
  <2>1. CASE agent' = Gone
    BY <2>1 DEF Gone
  <2>2. ASSUME NEW items, agent' = Onwards(items)
        PROVE  AgentOK'
    <3>1. agent' = [at |-> "next", items |-> items, id |-> 0, slot |-> 0, say |-> "none", left |-> 0]
      BY <2>2 DEF Onwards, Gone
    <3> QED
      BY <3>1
  <2> QED
    BY <1>2, <2>1, <2>2
<1>3. CASE Visit
  BY <1>2, <1>3, VisitGoes
<1>4. CASE Prepare
  BY <1>4 DEF Prepare, Onwards, Gone
<1>5. CASE Type
  BY <1>5 DEF Type, Report
<1>6. CASE NoAnswer
  BY <1>6 DEF NoAnswer, Gone
<1>7. CASE Stop
  BY <1>7 DEF Stop, Gone
<1>8. ASSUME NEW s \in Slots, Tell(s)
      PROVE  AgentOK'
  BY <1>8 DEF Tell, Onwards, Gone
<1>9. ASSUME NEW s \in Slots, Portal(s)
      PROVE  AgentOK'
  <2>1. CASE NoteWrite(s)
    BY <1>1, <1>2, <2>1 DEF NoteWrite
  <2>2. CASE ~NoteWrite(s)
    BY <1>1, <1>9, <2>2 DEF Portal, QueueRead, QueueWrite, CancelRead, Fail
  <2> QED
    BY <2>1, <2>2
<1> QED
  BY <1>1, <1>3, <1>4, <1>5, <1>6, <1>7, <1>8, <1>9
     DEF Next, Agent, Midnight, Write, vars

\* Every other step leaves the replies at most as they are, and queues nothing.
LEMMA OtherPortalStep ==
  ASSUME CopyInv, NEW s \in Slots,
         \/ NoteWrite(s) \/ Fail(s)
         \/ \E i \in Ids : CancelRead(s, i)
  PROVE  RepliesOK' /\ CallsInv' /\ OneWaitingCopy'
<1> USE DEF CopyInv
<1>1. CASE NoteWrite(s)
  <2>1. /\ Note(job[s].id, job[s].kind) /\ Leaves(s)
        /\ job[s].kind \in Verdicts \ {"none"}
    BY <1>1 DEF NoteWrite, Verdicts
  <2>2. RepliesOK' /\ Fewer
    BY <2>1, Noting, NotingFewer
  <2> QED
    BY <2>1, <2>2, LeavesCall, FewerWait
<1>2. CASE Fail(s)
  <2>1. Fewer /\ Leaves(s) /\ RepliesOK'
    BY <1>2, SameFewer DEF Fail, RepliesOK
  <2> QED
    BY <2>1, LeavesCall, FewerWait
<1>3. ASSUME NEW i \in Ids, CancelRead(s, i)
      PROVE  RepliesOK' /\ CallsInv' /\ OneWaitingCopy'
  <2> DEFINE j == [Idle EXCEPT !.kind = "cancelled", !.id = i]
  <2>1. Fewer /\ RepliesOK'
    BY <1>3, SameFewer DEF CancelRead, RepliesOK
  <2>2. j.kind # "queue" /\ JobOK(j)
    BY DEF Idle, JobOK
  <2>3. UNCHANGED job \/ job' = [job EXCEPT ![s] = j]
    BY <1>3 DEF CancelRead
  <2> HIDE DEF j
  <2> QED
    BY <2>1, <2>2, <2>3, OtherCall, SameCalls, FewerWait
<1> QED
  BY <1>1, <1>2, <1>3

LEMMA TellStep ==
  ASSUME CopyInv, NEW s \in Slots, Tell(s)
  PROVE  RepliesOK' /\ CallsInv' /\ OneWaitingCopy'
<1> DEFINE j == [Idle EXCEPT !.kind = agent.say, !.id = agent.id]
<1>1. Fewer /\ RepliesOK'
  BY SameFewer DEF Tell, CopyInv, RepliesOK
<1>2. agent.say \in {"sent", "failed"}
  BY DEF CopyInv, AgentOK, Tell
<1>3. j.kind # "queue" /\ JobOK(j)
  BY <1>2 DEF Idle, JobOK
<1>4. UNCHANGED job \/ job' = [job EXCEPT ![s] = j]
  BY DEF Tell
<1> HIDE DEF j
<1> QED
  BY <1>1, <1>3, <1>4, OtherCall, SameCalls, FewerWait DEF CopyInv

LEMMA CopyStep ==
  ASSUME CopyInv, [Next]_vars
  PROVE  CopyInv'
<1>1. AgentOK'
  BY AgentShape DEF CopyInv
<1>2. CASE UNCHANGED <<replies, job>>
  <2>1. Fewer /\ RepliesOK'
    BY <1>2, SameFewer DEF CopyInv, RepliesOK
  <2> QED
    BY <1>1, <1>2, <2>1, SameCalls, FewerWait DEF CopyInv
<1>3. ASSUME NEW s \in Slots, Portal(s)
      PROVE  CopyInv'
  <2>1. CASE \E a \in Asks : QueueRead(s, a[1], a[2])
    BY <2>1, QueueReadStep
  <2>2. CASE QueueWrite(s)
    BY <2>2, QueueWriteStep
  <2>3. CASE NoteWrite(s) \/ Fail(s) \/ \E i \in Ids : CancelRead(s, i)
    BY <1>1, <2>3, OtherPortalStep DEF CopyInv
  <2> QED
    BY <1>3, <2>1, <2>2, <2>3 DEF Portal
<1>4. ASSUME NEW s \in Slots, Tell(s)
      PROVE  CopyInv'
  BY <1>1, <1>4, TellStep DEF CopyInv
<1>5. CASE Midnight
  <2>1. Fewer /\ RepliesOK' /\ UNCHANGED job
    BY <1>5, Aging, AgingFewer DEF CopyInv, Midnight
  <2> QED
    BY <1>1, <2>1, SameCalls, FewerWait DEF CopyInv
<1>6. CASE Visit \/ Prepare \/ Type \/ NoAnswer \/ Stop \/ (\E t \in Away : Write(t)) \/ UNCHANGED vars
  BY <1>2, <1>6 DEF Visit, Prepare, Type, NoAnswer, Stop, Write, vars
<1> QED
  BY <1>3, <1>4, <1>5, <1>6 DEF Next, Agent

\* The same words never wait twice for one conversation, however many calls ask for
\* them at once and whatever happens between the look and the insert (queueReply
\* under withAccountQuota).
THEOREM OneCopy == Spec => []OneWaitingCopy
<1>1. CopyInv => OneWaitingCopy
  BY DEF CopyInv
<1> QED
  BY <1>1, CopyInit, CopyStep, PTL DEF Spec

-----------------------------------------------------------------------------
(* What is taken back.                                                     *)

\* A reply somebody was told is taken back has a verdict, and is not in the agent's hand.
Settled == back \subseteq Ids /\ \A i \in back : replies[i].verdict # "none"
NotInHand == agent.at = "type" => agent.id \notin back

BackInv == CopyInv /\ Settled /\ NotInHand

LEMMA BackInit ==
  ASSUME Init
  PROVE  BackInv
BY CopyInit DEF BackInv, Settled, NotInHand, Init

\* A verdict may be followed by another one, and is never taken away.
LEMMA VerdictsStay ==
  ASSUME CopyInv, [Next]_vars, NEW i \in Ids, replies[i].verdict # "none"
  PROVE  i \in Ids' /\ replies'[i].verdict # "none"
<1> USE DEF CopyInv
<1>1. CASE UNCHANGED replies
  BY <1>1 DEF Ids
<1>2. ASSUME NEW s \in Slots, QueueWrite(s)
      PROVE  i \in Ids' /\ replies'[i].verdict # "none"
  BY <1>2 DEF QueueWrite, RepliesOK, Ids
<1>3. ASSUME NEW s \in Slots, NoteWrite(s)
      PROVE  i \in Ids' /\ replies'[i].verdict # "none"
  <2>1. Note(job[s].id, job[s].kind) /\ job[s].kind \in Verdicts \ {"none"}
    BY <1>3 DEF NoteWrite, Verdicts
  <2> QED
    BY <2>1, Noting DEF Ids, Verdicts
<1>4. CASE Midnight
  BY <1>4, Aging DEF Ids
<1> QED
  BY <1>1, <1>2, <1>3, <1>4
     DEF Next, Agent, Portal, QueueRead, CancelRead, Fail, Visit, Prepare, Type, Tell,
         NoAnswer, Stop, Write, vars

\* A reply that reads cancelled has a verdict.
LEMMA CancelledSettles ==
  ASSUME NEW i \in Ids, State(i) = "cancelled"
  PROVE  replies[i].verdict # "none"
BY DEF State

LEMMA BackStep ==
  ASSUME BackInv, [Next]_vars
  PROVE  BackInv'
<1>1. CopyInv'
  BY CopyStep DEF BackInv
<1>2. \A i \in back : i \in Ids' /\ replies'[i].verdict # "none"
  BY VerdictsStay DEF BackInv, Settled
<1>3. CASE UNCHANGED back /\ (agent'.at = "type" => UNCHANGED agent)
  BY <1>1, <1>2, <1>3 DEF BackInv, Settled, NotInHand
<1>4. CASE Prepare
  <2>1. UNCHANGED <<back, replies>>
    BY <1>4 DEF Prepare
  <2>2. ASSUME agent'.at = "type"
        PROVE  State(agent'.id) = "waiting"
    BY <1>4, <2>2 DEF Prepare, Onwards, Gone, Allowed
  <2>3. \A i \in back : State(i) # "waiting"
    BY WaitingIs DEF BackInv, Settled, CopyInv
  <2> QED
    BY <1>1, <1>2, <2>1, <2>2, <2>3 DEF BackInv, Settled, NotInHand
<1>5. ASSUME NEW s \in Slots, NEW i \in Ids, CancelRead(s, i)
      PROVE  BackInv'
  <2>1. CASE UNCHANGED back
    BY <1>3, <1>5, <2>1 DEF CancelRead
  <2>2. CASE State(i) = "cancelled" /\ TellTaken(i)
    <3>1. replies[i].verdict # "none" /\ UNCHANGED <<replies, agent>>
      BY <1>5, <2>2, CancelledSettles DEF BackInv, CancelRead
    <3> QED
      BY <1>1, <1>2, <2>2, <3>1 DEF BackInv, Settled, NotInHand, TellTaken, Holds, Ids
  <2> QED
    BY <1>5, <2>1, <2>2 DEF CancelRead
<1>6. ASSUME NEW s \in Slots, NoteWrite(s)
      PROVE  BackInv'
  <2>1. agent'.at = "type" => UNCHANGED agent
    BY <1>6 DEF NoteWrite, Onwards, Gone
  <2>2. CASE job[s].kind # "cancelled"
    BY <1>3, <1>6, <2>1, <2>2 DEF NoteWrite
  <2>3. CASE job[s].kind = "cancelled"
    <3> DEFINE i == job[s].id
    <3>1. i \in Ids
      BY <2>3 DEF BackInv, CopyInv, CallsInv, JobsOK, JobOK
    <3>2. replies'[i].verdict = "cancelled" /\ Len(replies') = Len(replies)
      BY <1>6, <2>3, <3>1, Noting DEF NoteWrite, BackInv, CopyInv, Verdicts
    <3>3. TellTaken(i)
      BY <1>6, <2>3 DEF NoteWrite
    <3> QED
      BY <1>1, <1>2, <2>1, <3>1, <3>2, <3>3
         DEF BackInv, Settled, NotInHand, TellTaken, Holds, Ids
  <2> QED
    BY <2>2, <2>3
<1>7. CASE Visit \/ Type \/ NoAnswer \/ Stop \/ Midnight \/ (\E t \in Away : Write(t)) \/ UNCHANGED vars
  <2>1. UNCHANGED back
    BY <1>7 DEF Visit, Type, NoAnswer, Stop, Midnight, Write, vars
  <2>2. agent'.at = "type" => UNCHANGED agent
    <3>1. CASE Visit
      <4>1. PICK items : agent' = Onwards(items)
        BY <3>1, VisitGoes
      <4> QED
        BY <4>1 DEF Onwards, Gone
    <3>2. CASE Type
      BY <3>2 DEF Type, Report, BackInv, CopyInv, AgentOK
    <3>3. CASE Stop
      BY <3>3 DEF Stop, Gone
    <3>4. CASE NoAnswer
      <4>1. agent = [at |-> agent.at, items |-> agent.items, id |-> agent.id,
                     slot |-> agent.slot, say |-> agent.say, left |-> agent.left]
        BY DEF BackInv, CopyInv, AgentOK
      <4>2. agent'.at \in {"off", "tell"}
        BY <3>4, <4>1 DEF NoAnswer, Gone
      <4> QED
        BY <4>2
    <3> QED
      BY <1>7, <3>1, <3>2, <3>3, <3>4 DEF Midnight, Write, vars
  <2> QED
    BY <1>3, <2>1, <2>2
<1>8. ASSUME NEW s \in Slots, Tell(s)
      PROVE  BackInv'
  BY <1>3, <1>8 DEF Tell, Onwards, Gone, BackInv, CopyInv, AgentOK
<1>9. ASSUME NEW s \in Slots, QueueWrite(s) \/ Fail(s) \/ \E a \in Asks : QueueRead(s, a[1], a[2])
      PROVE  BackInv'
  <2>1. UNCHANGED back
    BY <1>9 DEF QueueWrite, Fail, QueueRead
  <2>2. agent'.at = "type" => UNCHANGED agent
    BY <1>9 DEF QueueWrite, Fail, QueueRead, BackInv, CopyInv, AgentOK
  <2> QED
    BY <1>3, <2>1, <2>2
<1> QED
  BY <1>4, <1>5, <1>6, <1>7, <1>8, <1>9 DEF Next, Agent, Portal

\* No reply is typed after its author was told that it is taken back, unless the
\* agent had been told to go ahead before (cancelReply, prepareReply).
THEOREM TakenBackIsNotTyped == Spec => NotAfterTakenBack
<1>1. BackInv => (agent.at = "type" /\ agent'.at = "tell" => agent.id \notin back)
  BY DEF BackInv, NotInHand
<1> QED
  BY <1>1, BackInit, BackStep, PTL DEF Spec, NotAfterTakenBack
-----------------------------------------------------------------------------
(* The day's limit.                                                        *)

SentIds == {i \in Ids : replies[i].verdict = "sent" /\ replies[i].today}

\* What the visit still has to send, what it is at, and what it has reported.
Planned == {agent.items[k] : k \in DOMAIN agent.items}
AtWork == agent.at \in {"type", "tell", "wait"}
InHand == {i \in {agent.id} : AtWork}
Reported == {job[s].id : s \in {t \in Slots : job[t].kind = "sent"}}

\* Whatever can still be recorded as sent today, with what is.
Due == SentIds \cup Planned \cup InHand \cup Reported

PlanOK == agent.items \in Seq(Planned)

DayInv == CopyInv /\ PlanOK /\ IsFiniteSet(Due) /\ Cardinality(Due) <= PerDay

LEMMA SentIdsFinite ==
  ASSUME RepliesOK
  PROVE  IsFiniteSet(SentIds) /\ SentToday = Cardinality(SentIds) /\ SentToday \in Nat
<1>1. IsFiniteSet(Ids)
  <2>1. Len(replies) \in Nat
    BY DEF RepliesOK
  <2> QED
    BY <2>1, FS_Interval DEF Ids
<1>2. SentIds \in SUBSET Ids
  BY DEF SentIds
<1>3. IsFiniteSet(SentIds)
  BY <1>1, <1>2, FS_Subset
<1>4. \A i \in Ids : State(i) = "sent" <=> replies[i].verdict = "sent"
  BY DEF State
<1>5. {i \in Ids : State(i) = "sent" /\ replies[i].today} = SentIds
  BY <1>4 DEF SentIds
<1> QED
  BY <1>3, <1>5, FS_CardinalityType DEF SentToday

\* A verdict is of one reply.
LEMMA SentByNote ==
  ASSUME RepliesOK, NEW i, NEW v \in Verdicts \ {"none"}, Note(i, v)
  PROVE  SentIds' \subseteq SentIds \cup {k \in {i} : v = "sent"}
<1>1. Ids' = Ids
  BY Noting DEF Ids
<1>2. ASSUME NEW k \in Ids, k # i
      PROVE  replies'[k] = replies[k]
  BY <1>2 DEF Note, RepliesOK, Ids
<1>3. ASSUME i \in Ids
      PROVE  replies'[i].verdict = v
  BY <1>3, Noting
<1> QED
  BY <1>1, <1>2, <1>3 DEF SentIds

LEMMA SentSame ==
  ASSUME UNCHANGED replies
  PROVE  SentIds' = SentIds
BY DEF SentIds, Ids

\* The rest of a plan is of the plan.
LEMMA RestOfPlan ==
  ASSUME PlanOK, agent.items # <<>>
  PROVE  /\ Head(agent.items) \in Planned
         /\ \A k \in DOMAIN Tail(agent.items) : Tail(agent.items)[k] \in Planned
         /\ Tail(agent.items) \in Seq(Planned)
BY DEF PlanOK

LEMMA IsPlan ==
  ASSUME NEW T, NEW q \in Seq(T), agent'.items = q
  PROVE  PlanOK' /\ Planned' \subseteq T
<1>1. /\ q \in [1 .. Len(q) -> {q[k] : k \in DOMAIN q}] /\ Len(q) \in Nat
      /\ \A k \in DOMAIN q : q[k] \in T
  OBVIOUS
<1>2. q \in Seq({q[k] : k \in DOMAIN q})
  BY <1>1, Sequence
<1> QED
  BY <1>1, <1>2 DEF PlanOK, Planned

\* An agent that goes on is not at work, and one that is gone has no plan.
LEMMA Rests ==
  ASSUME NEW T, NEW q \in Seq(T), agent' = Gone \/ agent' = Onwards(q)
  PROVE  PlanOK' /\ Planned' \subseteq T /\ InHand' = {}
<1>1. CASE agent' = Gone
  <2>1. agent'.items = <<>> /\ agent'.at = "off" /\ <<>> \in Seq(T)
    BY <1>1 DEF Gone
  <2> QED
    BY <2>1, IsPlan DEF InHand, AtWork
<1>2. CASE agent' = Onwards(q)
  <2>1. agent' = [at |-> "next", items |-> q, id |-> 0, slot |-> 0, say |-> "none", left |-> 0]
    BY <1>2 DEF Onwards, Gone
  <2> QED
    BY <2>1, IsPlan DEF InHand, AtWork
<1> QED
  BY <1>1, <1>2

\* An agent that stays at what it is at.
LEMMA StaysAt ==
  ASSUME PlanOK, agent'.items = agent.items, AtWork' => AtWork, agent'.id = agent.id
  PROVE  PlanOK' /\ Planned' = Planned /\ InHand' \subseteq InHand
BY DEF PlanOK, Planned, InHand

\* A call that ends, or begins without being a report, reports nothing.
LEMMA ReportedLess ==
  ASSUME NEW s \in Slots, NEW j, j.kind # "sent", DOMAIN job = Slots,
         job' = [job EXCEPT ![s] = j]
  PROVE  Reported' \subseteq Reported
BY DEF Reported

LEMMA ReportedSame ==
  ASSUME UNCHANGED job
  PROVE  Reported' = Reported
BY DEF Reported

\* Nothing but a visit adds to what can be recorded as sent.
LEMMA DueShrinks ==
  ASSUME CopyInv, PlanOK, [Next]_vars, ~Visit
  PROVE  PlanOK' /\ Due' \subseteq Due
<1> DEFINE Shrinks == PlanOK' /\ Due' \subseteq Due
<1> USE DEF CopyInv
<1>1. RepliesOK /\ DOMAIN job = Slots /\ AgentOK
  BY DEF CallsInv, JobsOK
<1>2. agent.items \in Seq(Planned)
  BY DEF PlanOK
<1>3. CASE UNCHANGED <<replies, job>> /\ (agent' = Gone \/ UNCHANGED agent)
  <2>1. SentIds' = SentIds /\ Reported' = Reported
    BY <1>3, SentSame, ReportedSame
  <2>2. CASE agent' = Gone
    BY <1>2, <2>1, <2>2, Rests DEF Due
  <2>3. CASE UNCHANGED agent
    BY <2>1, <2>3, StaysAt DEF Due, AtWork
  <2> QED
    BY <1>3, <2>2, <2>3
<1>4. CASE Prepare
  <2>1. SentIds' = SentIds /\ Reported' = Reported /\ agent.items # <<>>
    BY <1>4, SentSame, ReportedSame DEF Prepare
  <2> DEFINE rest == Onwards(Tail(agent.items))
  <2>2. Tail(agent.items) \in Seq(Planned) /\ Head(agent.items) \in Planned
    BY <2>1, RestOfPlan
  <2>3. CASE agent' = Gone \/ agent' = rest
    BY <2>1, <2>2, <2>3, Rests DEF Due
  <2>4. CASE agent' = [rest EXCEPT !.at = "type", !.id = Head(agent.items)]
    <3>1. agent'.items = Tail(agent.items) /\ agent'.id = Head(agent.items)
      BY <2>4 DEF Onwards, Gone
    <3>2. PlanOK' /\ Planned' \subseteq Planned
      BY <2>2, <3>1, IsPlan
    <3>3. InHand' \subseteq Planned
      BY <2>2, <3>1 DEF InHand
    <3> QED
      BY <2>1, <3>2, <3>3 DEF Due
  <2> QED
    BY <1>4, <2>3, <2>4 DEF Prepare
<1>5. CASE Type
  <2>1. SentIds' = SentIds /\ Reported' = Reported /\ AtWork
    BY <1>5, SentSame, ReportedSame DEF Type, AtWork
  <2>2. agent'.items = agent.items /\ agent'.id = agent.id
    BY <1>1, <1>5 DEF Type, Report, AgentOK
  <2> QED
    BY <2>1, <2>2, StaysAt DEF Due
<1>6. CASE NoAnswer
  <2>1. SentIds' = SentIds /\ Reported' = Reported /\ AtWork
    BY <1>6, SentSame, ReportedSame DEF NoAnswer, AtWork
  <2>2. CASE agent.left = 0
    BY <1>3, <1>6, <2>2 DEF NoAnswer
  <2>3. CASE agent.left # 0
    <3>1. agent'.items = agent.items /\ agent'.id = agent.id
      BY <1>1, <1>6, <2>3 DEF NoAnswer, AgentOK
    <3> QED
      BY <2>1, <3>1, StaysAt DEF Due
  <2> QED
    BY <2>2, <2>3
<1>7. ASSUME NEW s \in Slots, Tell(s)
      PROVE  Shrinks
  <2>1. SentIds' = SentIds /\ AtWork /\ agent.id \in InHand
    BY <1>7, SentSame DEF Tell, AtWork, InHand
  <2>2. CASE State(agent.id) = "sent"
    <3>1. agent' = Onwards(agent.items) /\ Reported' = Reported
      BY <1>7, <2>2, ReportedSame DEF Tell
    <3> QED
      BY <1>2, <2>1, <3>1, Rests DEF Due
  <2>3. CASE State(agent.id) # "sent"
    <3> DEFINE j == [Idle EXCEPT !.kind = agent.say, !.id = agent.id]
    <3>1. /\ agent' = [agent EXCEPT !.at = "wait", !.slot = s, !.left = @ - 1]
          /\ job' = [job EXCEPT ![s] = j]
      BY <1>7, <2>3 DEF Tell
    <3>2. agent'.items = agent.items /\ agent'.id = agent.id
      BY <1>1, <3>1 DEF AgentOK
    <3>3. j.id = agent.id
      BY DEF Idle
    <3> HIDE DEF j
    <3>4. Reported' \subseteq Reported \cup {agent.id}
      BY <1>1, <3>1, <3>3 DEF Reported
    <3> QED
      BY <2>1, <3>2, <3>4, StaysAt DEF Due
  <2> QED
    BY <2>2, <2>3
<1>8. ASSUME NEW s \in Slots, QueueWrite(s)
      PROVE  Shrinks
  <2> DEFINE r == [thread |-> job[s].thread, words |-> job[s].words,
                   age |-> 0, verdict |-> "none", today |-> FALSE]
  <2>1. replies' = Append(replies, r) /\ r.verdict = "none" /\ Leaves(s) /\ UNCHANGED agent
    BY <1>8 DEF QueueWrite
  <2> HIDE DEF r
  <2>2. SentIds' \subseteq SentIds
    BY <1>1, <2>1 DEF SentIds, Ids, RepliesOK
  <2>3. Reported' \subseteq Reported
    BY <1>1, <2>1, ReportedLess DEF Leaves, Idle
  <2> QED
    BY <2>1, <2>2, <2>3, StaysAt DEF Due, AtWork
<1>9. ASSUME NEW s \in Slots, NoteWrite(s)
      PROVE  Shrinks
  <2>1. /\ Note(job[s].id, job[s].kind) /\ Leaves(s)
        /\ job[s].kind \in Verdicts \ {"none"}
        /\ UNCHANGED agent \/ agent' = Onwards(agent.items)
    BY <1>9 DEF NoteWrite, Verdicts
  <2>2. SentIds' \subseteq SentIds \cup Reported
    BY <1>1, <2>1, SentByNote DEF Reported
  <2>3. Reported' \subseteq Reported
    BY <1>1, <2>1, ReportedLess DEF Leaves, Idle
  <2>4. CASE UNCHANGED agent
    BY <2>2, <2>3, <2>4, StaysAt DEF Due, AtWork
  <2>5. CASE agent' = Onwards(agent.items)
    BY <1>2, <2>2, <2>3, <2>5, Rests DEF Due
  <2> QED
    BY <2>1, <2>4, <2>5
<1>10. ASSUME NEW s \in Slots, Fail(s)
       PROVE  Shrinks
  <2>1. SentIds' = SentIds /\ Reported' \subseteq Reported
    BY <1>1, <1>10, SentSame, ReportedLess DEF Fail, Leaves, Idle
  <2>2. agent'.items = agent.items /\ agent'.id = agent.id /\ agent'.at = agent.at
    BY <1>1, <1>10 DEF Fail, AgentOK
  <2> QED
    BY <2>1, <2>2, StaysAt DEF Due, AtWork
<1>11. ASSUME NEW s \in Slots,
              \/ \E a \in Asks : QueueRead(s, a[1], a[2])
              \/ \E i \in Ids : CancelRead(s, i)
       PROVE  Shrinks
  <2>1. UNCHANGED <<replies, agent>>
    BY <1>11 DEF QueueRead, CancelRead
  <2>2. UNCHANGED job \/ \E j : j.kind # "sent" /\ job' = [job EXCEPT ![s] = j]
    <3>1. ASSUME NEW a \in Asks, QueueRead(s, a[1], a[2])
          PROVE  \E j : j.kind # "sent" /\ job' = [job EXCEPT ![s] = j]
      <4>1. job' = [job EXCEPT ![s] = [Idle EXCEPT !.kind = "queue", !.thread = a[1], !.words = a[2]]]
        BY <3>1 DEF QueueRead
      <4> QED
        BY <4>1 DEF Idle
    <3>2. ASSUME NEW i \in Ids, CancelRead(s, i), ~UNCHANGED job
          PROVE  \E j : j.kind # "sent" /\ job' = [job EXCEPT ![s] = j]
      <4>1. job' = [job EXCEPT ![s] = [Idle EXCEPT !.kind = "cancelled", !.id = i]]
        BY <3>2 DEF CancelRead
      <4> QED
        BY <4>1 DEF Idle
    <3> QED
      BY <1>11, <3>1, <3>2
  <2>3. Reported' \subseteq Reported
    BY <1>1, <2>2, ReportedLess, ReportedSame
  <2> QED
    BY <2>1, <2>3, SentSame, StaysAt DEF Due, AtWork
<1>12. CASE Midnight
  <2>1. RepliesOK' /\ Ids' = Ids /\ UNCHANGED <<agent, job>>
    BY <1>1, <1>12, Aging DEF Midnight, Ids
  <2>2. \A k \in Ids : replies'[k].today = FALSE
    <3> TAKE k \in Ids
    <3>1. replies[k] \in Reply
      BY <1>1 DEF RepliesOK, Ids
    <3>2. replies'[k] = [replies[k] EXCEPT !.age = Min({@ + 1, Expire + 1}), !.today = FALSE]
      BY <1>12 DEF Midnight
    <3> QED
      BY <3>1, <3>2 DEF Reply
  <2>3. SentIds' = {}
    BY <2>1, <2>2 DEF SentIds
  <2> QED
    BY <2>1, <2>3, StaysAt, ReportedSame DEF Due, AtWork
<1>13. CASE Stop \/ (\E t \in Away : Write(t)) \/ UNCHANGED vars
  BY <1>3, <1>13 DEF Stop, Write, vars
<1> QED
  BY <1>4, <1>5, <1>6, <1>7, <1>8, <1>9, <1>10, <1>11, <1>12, <1>13 DEF Next, Agent, Portal

\* A visit takes no more than the day has room for.
LEMMA VisitFits ==
  ASSUME CopyInv, Visit
  PROVE  PlanOK' /\ IsFiniteSet(Due') /\ Cardinality(Due') <= PerDay
<1>1. RepliesOK
  BY DEF CopyInv
<1>2. IsFiniteSet(SentIds) /\ SentToday = Cardinality(SentIds) /\ SentToday \in Nat
  BY <1>1, SentIdsFinite
<1>3. PICK n, plan : /\ n = Min({PerSession, PerDay - SentToday, Cardinality(Waiting)})
                     /\ SentToday < PerDay
                     /\ agent' = Onwards([i \in 1 .. n |-> plan[i]])
                     /\ \A s \in Slots : job[s].kind # "sent"
                     /\ UNCHANGED <<replies, job>>
  <2>1. PerDay \in Nat
    BY ConstantsAssumption
  <2> DEFINE room == IF SentToday >= PerDay THEN 0 ELSE PerDay - SentToday
             m == Min({PerSession, room, Cardinality(Waiting)})
             p == SetToSortSeq(Waiting, <)
  <2>2. /\ room > 0 /\ agent' = Onwards([i \in 1 .. m |-> p[i]])
        /\ \A s \in Slots : job[s].kind \notin {"sent", "failed"}
        /\ UNCHANGED <<replies, job>>
    BY Zenon DEF Visit
  <2> HIDE DEF p
  <2>3. room > 0
    BY <2>2
  <2>4. SentToday < PerDay /\ room = PerDay - SentToday
    BY <1>2, <2>1, <2>3
  <2> QED
    BY <2>2, <2>4
<1>4. n \in Nat /\ n <= PerDay - SentToday
  <2>1. Cardinality(Waiting) \in Nat
    <3>1. Len(replies) \in Nat
      BY <1>1 DEF RepliesOK
    <3>2. IsFiniteSet(Ids)
      BY <3>1, FS_Interval DEF Ids
    <3>3. Waiting \in SUBSET Ids
      BY DEF Waiting
    <3> QED
      BY <3>2, <3>3, FS_Subset, FS_CardinalityType
  <2>2. PerSession \in Nat /\ PerDay - SentToday \in Nat
    BY <1>2, <1>3, ConstantsAssumption
  <2>3. \A x, y, z \in Nat : Min({x, y, z}) \in Nat /\ Min({x, y, z}) <= y
    BY LeastOfThree
  <2> QED
    BY <1>3, <2>1, <2>2, <2>3
<1> DEFINE q == [i \in 1 .. n |-> plan[i]]
           T == {q[i] : i \in 1 .. n}
<1>5. q \in Seq(T) /\ T = {q[i] : i \in DOMAIN q}
  <2>1. q \in [1 .. n -> T]
    OBVIOUS
  <2> QED
    BY <1>4, <2>1, Sequence
<1>6. IsFiniteSet(T) /\ Cardinality(T) \in Nat /\ Cardinality(T) <= n
  <2>1. q \in Surjection(1 .. n, T)
    BY DEF Surjection
  <2>2. IsFiniteSet(1 .. n) /\ Cardinality(1 .. n) = n
    BY <1>4, FS_Interval
  <2> HIDE DEF q, T
  <2> QED
    BY <2>1, <2>2, FS_Surjection, FS_CardinalityType
<1> HIDE DEF q, T
<1>7. agent' = Onwards(q)
  BY <1>3 DEF q
<1>8. PlanOK' /\ Planned' \subseteq T /\ InHand' = {}
  BY <1>5, <1>7, Rests
<1>9. SentIds' = SentIds /\ Reported' = {}
  BY <1>3, SentSame DEF Reported
<1>10. Due' \subseteq SentIds \cup T
  BY <1>8, <1>9 DEF Due
<1>11. IsFiniteSet(SentIds \cup T) /\ Cardinality(SentIds \cup T) \in Nat
       /\ Cardinality(SentIds \cup T) <= Cardinality(SentIds) + Cardinality(T)
  <2>1. /\ IsFiniteSet(SentIds \cup T)
        /\ Cardinality(SentIds \cup T) = Cardinality(SentIds) + Cardinality(T) - Cardinality(SentIds \cap T)
    BY <1>2, <1>6, FS_Union
  <2>2. Cardinality(SentIds \cap T) \in Nat
    BY <1>2, <1>6, FS_Intersection, FS_CardinalityType
  <2>3. Cardinality(SentIds \cup T) \in Nat
    BY <2>1, FS_CardinalityType
  <2> QED
    BY <1>2, <1>6, <2>1, <2>2, <2>3
<1>12. IsFiniteSet(Due') /\ Cardinality(Due') <= Cardinality(SentIds \cup T)
         /\ Cardinality(Due') \in Nat
  BY <1>10, <1>11, FS_Subset, FS_CardinalityType
<1>13. PerDay \in Nat
  BY ConstantsAssumption
<1> QED
  BY <1>2, <1>4, <1>6, <1>8, <1>11, <1>12, <1>13

LEMMA DayInit ==
  ASSUME Init
  PROVE  DayInv
<1>1. agent.items = <<>> /\ ~AtWork
  BY DEF Init, Gone, AtWork
<1>2. \A s \in Slots : job[s].kind # "sent"
  BY DEF Init, Idle
<1>3. SentIds = {}
  BY DEF Init, SentIds, Ids
<1>4. Due = {}
  BY <1>1, <1>2, <1>3 DEF Due, Planned, InHand, Reported
<1>5. PlanOK
  BY <1>1 DEF PlanOK
<1> QED
  BY <1>4, <1>5, CopyInit, FS_EmptySet, ConstantsAssumption DEF DayInv

LEMMA DayStep ==
  ASSUME DayInv, [Next]_vars
  PROVE  DayInv'
<1>1. CopyInv'
  BY CopyStep DEF DayInv
<1>2. CASE Visit
  BY <1>1, <1>2, VisitFits DEF DayInv
<1>3. CASE ~Visit
  <2>1. PlanOK' /\ Due' \in SUBSET Due
    BY <1>3, DueShrinks DEF DayInv
  <2>2. /\ IsFiniteSet(Due') /\ Cardinality(Due') <= Cardinality(Due)
        /\ Cardinality(Due) \in Nat /\ Cardinality(Due') \in Nat /\ PerDay \in Nat
    BY <2>1, FS_Subset, FS_CardinalityType, ConstantsAssumption DEF DayInv
  <2> QED
    BY <1>1, <2>1, <2>2 DEF DayInv
<1> QED
  BY <1>2, <1>3

\* On no date are more replies recorded as sent than the day's limit, for every
\* limit: what a visit plans fits into the day, and nothing but its plan is ever
\* recorded (repliesToSend, prepareReply, markReplySent).
THEOREM DayIsKept == Spec => []DayLimit
<1>1. DayInv => DayLimit
  <2>1. SentIds \subseteq Due
    BY DEF Due
  <2>2. ASSUME DayInv
        PROVE  /\ Cardinality(SentIds) <= Cardinality(Due) /\ Cardinality(SentIds) \in Nat
               /\ Cardinality(Due) \in Nat /\ PerDay \in Nat
    BY <2>1, <2>2, FS_Subset, FS_CardinalityType, ConstantsAssumption DEF DayInv
  <2> QED
    BY <2>2 DEF DayInv, DayLimit, SentIds
<1> QED
  BY <1>1, DayInit, DayStep, PTL DEF Spec

-----------------------------------------------------------------------------
(* The same words twice in a row.                                          *)

\* A message that went out while its report was lost is not typed again into an
\* open conversation: what stands last is read first (sendReplies).
THEOREM SaidOnce == Spec => []NotTwiceInARow
<1>1. Init => NotTwiceInARow
  BY DEF Init, NotTwiceInARow
<1>2. ASSUME NotTwiceInARow, [Next]_vars
      PROVE  NotTwiceInARow'
  <2>1. CASE Type
    <3> DEFINE r == replies[agent.id]
    <3>1. \/ UNCHANGED twice
          \/ /\ Clear(r.thread, r.words)
             /\ twice' = IF chat[r.thread] = r.words THEN twice \cup ({r.thread} \cap Threads)
                         ELSE twice
      BY <2>1 DEF Type
    <3>2. Clear(r.thread, r.words) /\ chat[r.thread] = r.words => {r.thread} \cap Threads = {}
      BY ConstantsAssumption DEF Clear, SaidLast
    <3> QED
      BY <1>2, <3>1, <3>2 DEF NotTwiceInARow
  <2>2. CASE ~Type
    <3>1. UNCHANGED twice
      BY <1>2, <2>2 DEF Next, Agent, Portal, QueueRead, QueueWrite, CancelRead, NoteWrite, Fail,
            Visit, Prepare, Tell, NoAnswer, Stop, Midnight, Write, vars
    <3> QED
      BY <1>2, <3>1 DEF NotTwiceInARow
  <2> QED
    BY <2>1, <2>2
<1> QED
  BY <1>1, <1>2, PTL DEF Spec

-----------------------------------------------------------------------------
(* The pings: the shape of the state.                                      *)

Bounded == {S \in SUBSET Nat : \E m \in Nat : S \subseteq 0 .. m}
Dialogs == [in : Nat, last : {None, "in", "out"}, stored : Nat, trailing : Nat,
            pend : Bounded, age : 0 .. 2]

\* the keys of the steps, and of the pings people set
StepKeys == {NoKey, <<"outside">>, <<"first">>} \cup ({"reply", "later"} \X Nat)
            \cup ({"silent"} \X Nat \X Nat)
Keys == StepKeys \cup {Manual(n) : n \in Nat}

Task == [key : Keys, open : BOOLEAN, sup : BOOLEAN, made : Nat]
Wants == [key : StepKeys, basis : Nat, due : BOOLEAN]
Lasts == [op : {None, "reopen", "create"}, id : Nat, key : StepKeys]
Places == {"off", "gathered", "reading", "acting", "extra", "answered"}
PassSet == [at : Places, dialog : Dialogs, want : Wants, got : SUBSET {"tasks", "contact"},
            contact : LeadStatuses \cup {None}, closing : SUBSET (Nat \X Keys), last : Lasts]
Hands == [at : {"idle", "ping", "status", "tasks", "close"}, task : Nat,
          to : Chosen \cup {None}, left : SUBSET Nat]
StatusSet == [is : LeadStatuses, since : Nat]

PingTyped ==
  /\ clock \in Nat /\ dialog \in Dialogs /\ status \in StatusSet
  /\ tasks \in Seq(Task) /\ pass \in PassSet /\ hand \in Hands
  /\ closed \subseteq DOMAIN tasks /\ kept \in Chosen \cup {None}

-----------------------------------------------------------------------------
(* Numbers and keys.                                                       *)

LEMMA SmallestIn ==
  ASSUME NEW T \in SUBSET Nat, T # {}
  PROVE  \E x \in T : \A y \in T : ~(y < x)
<1> DEFINE R == OpToRel(<, Nat)
<1>1. \A x, y \in Nat : <<x, y>> \in R <=> x < y
  BY DEF OpToRel
<1>2. IsWellFoundedOn(R, Nat)
  BY NatLessThanWellFounded
<1> HIDE DEF R
<1>3. PICK x \in T : \A y \in T : ~(<<y, x>> \in R)
  BY <1>2, WFMin
<1> QED
  BY <1>1, <1>3

\* A set of numbers that has a bound has a greatest one.
LEMMA MaxIsIn ==
  ASSUME NEW m \in Nat, NEW T \in SUBSET (0 .. m), T # {}
  PROVE  Max(T) \in T /\ \A y \in T : Max(T) >= y
<1> DEFINE U == {m - x : x \in T}
<1>1. U \in SUBSET Nat /\ U # {}
  <2>1. \A x \in T : m - x \in Nat
    OBVIOUS
  <2> QED
    BY <2>1
<1>2. PICK u \in U : \A y \in U : ~(y < u)
  <2> HIDE DEF U
  <2> QED
    BY <1>1, SmallestIn
<1>3. PICK x \in T : u = m - x
  BY <1>2
<1>4. \A y \in T : x >= y
  <2> TAKE y \in T
  <2>1. ~(m - y < u)
    BY <1>2
  <2> QED
    BY <2>1, <1>3
<1>5. \E z \in T : \A y \in T : z >= y
  BY <1>4
<1> QED
  BY <1>5 DEF Max

LEMMA KeysApart ==
  /\ \A n \in Nat : Manual(n) \in Keys
  /\ \A k \in StepKeys : k \in Keys /\ \A n \in Nat : k # Manual(n)
  /\ \A n, k \in Nat : Manual(n) = Manual(k) => n = k
<1>1. \A k \in StepKeys : \A n \in Nat : k # Manual(n)
  <2>1. \A k \in StepKeys : k[1] # "manual"
    <3>1. NoKey[1] # "manual" /\ <<"outside">>[1] # "manual" /\ <<"first">>[1] # "manual"
      BY DEF NoKey
    <3>2. \A k \in {"reply", "later"} \X Nat : k[1] # "manual"
      OBVIOUS
    <3>3. \A k \in {"silent"} \X Nat \X Nat : k[1] # "manual"
      OBVIOUS
    <3> QED
      BY <3>1, <3>2, <3>3 DEF StepKeys
  <2>2. \A n \in Nat : Manual(n)[1] = "manual"
    BY DEF Manual
  <2> QED
    BY <2>1, <2>2
<1>2. \A n, k \in Nat : Manual(n) = Manual(k) => n = k
  <2>1. \A n \in Nat : Manual(n)[2] = n
    BY DEF Manual
  <2> QED
    BY <2>1
<1> QED
  BY <1>1, <1>2 DEF Keys

LEMMA StepsWanted ==
  ASSUME NEW d \in Dialogs
  PROVE  DesiredPing(d) \in Wants /\ \A st \in StatusSet : Later(d, st) \in Wants
<1> DEFINE P == Ours(d)
           Q == P \cup {IF d.last = "out" THEN d.stored ELSE 0}
<1>1. /\ d.in \in Nat /\ d.trailing \in Nat /\ d.stored \in Nat
      /\ d.pend \in Bounded
  BY DEF Dialogs
<1>2. PICK m \in Nat : d.pend \subseteq 0 .. m
  BY <1>1 DEF Bounded
<1>3. P \subseteq 0 .. m
  BY <1>2 DEF Ours
<1>4. IsFiniteSet(0 .. m)
  BY FS_Interval
<1>5. Cardinality(P) \in Nat
  BY <1>3, <1>4, FS_Subset, FS_CardinalityType
<1>6. Silence(d) \in Nat
  <2> HIDE DEF P
  <2>1. Silence(d) = (IF d.last = "out" THEN d.trailing ELSE 0) + Cardinality(P)
    BY DEF Silence, P
  <2> QED
    BY <2>1, <1>5, <1>1
<1>7. LastOut(d) \in Nat
  <2>1. PICK n \in Nat : Q \subseteq 0 .. n
    <3>1. CASE d.last = "out" /\ d.stored > m
      BY <3>1, <1>3, <1>1
    <3>2. CASE ~(d.last = "out" /\ d.stored > m)
      BY <3>2, <1>3, <1>1
    <3> QED
      BY <3>1, <3>2
  <2>2. Q # {}
    OBVIOUS
  <2>3. LastOut(d) = Max(Q)
    BY DEF LastOut
  <2> HIDE DEF Q
  <2> QED
    <3>1. Q \in SUBSET (0 .. n)
      BY <2>1
    <3>2. Max(Q) \in Q
      BY <3>1, <2>2, MaxIsIn
    <3> QED
      <4>1. Max(Q) \in 0 .. n
        BY <3>1, <3>2
      <4> QED
        BY <4>1, <2>3
<1> HIDE DEF P, Q
<1>8. /\ NoKey \in StepKeys /\ <<"outside">> \in StepKeys /\ <<"first">> \in StepKeys
      /\ \A n \in Nat : <<"reply", n>> \in StepKeys /\ <<"later", n>> \in StepKeys
      /\ \A n, k \in Nat : <<"silent", n, k>> \in StepKeys
  BY DEF StepKeys
<1>9. \A k \in StepKeys, b \in Nat : Step(k, b) \in Wants
  BY DEF Step, Wants
<1>10. NextStep(d) \in Wants
  <2>1. /\ Step(<<"reply", d.in>>, d.in) \in Wants /\ Step(<<"first">>, 1) \in Wants
        /\ Step(<<"silent", d.in, Silence(d)>>, LastOut(d)) \in Wants
    BY <1>1, <1>6, <1>7, <1>8, <1>9
  <2> QED
    BY <2>1 DEF NextStep
<1>11. DesiredPing(d) \in Wants
  <2>1. [key |-> NoKey, basis |-> LastOut(d), due |-> d.age = 1] \in Wants
    BY <1>7, <1>8 DEF Wants
  <2>2. Outside \in Wants
    BY <1>8 DEF Wants, Outside
  <2> QED
    BY <2>1, <2>2, <1>10 DEF DesiredPing
<1>12. \A st \in StatusSet : Step(<<"later", st.since>>, st.since) \in Wants
  BY <1>8, <1>9 DEF StatusSet
<1> QED
  BY <1>11, <1>12 DEF Later

-----------------------------------------------------------------------------
(* What a reconciliation holds of the tasks.                               *)

Planning == pass.at \in {"reading", "acting"}
Unread == pass.at = "reading" /\ "tasks" \notin pass.got

\* A task that is named stays what was named, and every key is claimed by one task:
\* by that which has it, that to which a write will put it, or that to be made (0).
Claimed(i, k) ==
  \/ i \in DOMAIN tasks /\ k = tasks[i].key
  \/ Planning /\ <<i, k>> \in pass.closing
  \/ Planning /\ pass.last.op # None /\ i = pass.last.id /\ k = pass.last.key

OneClaims == \A i, j \in Nat, k \in Keys : Claimed(i, k) /\ Claimed(j, k) => i = j
NoneAhead == \A i \in Nat, n \in Nat : Claimed(i, Manual(n)) => n <= clock
Named ==
  Planning => /\ \A t \in pass.closing : t[1] \in DOMAIN tasks
              /\ pass.last.op = "reopen" => pass.last.id \in DOMAIN tasks
              /\ pass.last.op = "create" => pass.last.id = 0
NothingYet == Quiet \/ Unread => pass.closing = {} /\ pass.last = NoAction

HandOK ==
  /\ hand.at = "ping" => hand.task \in DOMAIN tasks \cup {0}
  /\ hand.at = "status" => hand.to \in Chosen
  /\ hand.at = "close" => hand.left \subseteq DOMAIN tasks

PingInv == PingTyped /\ NothingYet /\ Named /\ HandOK /\ OneClaims /\ NoneAhead

-----------------------------------------------------------------------------
(* The shape of the state stays.                                           *)

LEMMA TasksFacts ==
  ASSUME PingTyped
  PROVE  /\ Len(tasks) \in Nat /\ DOMAIN tasks = 1 .. Len(tasks)
         /\ \A i \in DOMAIN tasks : i \in Nat /\ i # 0 /\ tasks[i] \in Task
BY DEF PingTyped

\* A task changed in one place; a task put at the end.
LEMMA OneTaskChanged ==
  ASSUME PingTyped, NEW i \in DOMAIN tasks, NEW t \in Task, tasks' = [tasks EXCEPT ![i] = t]
  PROVE  /\ tasks' \in Seq(Task) /\ DOMAIN tasks' = DOMAIN tasks
         /\ tasks'[i] = t /\ \A j \in DOMAIN tasks : j # i => tasks'[j] = tasks[j]
BY DEF PingTyped

LEMMA OneTaskMore ==
  ASSUME PingTyped, NEW t \in Task, tasks' = Append(tasks, t)
  PROVE  /\ tasks' \in Seq(Task) /\ DOMAIN tasks' = DOMAIN tasks \cup {Len(tasks) + 1}
         /\ Len(tasks) + 1 \notin DOMAIN tasks
         /\ tasks'[Len(tasks) + 1] = t /\ \A j \in DOMAIN tasks : tasks'[j] = tasks[j]
BY DEF PingTyped

LEMMA PassFields ==
  ASSUME PingTyped
  PROVE  /\ pass.at \in Places /\ pass.dialog \in Dialogs /\ pass.want \in Wants
         /\ pass.got \subseteq {"tasks", "contact"} /\ pass.contact \in LeadStatuses \cup {None}
         /\ pass.closing \subseteq Nat \X Keys /\ pass.last \in Lasts
BY DEF PingTyped, PassSet

LEMMA OffTyped == Off \in PassSet
<1>1. NewDialog \in Dialogs
  <2>1. {} \in Bounded
    BY DEF Bounded
  <2> QED
    BY <2>1 DEF NewDialog, Dialogs
<1>2. Outside \in Wants /\ NoAction \in Lasts
  BY DEF Outside, Wants, NoAction, Lasts, StepKeys
<1> QED
  BY <1>1, <1>2 DEF Off, PassSet, Places

\* What the tasks say about the step is a task of the step, or that none is there.
LEMMA FinallyIs ==
  ASSUME PingTyped, NEW want \in Wants
  PROVE  /\ Finally(want, tasks) \in Lasts
         /\ Finally(want, tasks).op = None => Finally(want, tasks) = NoAction
         /\ Finally(want, tasks).op # None => Finally(want, tasks).key = want.key
         /\ Finally(want, tasks).op = "reopen" =>
              /\ Finally(want, tasks).id \in DOMAIN tasks
              /\ tasks[Finally(want, tasks).id].key = want.key
              /\ tasks[Finally(want, tasks).id].sup
         /\ Finally(want, tasks).op = "create" =>
              /\ Finally(want, tasks).id = 0
              /\ \A j \in DOMAIN tasks : tasks[j].key # want.key
<1> DEFINE S == OfStep(want, tasks)
           create == [op |-> "create", id |-> 0, key |-> want.key]
           reopen == [op |-> "reopen", id |-> Max(S), key |-> want.key]
<1>1. want.key \in StepKeys /\ NoAction \in Lasts /\ create \in Lasts
  BY DEF Wants, Lasts, NoAction, StepKeys
<1>2. S \subseteq DOMAIN tasks /\ \A j \in DOMAIN tasks : j \in S <=> tasks[j].key = want.key
  BY DEF OfStep
<1>3. S # {} => Max(S) \in S
  <2>1. S \in SUBSET (0 .. Len(tasks)) /\ Len(tasks) \in Nat
    BY <1>2, TasksFacts
  <2> HIDE DEF S
  <2> QED
    BY <2>1, MaxIsIn
<1>4. S # {} => reopen \in Lasts
  BY <1>1, <1>2, <1>3, TasksFacts DEF Lasts
<1>5. \/ Finally(want, tasks) = NoAction
      \/ S # {} /\ tasks[Max(S)].sup /\ Finally(want, tasks) = reopen
      \/ S = {} /\ Finally(want, tasks) = create
  <2>1. ToReopen(want, tasks) = reopen /\ ToCreate(want, tasks) \in {NoAction, create}
    BY DEF ToReopen, ToCreate, reopen, create
  <2> QED
    BY <2>1 DEF Finally
<1> HIDE DEF S
<1>6. CASE Finally(want, tasks) = NoAction
  BY <1>6, <1>1 DEF NoAction, None
<1>7. CASE S # {} /\ tasks[Max(S)].sup /\ Finally(want, tasks) = reopen
  BY <1>7, <1>2, <1>3, <1>4 DEF None
<1>8. CASE S = {} /\ Finally(want, tasks) = create
  BY <1>8, <1>1, <1>2 DEF None
<1> QED
  BY <1>5, <1>6, <1>7, <1>8

-----------------------------------------------------------------------------
(* Who touches what: the tasks are written by three, the reconciliation by     *)
(* itself, the dialog by itself.                                               *)

\* Each step, by what it does to the tasks and to what was read of them.
LEMMA TypedInit == PingsInit => PingTyped
<1> SUFFICES ASSUME PingsInit PROVE PingTyped
  OBVIOUS
<1>1. NewDialog \in Dialogs
  <2>1. {} \in Bounded
    BY DEF Bounded
  <2> QED
    BY <2>1 DEF NewDialog, Dialogs
<1>2. status \in StatusSet
  BY DEF PingsInit, StatusSet, LeadStatuses
<1>3. NoRequest \in Hands
  BY DEF NoRequest, Hands
<1> QED
  BY <1>1, <1>2, <1>3, OffTyped DEF PingsInit, PingTyped

\* What happens in the dialog.
LEMMA DialogTyped ==
  ASSUME PingTyped, Dialog
  PROVE  PingTyped' /\ clock' = clock + 1 /\ UNCHANGED <<crm, pass, hand, seen>>
<1>1. UNCHANGED <<crm, pass, hand, seen>> /\ clock' = clock + 1
  BY DEF Dialog, TheyWrite, WeQueue, DaysPass, Appears, Dropped, Happens
<1>2. /\ clock \in Nat /\ dialog \in Dialogs
      /\ dialog.in \in Nat /\ dialog.trailing \in Nat /\ dialog.stored \in Nat
      /\ dialog.pend \in Bounded /\ dialog.age \in 0 .. 2 /\ dialog.last \in {None, "in", "out"}
  BY DEF PingTyped, Dialogs
<1>3. dialog.pend \cup {clock + 1} \in Bounded /\ \A n : dialog.pend \ {n} \in Bounded
  <2>1. PICK m \in Nat : dialog.pend \subseteq 0 .. m
    BY <1>2 DEF Bounded
  <2>2. dialog.pend \cup {clock + 1} \subseteq 0 .. m + clock + 1
    BY <2>1, <1>2
  <2>3. m + clock + 1 \in Nat
    BY <1>2
  <2>4. \A n : dialog.pend \ {n} \subseteq 0 .. m
    BY <2>1
  <2>5. dialog.pend \subseteq Nat
    BY <1>2 DEF Bounded
  <2>6. dialog.pend \cup {clock + 1} \in SUBSET Nat
    BY <2>5, <1>2
  <2>7. dialog.pend \cup {clock + 1} \in Bounded
    BY <2>2, <2>3, <2>6 DEF Bounded
  <2>8. ASSUME NEW n PROVE dialog.pend \ {n} \in Bounded
    BY <2>1, <2>5 DEF Bounded
  <2> QED
    BY <2>7, <2>8
<1>4. dialog' \in Dialogs
  <2>1. CASE TheyWrite
    <3>1. dialog' = [in |-> clock + 1, last |-> "in", stored |-> clock + 1, trailing |-> 0,
            pend |-> dialog.pend, age |-> 0]
      BY <2>1, <1>2 DEF TheyWrite, Happens, Dialogs
    <3> QED
      BY <3>1, <1>2 DEF Dialogs
  <2>2. CASE WeQueue
    <3>1. dialog' = [in |-> dialog.in, last |-> dialog.last, stored |-> dialog.stored,
            trailing |-> dialog.trailing, pend |-> dialog.pend \cup {clock + 1}, age |-> 0]
      BY <2>2, <1>2 DEF WeQueue, Happens, Dialogs
    <3> QED
      BY <3>1, <1>2, <1>3 DEF Dialogs
  <2>3. CASE DaysPass
    BY <2>3, <1>2 DEF DaysPass, Happens, Dialogs
  <2>4. ASSUME NEW n \in dialog.pend, Appears(n) PROVE dialog' \in Dialogs
    <3>1. dialog' = [in |-> dialog.in, last |-> "out", stored |-> clock + 1,
            trailing |-> dialog.trailing + 1, pend |-> dialog.pend \ {n}, age |-> 0]
      BY <2>4, <1>2 DEF Appears, Happens, Dialogs
    <3> QED
      BY <3>1, <1>2, <1>3 DEF Dialogs
  <2>5. ASSUME NEW n \in dialog.pend, Dropped(n) PROVE dialog' \in Dialogs
    BY <2>5, <1>2, <1>3 DEF Dropped, Happens, Dialogs
  <2> QED
    BY <2>1, <2>2, <2>3, <2>4, <2>5 DEF Dialog
<1> QED
  BY <1>1, <1>2, <1>4 DEF PingTyped, crm, seen

\* What a reconciliation takes for the dialog is a dialog.
LEMMA GatheredTyped ==
  ASSUME PingTyped, Gather
  PROVE  \E d \in Dialogs : /\ pass' = [Off EXCEPT !.at = "gathered", !.dialog = d]
                            /\ d.in = dialog.in
<1>1. dialog \in Dialogs
  BY DEF PingTyped
<1>2. {} \in Bounded
  BY DEF Bounded
<1>3. PICK d \in {dialog} \cup QueueUnread :
        pass' = [Off EXCEPT !.at = "gathered", !.dialog = d]
  BY DEF Gather
<1>4. d \in Dialogs /\ d.in = dialog.in
  <2>1. ASSUME NEW a \in {x \in 0 .. 2 : x >= dialog.age}, d = [dialog EXCEPT !.pend = {}, !.age = a]
        PROVE  d \in Dialogs /\ d.in = dialog.in
    BY <1>1, <1>2, <2>1 DEF Dialogs
  <2> QED
    BY <1>1, <1>3, <2>1 DEF QueueUnread
<1> QED
  BY <1>3, <1>4

\* What a reconciliation does before it writes a task, and after.
LEMMA PassTyped ==
  ASSUME PingTyped, Gather \/ ReadLater \/ ReadTasks \/ ReadContact \/ NoResponse \/ ReadExtra
                \/ Responded \/ Ends
  PROVE  PingTyped' /\ UNCHANGED <<clock, dialog, tasks, hand, seen>>
<1>1. UNCHANGED <<clock, dialog, tasks, hand, seen>>
  BY DEF Gather, ReadLater, ReadTasks, ReadContact, NoResponse, ReadExtra, Responded, Ends,
         Done, crm
<1>2. status' \in StatusSet
  <2>1. status \in StatusSet
    BY DEF PingTyped
  <2>2. \A v \in LeadStatuses : [status EXCEPT !.is = v] \in StatusSet
    BY <2>1 DEF StatusSet
  <2>3. {"no_response", "responded"} \subseteq LeadStatuses
    BY DEF LeadStatuses, Closing
  <2> QED
    BY <2>1, <2>2, <2>3
       DEF Gather, ReadLater, ReadTasks, ReadContact, NoResponse, ReadExtra, Responded, Ends,
           Done, crm
<1>3. pass' \in PassSet
  <2> USE PassFields
  <2>0. pass \in PassSet /\ status.is \in LeadStatuses
    BY DEF PingTyped, StatusSet
  <2>1. CASE Gather
    <3>1. PICK d \in Dialogs : pass' = [Off EXCEPT !.at = "gathered", !.dialog = d]
      BY <2>1, GatheredTyped
    <3> QED
      BY <3>1, OffTyped DEF PassSet, Places
  <2>2. CASE ReadLater
    <3>1. PICK want \in {Later(pass.dialog, status), DesiredPing(pass.dialog)} :
            pass' = [pass EXCEPT !.want = want,
                                 !.at = IF want = Outside THEN "extra" ELSE "reading"]
      BY <2>2 DEF ReadLater
    <3>2. want \in Wants
      BY StepsWanted DEF PingTyped
    <3> QED
      BY <3>1, <3>2, <2>0 DEF PassSet, Places
  <2>3. CASE ReadTasks
    <3>1. {<<i, tasks[i].key>> : i \in Superseded(pass.want, tasks)} \subseteq Nat \X Keys
      BY TasksFacts DEF Superseded, Task
    <3>2. Finally(pass.want, tasks) \in Lasts
      BY FinallyIs
    <3> QED
      BY <2>3, <3>1, <3>2, <2>0 DEF ReadTasks, PassSet
  <2>4. CASE ReadContact
    BY <2>4, <2>0 DEF ReadContact, PassSet
  <2>5. CASE NoResponse
    BY <2>5, <2>0 DEF NoResponse, PassSet, Places
  <2>6. CASE ReadExtra
    BY <2>6, <2>0 DEF ReadExtra, PassSet, Places
  <2>7. CASE Responded \/ Ends
    BY <2>7, OffTyped DEF Responded, Ends
  <2> QED
    BY <2>1, <2>2, <2>3, <2>4, <2>5, <2>6, <2>7
<1> QED
  BY <1>1, <1>2, <1>3 DEF PingTyped, seen

-----------------------------------------------------------------------------
(* Every key is claimed by one task: what keeps it.                        *)

LEMMA FewerClaims ==
  ASSUME PingTyped, PingTyped', OneClaims, NoneAhead, clock' >= clock,
         \A i \in Nat, k \in Keys : Claimed(i, k)' => Claimed(i, k)
  PROVE  OneClaims' /\ NoneAhead'
<1>1. clock \in Nat /\ clock' \in Nat
  BY DEF PingTyped
<1>2. OneClaims'
  BY DEF OneClaims
<1>3. NoneAhead'
  BY <1>1, KeysApart DEF NoneAhead
<1> QED
  BY <1>2, <1>3

LEMMA OneClaimMore ==
  ASSUME PingTyped, PingTyped', OneClaims, NoneAhead, clock' >= clock,
         NEW i0 \in Nat, NEW k0 \in Keys,
         \A i \in Nat, k \in Keys : Claimed(i, k)' => Claimed(i, k) \/ (i = i0 /\ k = k0),
         \A i \in Nat : Claimed(i, k0) => i = i0 \/ ~Claimed(i, k0)',
         \A n \in Nat : k0 = Manual(n) => n <= clock'
  PROVE  OneClaims' /\ NoneAhead'
<1>1. clock \in Nat /\ clock' \in Nat
  BY DEF PingTyped
<1>2. OneClaims'
  <2> SUFFICES ASSUME NEW i \in Nat, NEW j \in Nat, NEW k \in Keys, Claimed(i, k)', Claimed(j, k)'
               PROVE  i = j
    BY DEF OneClaims
  <2> QED
    BY DEF OneClaims
<1>3. NoneAhead'
  <2> SUFFICES ASSUME NEW i \in Nat, NEW n \in Nat, Claimed(i, Manual(n))'
               PROVE  n <= clock'
    BY DEF NoneAhead
  <2>1. Manual(n) \in Keys
    BY KeysApart
  <2>2. Claimed(i, Manual(n)) => n <= clock
    BY DEF NoneAhead
  <2> QED
    BY <2>1, <2>2, <1>1
<1> QED
  BY <1>2, <1>3

LEMMA DialogPing ==
  ASSUME PingInv, Dialog
  PROVE  PingInv'
<1> USE DEF PingInv
<1>1. PingTyped' /\ clock' = clock + 1 /\ tasks' = tasks /\ pass' = pass /\ hand' = hand
  BY DialogTyped DEF crm
<1>2. clock' >= clock
  BY <1>1 DEF PingTyped
<1>3. \A i \in Nat, k \in Keys : Claimed(i, k)' => Claimed(i, k)
  BY <1>1 DEF Claimed, Planning
<1>4. OneClaims' /\ NoneAhead'
  BY <1>1, <1>2, <1>3, FewerClaims
<1>5. NothingYet' /\ Named' /\ HandOK'
  BY <1>1 DEF NothingYet, Named, HandOK, Quiet, Unread, Planning
<1> QED
  BY <1>1, <1>4, <1>5

\* The tasks are read: what is there is named, or a task of a new step is to be made.
LEMMA ReadTasksPing ==
  ASSUME PingInv, ReadTasks
  PROVE  PingInv'
<1> USE DEF PingInv
<1> DEFINE F == Finally(pass.want, tasks)
<1>1. PingTyped' /\ UNCHANGED <<clock, dialog, tasks, hand, seen>>
  BY PassTyped
<1>2. /\ Unread /\ Planning /\ pass.closing = {} /\ pass.last = NoAction
      /\ pass'.at = "reading" /\ "tasks" \in pass'.got
      /\ pass'.closing = {<<i, tasks[i].key>> : i \in Superseded(pass.want, tasks)}
      /\ pass'.last = F
  BY DEF ReadTasks, Unread, Planning, NothingYet, PingTyped, PassSet
<1>3. pass.want \in Wants /\ pass.want.key \in StepKeys /\ pass.want.key \in Keys
  BY PassFields, KeysApart DEF Wants
<1>4. /\ F \in Lasts
      /\ F.op # None => F.key = pass.want.key
      /\ F.op = "reopen" => F.id \in DOMAIN tasks /\ tasks[F.id].key = pass.want.key
      /\ F.op = "create" => F.id = 0 /\ \A j \in DOMAIN tasks : tasks[j].key # pass.want.key
  BY <1>3, FinallyIs
<1> HIDE DEF F
<1>5. NothingYet' /\ Named' /\ HandOK'
  BY <1>1, <1>2, <1>4 DEF NothingYet, Named, HandOK, Quiet, Unread, Superseded
<1>6. \A i \in Nat, k \in Keys :
        Claimed(i, k)' <=> \/ i \in DOMAIN tasks /\ k = tasks[i].key
                           \/ <<i, k>> \in pass'.closing
                           \/ F.op # None /\ i = F.id /\ k = F.key
  BY <1>1, <1>2 DEF Claimed, Planning
<1>7. \A i \in Nat, k \in Keys : Claimed(i, k) <=> i \in DOMAIN tasks /\ k = tasks[i].key
  BY <1>2 DEF Claimed, NoAction
<1>8. \A i \in Nat, k \in Keys : <<i, k>> \in pass'.closing => i \in DOMAIN tasks /\ k = tasks[i].key
  BY <1>2 DEF Superseded
<1>9. clock' >= clock
  BY <1>1 DEF PingTyped
<1>10. CASE F.op # "create"
  <2>0. F.op \in {None, "reopen"}
    BY <1>4, <1>10 DEF Lasts
  <2>1. \A i \in Nat, k \in Keys : Claimed(i, k)' => Claimed(i, k)
    BY <2>0, <1>4, <1>6, <1>7, <1>8
  <2> QED
    BY <2>1, <1>1, <1>5, <1>9, FewerClaims
<1>11. CASE F.op = "create"
  <2>1. \A i \in Nat, k \in Keys : Claimed(i, k)' => Claimed(i, k) \/ (i = 0 /\ k = pass.want.key)
    BY <1>4, <1>6, <1>7, <1>8, <1>11
  <2>2. \A i \in Nat : ~Claimed(i, pass.want.key)
    BY <1>3, <1>4, <1>7, <1>11
  <2>3. \A n \in Nat : pass.want.key # Manual(n)
    BY <1>3, KeysApart
  <2> QED
    BY <2>1, <2>2, <2>3, <1>1, <1>3, <1>5, <1>9, OneClaimMore
<1> QED
  BY <1>10, <1>11

LEMMA OtherPassPing ==
  ASSUME PingInv, Gather \/ ReadLater \/ ReadContact \/ NoResponse \/ ReadExtra \/ Responded \/ Ends
  PROVE  PingInv'
<1> USE DEF PingInv
<1>1. PingTyped' /\ UNCHANGED <<clock, dialog, tasks, hand, seen>>
  BY PassTyped
<1>2. \/ Planning' /\ Planning /\ pass'.closing = pass.closing /\ pass'.last = pass.last
         /\ (Unread' => Unread)
      \/ ~Planning' /\ (pass'.at \in {"off", "gathered"} => pass'.closing = {} /\ pass'.last = NoAction)
      \/ pass'.closing = {} /\ pass'.last = NoAction
  <2>0. pass \in PassSet
    BY DEF PingTyped
  <2>1. CASE Gather
    BY <2>1 DEF Gather, Off
  <2>2. CASE ReadLater
    <3>1. pass'.closing = pass.closing /\ pass'.last = pass.last /\ Quiet
      BY <2>2, <2>0 DEF ReadLater, PassSet, Quiet
    <3> QED
      BY <3>1 DEF NothingYet
  <2>3. CASE ReadContact
    BY <2>3, <2>0 DEF ReadContact, PassSet, Planning, Unread
  <2>4. CASE NoResponse
    BY <2>4, <2>0 DEF NoResponse, PassSet, Planning, Unread
  <2>5. CASE ReadExtra
    BY <2>5, <2>0 DEF ReadExtra, PassSet, Planning
  <2>6. CASE Responded \/ Ends
    BY <2>6 DEF Responded, Ends, Off
  <2> QED
    BY <2>1, <2>2, <2>3, <2>4, <2>5, <2>6
<1>3. NothingYet' /\ Named' /\ HandOK'
  <2>1. HandOK'
    BY <1>1 DEF HandOK
  <2>2. NothingYet'
    BY <1>2 DEF NothingYet, Quiet, Unread, Planning
  <2>3. Named'
    BY <1>1, <1>2 DEF Named, NoAction, None
  <2> QED
    BY <2>1, <2>2, <2>3
<1>4. \A i \in Nat, k \in Keys : Claimed(i, k)' => Claimed(i, k)
  BY <1>1, <1>2 DEF Claimed, NoAction, None
<1>5. clock' >= clock
  BY <1>1 DEF PingTyped
<1> QED
  BY <1>1, <1>3, <1>4, <1>5, FewerClaims

LEMMA Rewritten ==
  ASSUME NEW o \in Task, NEW k \in Keys, NEW a \in BOOLEAN, NEW b \in BOOLEAN
  PROVE  /\ [o EXCEPT !.open = a, !.sup = b, !.key = k] \in Task
         /\ [o EXCEPT !.open = a, !.sup = b, !.key = k].key = k
         /\ [o EXCEPT !.open = a, !.sup = b, !.key = k].open = a
         /\ [o EXCEPT !.open = a, !.sup = b, !.key = k].sup = b
BY DEF Task

\* A task that became another one is superseded under the key that was read: the key
\* was its own, or nobody else's by now.
LEMMA SupersedePing ==
  ASSUME PingInv, Supersede
  PROVE  PingInv'
<1> USE DEF PingInv
<1>0. pass \in PassSet /\ tasks \in Seq(Task) /\ clock \in Nat
  BY DEF PingTyped
<1>1. /\ Planning /\ Planning' /\ ~Unread' /\ pass'.at = "acting"
      /\ UNCHANGED <<clock, dialog, hand, seen>>
  BY <1>0 DEF Supersede, Planning, Unread, PassSet
<1>2. PICK t \in pass.closing :
        /\ \/ tasks' = [tasks EXCEPT ![t[1]] = [@ EXCEPT !.open = FALSE, !.sup = TRUE, !.key = t[2]]]
           \/ tasks' = tasks
        /\ status' = status
        /\ pass' = [pass EXCEPT !.closing = @ \ {t}]
  BY DEF Supersede, Done, crm
<1>3. /\ t[1] \in DOMAIN tasks /\ t[1] \in Nat /\ t[2] \in Keys /\ t = <<t[1], t[2]>>
      /\ tasks[t[1]] \in Task
  BY <1>0, <1>1, PassFields, TasksFacts DEF Named
<1>4. /\ tasks' \in Seq(Task) /\ DOMAIN tasks' = DOMAIN tasks
      /\ \A i \in DOMAIN tasks : tasks'[i].key = tasks[i].key \/ (i = t[1] /\ tasks'[i].key = t[2])
  <2>1. CASE tasks' = tasks
    BY <2>1, <1>0
  <2>2. CASE tasks' = [tasks EXCEPT ![t[1]] = [@ EXCEPT !.open = FALSE, !.sup = TRUE, !.key = t[2]]]
    <3> DEFINE new == [tasks[t[1]] EXCEPT !.open = FALSE, !.sup = TRUE, !.key = t[2]]
    <3>2. new \in Task /\ new.key = t[2]
      BY <1>3, Rewritten
    <3>3. tasks' = [tasks EXCEPT ![t[1]] = new]
      BY <2>2, <1>0
    <3> HIDE DEF new
    <3> QED
      BY <3>2, <3>3, <1>3, OneTaskChanged
  <2> QED
    BY <1>2, <2>1, <2>2
<1>5. /\ pass'.closing = pass.closing \ {t} /\ pass'.last = pass.last /\ pass' \in PassSet
  BY <1>0, <1>2 DEF PassSet
<1>6. PingTyped'
  BY <1>1, <1>2, <1>4, <1>5 DEF PingTyped, seen
<1>7. Named' /\ NothingYet' /\ HandOK'
  BY <1>1, <1>4, <1>5 DEF Named, NothingYet, HandOK, Quiet, Planning, Unread
<1>8. \A i \in Nat, k \in Keys : Claimed(i, k)' => Claimed(i, k)
  <2> SUFFICES ASSUME NEW i \in Nat, NEW k \in Keys, Claimed(i, k)'
               PROVE  Claimed(i, k)
    OBVIOUS
  <2>1. CASE i \in DOMAIN tasks /\ k = tasks'[i].key
    <3>1. tasks'[i].key = tasks[i].key \/ (i = t[1] /\ k = t[2])
      BY <2>1, <1>4
    <3> QED
      BY <3>1, <2>1, <1>1, <1>3 DEF Claimed
  <2>2. CASE ~(i \in DOMAIN tasks /\ k = tasks'[i].key)
    BY <2>2, <1>1, <1>4, <1>5 DEF Claimed
  <2> QED
    BY <2>1, <2>2
<1>9. clock' >= clock
  BY <1>0, <1>1
<1> QED
  BY <1>6, <1>7, <1>8, <1>9, FewerClaims

\* The step's task is opened again under its key, or made: then the key was nobody's.
LEMMA ActPing ==
  ASSUME PingInv, Act
  PROVE  PingInv'
<1> USE DEF PingInv
<1>0. pass \in PassSet /\ tasks \in Seq(Task) /\ clock \in Nat /\ pass.last \in Lasts
      /\ pass.last.key \in Keys
  BY PassFields, KeysApart DEF PingTyped, Lasts
<1>1. /\ Planning /\ ~Planning' /\ pass'.at = "answered" /\ pass' \in PassSet
      /\ UNCHANGED <<clock, dialog, hand, seen>>
  BY <1>0 DEF Act, Planning, PassSet, Places
<1>2. status' = status
  BY DEF Act, Done, crm
<1>3. NothingYet' /\ Named'
  BY <1>1 DEF NothingYet, Named, Quiet, Unread
<1>4. CASE tasks' = tasks
  <2>1. PingTyped'
    BY <1>1, <1>2, <1>4 DEF PingTyped, seen
  <2>2. \A i \in Nat, k \in Keys : Claimed(i, k)' => Claimed(i, k)
    BY <1>1, <1>4 DEF Claimed
  <2>3. HandOK' /\ clock' >= clock
    BY <1>0, <1>1, <1>4 DEF HandOK
  <2> QED
    BY <1>3, <2>1, <2>2, <2>3, FewerClaims
<1>5. CASE Reopen(pass.last)
  <2> DEFINE r == pass.last.id
             new == [tasks[r] EXCEPT !.open = TRUE, !.sup = FALSE, !.key = pass.last.key]
  <2>1. r \in DOMAIN tasks /\ r \in Nat /\ tasks[r] \in Task
    BY <1>1, <1>5, TasksFacts DEF Named, Reopen
  <2>3. new \in Task /\ new.key = pass.last.key
    BY <1>0, <2>1, Rewritten
  <2>4. tasks' = [tasks EXCEPT ![r] = new]
    BY <1>5 DEF Reopen
  <2> HIDE DEF new
  <2>5. /\ tasks' \in Seq(Task) /\ DOMAIN tasks' = DOMAIN tasks
        /\ tasks'[r].key = pass.last.key /\ \A j \in DOMAIN tasks : j # r => tasks'[j] = tasks[j]
    BY <2>1, <2>3, <2>4, OneTaskChanged
  <2>6. PingTyped'
    BY <1>1, <1>2, <2>5 DEF PingTyped, seen
  <2>7. pass.last.op # None
    BY <1>5 DEF Reopen, None
  <2>8. \A i \in Nat, k \in Keys : Claimed(i, k)' => Claimed(i, k)
    BY <1>1, <2>5, <2>7 DEF Claimed
  <2>9. HandOK' /\ clock' >= clock
    BY <1>0, <1>1, <2>5 DEF HandOK
  <2> QED
    BY <1>3, <2>6, <2>8, <2>9, FewerClaims
<1>6. CASE Create(pass.last)
  <2>0. PICK k0 \in Keys : k0 = pass.last.key
    BY <1>0
  <2> DEFINE new == [key |-> k0, open |-> TRUE, sup |-> FALSE, made |-> clock]
             n == Len(tasks) + 1
  <2>1. new \in Task /\ new.key = k0
    BY <1>0 DEF Task
  <2>2. tasks' = Append(tasks, new)
    BY <2>0, <1>6 DEF Create
  <2> HIDE DEF new
  <2>3. /\ tasks' \in Seq(Task) /\ DOMAIN tasks' = DOMAIN tasks \cup {n} /\ n \notin DOMAIN tasks
        /\ n \in Nat /\ n # 0 /\ tasks'[n].key = k0
        /\ \A j \in DOMAIN tasks : tasks'[j] = tasks[j]
    BY <2>1, <2>2, OneTaskMore, TasksFacts
  <2> HIDE DEF n
  <2>4. PingTyped'
    BY <1>1, <1>2, <2>3 DEF PingTyped, seen
  <2>5. pass.last.id = 0 /\ pass.last.op # None
    BY <1>1, <1>6 DEF Named, Create, None
  <2>6. \A i \in Nat : Claimed(i, k0) => i = 0
    <3>1. Claimed(0, k0)
      BY <1>1, <2>0, <2>5 DEF Claimed
    <3> QED
      BY <3>1, <1>0 DEF OneClaims
  <2>7. \A i \in Nat, k \in Keys : Claimed(i, k)' <=>
           \/ i \in DOMAIN tasks /\ k = tasks[i].key
           \/ i = n /\ k = k0
    BY <1>1, <2>3 DEF Claimed
  <2>8. \A i \in Nat, k \in Keys : Claimed(i, k)' => Claimed(i, k) \/ (i = n /\ k = k0)
    BY <2>7 DEF Claimed
  <2>9. \A i \in Nat : Claimed(i, k0) => ~Claimed(i, k0)'
    BY <1>0, <2>3, <2>6, <2>7, TasksFacts
  <2>10. \A m \in Nat : k0 = Manual(m) => m <= clock'
    BY <1>0, <2>0, KeysApart DEF Lasts
  <2>11. HandOK' /\ clock' >= clock
    BY <1>0, <1>1, <2>3 DEF HandOK
  <2>12. OneClaims' /\ NoneAhead'
    <3>1. \A i \in Nat : Claimed(i, k0) => i = n \/ ~Claimed(i, k0)'
      BY <2>9
    <3>2. n \in Nat /\ k0 \in Keys
      BY <2>3
    <3> QED
      BY <3>1, <3>2, <2>4, <2>8, <2>10, <2>11, OneClaimMore
  <2> QED
    BY <1>3, <2>4, <2>11, <2>12
<1> QED
  BY <1>4, <1>5, <1>6 DEF Act, Done, crm

-----------------------------------------------------------------------------
(* People.                                                                 *)

LEMMA OpenIs ==
  ASSUME PingTyped
  PROVE  Open \subseteq DOMAIN tasks /\ (Open # {} => Max(Open) \in Open)
<1>1. Open \in SUBSET (0 .. Len(tasks)) /\ Len(tasks) \in Nat
  BY TasksFacts DEF Open
<1> QED
  BY <1>1, MaxIsIn DEF Open

\* A person's ping has a key nobody can have named.
LEMMA PingWritePing ==
  ASSUME PingInv, PingWrite
  PROVE  PingInv'
<1> USE DEF PingInv
<1>0. /\ tasks \in Seq(Task) /\ clock \in Nat /\ clock + 1 \in Nat /\ hand.task \in Nat
      /\ hand.task \in DOMAIN tasks \cup {0} /\ Len(tasks) \in Nat
  BY TasksFacts DEF PingWrite, HandOK, PingTyped, Hands
<1>1. /\ clock' = clock + 1 /\ hand' = NoRequest /\ UNCHANGED <<dialog, status, pass, kept>>
      /\ closed' = closed \ {hand.task} /\ clock' >= clock
  BY <1>0 DEF PingWrite
<1>2. PICK k0 \in Keys : k0 = Manual(clock + 1)
  BY <1>0, KeysApart
<1>3. \A i \in Nat : ~Claimed(i, k0)
  BY <1>0, <1>2 DEF NoneAhead
<1>4. PICK n \in Nat :
        /\ tasks' \in Seq(Task) /\ DOMAIN tasks' = DOMAIN tasks \cup {n}
        /\ tasks'[n].key = k0 /\ \A j \in DOMAIN tasks : j # n => tasks'[j] = tasks[j]
        /\ n # 0
  <2>1. CASE hand.task = 0
    <3> DEFINE new == [key |-> Manual(clock'), open |-> TRUE, sup |-> FALSE, made |-> clock']
    <3>1. new \in Task /\ new.key = k0
      BY <1>0, <1>1, <1>2 DEF Task
    <3>2. tasks' = Append(tasks, new)
      BY <2>1 DEF PingWrite
    <3> HIDE DEF new
    <3>3. /\ tasks' \in Seq(Task) /\ DOMAIN tasks' = DOMAIN tasks \cup {Len(tasks) + 1}
          /\ tasks'[Len(tasks) + 1].key = k0
          /\ \A j \in DOMAIN tasks : tasks'[j] = tasks[j]
      BY <3>1, <3>2, OneTaskMore
    <3> QED
      BY <3>3, <1>0
  <2>2. CASE hand.task # 0
    <3> DEFINE n == hand.task
               new == [tasks[n] EXCEPT !.key = Manual(clock'), !.sup = FALSE]
    <3>1. n \in DOMAIN tasks /\ tasks[n] \in Task
      BY <1>0, <2>2, TasksFacts
    <3>2. PICK o \in Task : o = tasks[n]
      BY <3>1
    <3>3. [o EXCEPT !.key = k0, !.sup = FALSE] \in Task /\ [o EXCEPT !.key = k0, !.sup = FALSE].key = k0
      BY DEF Task
    <3>4. new \in Task /\ new.key = k0
      BY <1>1, <1>2, <3>2, <3>3
    <3>5. tasks' = [tasks EXCEPT ![n] = new]
      BY <2>2 DEF PingWrite
    <3> HIDE DEF new
    <3>6. /\ tasks' \in Seq(Task) /\ DOMAIN tasks' = DOMAIN tasks
          /\ tasks'[n].key = k0 /\ \A j \in DOMAIN tasks : j # n => tasks'[j] = tasks[j]
      BY <3>1, <3>4, <3>5, OneTaskChanged
    <3> QED
      BY <3>1, <3>6, <2>2, <1>0
  <2> QED
    BY <2>1, <2>2
<1>5. PingTyped'
  <2>1. closed' \subseteq DOMAIN tasks'
    BY <1>1, <1>4 DEF PingTyped
  <2>2. hand' \in Hands
    BY <1>1 DEF NoRequest, Hands
  <2> QED
    BY <1>0, <1>1, <1>4, <2>1, <2>2 DEF PingTyped
<1>6. \A i \in Nat, k \in Keys : Claimed(i, k)' => Claimed(i, k) \/ (i = n /\ k = k0)
  BY <1>1, <1>4 DEF Claimed, Planning
<1>7. \A i \in Nat : Claimed(i, k0) => i = n \/ ~Claimed(i, k0)'
  BY <1>3
<1>8. \A m \in Nat : k0 = Manual(m) => m <= clock'
  <2> TAKE m \in Nat
  <2>1. k0 = Manual(m) => m = clock + 1
    BY <1>0, <1>2, KeysApart
  <2> QED
    BY <2>1, <1>0, <1>1
<1>9. OneClaims' /\ NoneAhead'
  BY <1>1, <1>5, <1>6, <1>7, <1>8, OneClaimMore
<1>10. NothingYet' /\ Named' /\ HandOK'
  BY <1>1, <1>4 DEF NothingYet, Named, HandOK, Quiet, Unread, Planning, NoRequest
<1> QED
  BY <1>5, <1>9, <1>10

\* The other steps of people leave the keys alone.
LEMMA PeoplePing ==
  ASSUME PingInv, People, ~PingWrite
  PROVE  PingInv'
<1> USE DEF PingInv
<1>0. /\ tasks \in Seq(Task) /\ clock \in Nat /\ hand \in Hands /\ Len(tasks) \in Nat
      /\ pass \in PassSet /\ status \in StatusSet
  BY TasksFacts DEF PingTyped
<1>1. /\ UNCHANGED <<dialog, pass>> /\ clock' \in Nat /\ clock' >= clock
  <2>1. UNCHANGED <<dialog, pass>> /\ (clock' = clock \/ clock' = clock + 1)
    BY DEF People, PingRead, StatusWrite, StatusTasks, StatusRead, StatusCloses, CloseTask, Closes
  <2> QED
    BY <1>0, <2>1
<1>2. /\ tasks' \in Seq(Task) /\ DOMAIN tasks' = DOMAIN tasks
      /\ \A i \in DOMAIN tasks : tasks'[i].key = tasks[i].key
      /\ closed' \subseteq DOMAIN tasks
  <2>1. ASSUME NEW t \in DOMAIN tasks, Closes(t)
        PROVE  /\ tasks' \in Seq(Task) /\ DOMAIN tasks' = DOMAIN tasks
               /\ \A i \in DOMAIN tasks : tasks'[i].key = tasks[i].key
               /\ closed' \subseteq DOMAIN tasks
    <3> DEFINE new == [tasks[t] EXCEPT !.open = FALSE]
    <3>1. tasks[t] \in Task
      BY TasksFacts
    <3>2. new \in Task /\ new.key = tasks[t].key
      BY <3>1 DEF Task
    <3>3. tasks' = [tasks EXCEPT ![t] = new]
      BY <2>1 DEF Closes
    <3> HIDE DEF new
    <3>4. /\ tasks' \in Seq(Task) /\ DOMAIN tasks' = DOMAIN tasks /\ tasks'[t] = new
          /\ \A j \in DOMAIN tasks : j # t => tasks'[j] = tasks[j]
      BY <3>2, <3>3, OneTaskChanged
    <3>5. closed' \subseteq DOMAIN tasks
      BY <2>1 DEF Closes, PingTyped
    <3> QED
      BY <3>2, <3>4, <3>5
  <2>2. CASE \E t \in DOMAIN tasks : Closes(t)
    BY <2>1, <2>2
  <2>3. CASE tasks' = tasks /\ closed' = closed
    BY <2>3, <1>0 DEF PingTyped
  <2> QED
    BY <2>2, <2>3 DEF People, PingRead, StatusWrite, StatusTasks, StatusRead, StatusCloses,
                      CloseTask, crm, seen
<1>3. status' \in StatusSet /\ kept' \in Chosen \cup {None}
  <2>1. CASE StatusWrite
    <3>1. hand.to \in Chosen
      BY <2>1 DEF StatusWrite, HandOK
    <3> QED
      BY <2>1, <3>1, <1>0, <1>1, PingsAssumption DEF StatusWrite, StatusSet, PingTyped
  <2>2. CASE ~StatusWrite
    <3>1. status' = status /\ kept' = kept
      BY <2>2 DEF People, PingRead, StatusTasks, StatusRead, StatusCloses, CloseTask, Closes, crm, seen
    <3> QED
      BY <3>1, <1>0 DEF PingTyped
  <2> QED
    BY <2>1, <2>2
<1>4. hand' \in Hands /\ HandOK'
  <2>0. hand.left \subseteq Nat /\ hand.to \in Chosen \cup {None} /\ hand.task \in Nat
    BY <1>0 DEF Hands
  <2>1. CASE PingRead
    <3>1. PICK t \in DOMAIN tasks \cup {IF Open = {} THEN 0 ELSE Max(Open)} :
            hand' = [NoRequest EXCEPT !.at = "ping", !.task = t]
      BY <2>1 DEF PingRead
    <3>2. t \in DOMAIN tasks \cup {0} /\ t \in Nat
      BY <3>1, OpenIs, TasksFacts
    <3>3. hand' = [at |-> "ping", task |-> t, to |-> None, left |-> {}]
      BY <3>1 DEF NoRequest
    <3> QED
      BY <3>2, <3>3, <1>2 DEF Hands, HandOK
  <2>2. CASE StatusWrite
    <3>1. hand' = [hand EXCEPT !.at = "tasks"]
      BY <2>2 DEF StatusWrite
    <3> QED
      BY <3>1, <1>0 DEF Hands, HandOK
  <2>3. CASE StatusTasks
    <3>1. \/ hand' = NoRequest
          \/ hand' = [hand EXCEPT !.at = "close", !.left = Open]
      BY <2>3 DEF StatusTasks
    <3>2. Open \subseteq Nat /\ Open \subseteq DOMAIN tasks'
      BY <1>2, OpenIs, TasksFacts
    <3>3. CASE hand' = NoRequest
      BY <3>3 DEF NoRequest, Hands, HandOK
    <3>4. CASE hand' = [hand EXCEPT !.at = "close", !.left = Open]
      <4>1. hand' \in Hands /\ hand'.at = "close" /\ hand'.left = Open
        BY <3>2, <3>4, <1>0 DEF Hands
      <4> QED
        BY <4>1, <3>2 DEF HandOK
    <3> QED
      BY <3>1, <3>3, <3>4
  <2>4. ASSUME NEW s \in Chosen, StatusRead(s) PROVE hand' \in Hands /\ HandOK'
    <3>1. hand' = [at |-> IF s \notin Closing /\ status.is = s THEN "tasks" ELSE "status",
                   task |-> 0, to |-> s, left |-> {}]
      BY <2>4 DEF StatusRead, NoRequest
    <3> QED
      BY <3>1 DEF Hands, HandOK
  <2>5. ASSUME NEW t \in DOMAIN tasks, StatusCloses(t) PROVE hand' \in Hands /\ HandOK'
    <3>1. hand' = NoRequest \/ hand' = [hand EXCEPT !.left = @ \ {t}]
      BY <2>5 DEF StatusCloses
    <3>2. CASE hand' = NoRequest
      BY <3>2 DEF NoRequest, Hands, HandOK
    <3>3. CASE hand' = [hand EXCEPT !.left = @ \ {t}]
      <4>1. hand' \in Hands /\ hand'.at = "close" /\ hand'.left = hand.left \ {t}
        BY <3>3, <1>0, <2>5 DEF Hands, StatusCloses
      <4> QED
        BY <4>1, <1>2, <2>5 DEF HandOK, StatusCloses
    <3> QED
      BY <3>1, <3>2, <3>3
  <2>6. ASSUME NEW t \in DOMAIN tasks, CloseTask(t) PROVE hand' \in Hands /\ HandOK'
    BY <2>6, <1>0, <1>2 DEF CloseTask, HandOK
  <2> QED
    BY <2>1, <2>2, <2>3, <2>4, <2>5, <2>6 DEF People
<1>5. PingTyped'
  BY <1>0, <1>1, <1>2, <1>3, <1>4 DEF PingTyped
<1>6. \A i \in Nat, k \in Keys : Claimed(i, k)' => Claimed(i, k)
  BY <1>1, <1>2 DEF Claimed, Planning
<1>7. OneClaims' /\ NoneAhead'
  BY <1>1, <1>5, <1>6, FewerClaims
<1>8. NothingYet' /\ Named'
  BY <1>1, <1>2 DEF NothingYet, Named, Quiet, Unread, Planning
<1> QED
  BY <1>4, <1>5, <1>7, <1>8

LEMMA PingInit == PingsInit => PingInv
<1> SUFFICES ASSUME PingsInit PROVE PingInv
  OBVIOUS
<1>1. PingTyped
  BY TypedInit
<1>2. DOMAIN tasks = {} /\ pass.at = "off" /\ pass.closing = {} /\ pass.last = NoAction
      /\ hand.at = "idle"
  BY DEF PingsInit, Off, NoRequest
<1> QED
  BY <1>1, <1>2 DEF PingInv, NothingYet, Named, HandOK, OneClaims, NoneAhead, Claimed, Planning

LEMMA PingStep == PingInv /\ [PingsNext]_pingsVars => PingInv'
<1> SUFFICES ASSUME PingInv, [PingsNext]_pingsVars PROVE PingInv'
  OBVIOUS
<1>1. CASE UNCHANGED pingsVars
  BY <1>1 DEF pingsVars, crm, seen, bounds, PingInv, PingTyped, NothingYet, Named, HandOK, OneClaims,
              NoneAhead, Claimed, Planning, Quiet, Unread
<1>2. CASE Reconcile
  BY <1>2, ReadTasksPing, OtherPassPing, SupersedePing, ActPing DEF Reconcile
<1>3. CASE Ends
  BY <1>3, OtherPassPing
<1>4. CASE Dialog
  BY <1>4, DialogPing
<1>5. CASE People
  BY <1>5, PingWritePing, PeoplePing
<1> QED
  BY <1>1, <1>2, <1>3, <1>4, <1>5 DEF PingsNext

\* A step of a dialog has one task ever, however many reconciliations fail half-way
\* and whatever people move meanwhile.
THEOREM OneTaskOfAStep == PingsSpec => []OnePingPerStep
<1>1. PingInv => OnePingPerStep
  <2> SUFFICES ASSUME PingInv, NEW i \in DOMAIN tasks, NEW j \in DOMAIN tasks,
                      tasks[i].key = tasks[j].key
               PROVE  i = j
    BY DEF OnePingPerStep
  <2>1. i \in Nat /\ j \in Nat /\ tasks[i].key \in Keys
    BY TasksFacts DEF PingInv, Task
  <2>2. Claimed(i, tasks[i].key) /\ Claimed(j, tasks[i].key)
    BY DEF Claimed
  <2> QED
    BY <2>1, <2>2 DEF PingInv, OneClaims
<1> QED
  BY <1>1, PingInit, PingStep, PTL DEF PingsSpec

-----------------------------------------------------------------------------
(* What people decided stands.                                             *)

OpenStands == \A i \in DOMAIN tasks : tasks[i].open => ~tasks[i].sup

\* A task people closed is nothing to a reconciliation: not open, not superseded, and
\* neither to be superseded nor to be opened.
ClosedStands ==
  \A i \in closed : /\ ~tasks[i].open /\ ~tasks[i].sup
                    /\ Planning => \A t \in pass.closing : t[1] # i
                    /\ Planning /\ pass.last.op = "reopen" => pass.last.id # i

\* What a person set, or what a reconciliation may have made of it.
Follows(is) == kept # None => is = kept \/ Lifted(kept, is)

StatusStands ==
  /\ Follows(status.is) /\ (pass.contact # None => Follows(pass.contact))
  /\ Quiet => pass.contact = None
  /\ pass.dialog.in > 0 => dialog.in > 0

Stands == OpenStands /\ ClosedStands /\ StatusStands

\* Who has written has written.
LEMMA WroteOnce ==
  ASSUME PingTyped, Dialog \/ UNCHANGED dialog, dialog.in > 0
  PROVE  dialog'.in > 0
<1>1. clock \in Nat /\ dialog \in Dialogs
  BY DEF PingTyped
<1>2. CASE TheyWrite
  BY <1>1, <1>2 DEF TheyWrite, Happens, Dialogs
<1>3. CASE WeQueue \/ DaysPass
  BY <1>1, <1>3 DEF WeQueue, DaysPass, Happens, Dialogs
<1>4. ASSUME NEW n \in dialog.pend, Appears(n) \/ Dropped(n) PROVE dialog'.in > 0
  BY <1>1, <1>4 DEF Appears, Dropped, Happens, Dialogs
<1> QED
  BY <1>2, <1>3, <1>4 DEF Dialog

\* A reconciliation that begins or is over has read nothing.
LEMMA FromOff ==
  /\ Off.at = "off" /\ Off.contact = None /\ Off.dialog.in = 0
  /\ PingTyped /\ Gather => pass'.at = "gathered" /\ pass'.contact = None /\ pass'.dialog.in = dialog.in
  /\ Responded \/ Ends => pass'.at = "off" /\ pass'.contact = None /\ pass'.dialog.in = 0
<1>1. Off.at = "off" /\ Off.contact = None /\ Off.dialog.in = 0
  BY DEF Off, NewDialog
<1>2. ASSUME PingTyped, Gather
      PROVE  pass'.at = "gathered" /\ pass'.contact = None /\ pass'.dialog.in = dialog.in
  <2>1. PICK d \in Dialogs : pass' = [Off EXCEPT !.at = "gathered", !.dialog = d] /\ d.in = dialog.in
    BY <1>2, GatheredTyped
  <2> QED
    BY <1>1, <2>1, OffTyped DEF PassSet
<1>3. Responded \/ Ends => pass' = Off
  BY DEF Responded, Ends
<1> QED
  BY <1>1, <1>2, <1>3

\* The tasks stay as they are.
LEMMA SameTasks ==
  ASSUME OpenStands, ClosedStands, tasks' = tasks, closed' = closed,
         \/ ~Planning'
         \/ pass'.closing = {} /\ pass'.last = NoAction
         \/ Planning /\ pass'.closing \subseteq pass.closing /\ pass'.last = pass.last
  PROVE  OpenStands' /\ ClosedStands'
<1>1. OpenStands'
  BY DEF OpenStands
<1>2. ClosedStands'
  BY DEF ClosedStands, NoAction, None
<1> QED
  BY <1>1, <1>2

\* What a reconciliation writes and reads.
LEMMA PassStands ==
  ASSUME PingInv, Stands, Reconcile \/ Ends
  PROVE  Stands'
<1> USE DEF Stands
<1>0. /\ pass \in PassSet /\ status \in StatusSet /\ PingTyped /\ tasks \in Seq(Task)
      /\ kept \in Chosen \cup {None} /\ closed \subseteq DOMAIN tasks
  BY DEF PingInv, PingTyped
<1>1. UNCHANGED <<closed, kept>>
  BY DEF Reconcile, Gather, ReadLater, ReadTasks, ReadContact, NoResponse, Supersede, Act,
         ReadExtra, Responded, Ends, seen
<1>2. /\ status.is \in LeadStatuses /\ pass.contact \in LeadStatuses \cup {None}
      /\ dialog' = dialog
  <2>1. dialog' = dialog
    BY PassTyped DEF PingInv, Reconcile, Supersede, Act
  <2> QED
    BY <1>0, <2>1 DEF StatusSet, PassSet
<1>3. StatusStands'
  <2>0. ASSUME NEW is, Follows(is) PROVE Follows(is)'
    BY <2>0, <1>1, <1>2 DEF Follows, Lifted
  <2>1. CASE Gather \/ Ends
    <3>1. pass'.contact = None /\ status' = status /\ pass'.dialog.in \in {0, dialog.in}
      BY <2>1, <1>0, FromOff DEF Gather, Ends, crm
    <3> QED
      BY <3>1, <2>0, <1>2 DEF StatusStands
  <2>2. CASE ReadLater
    <3>1. pass'.contact = pass.contact /\ pass.at = "gathered" /\ pass'.at \in {"extra", "reading"}
          /\ status' = status /\ pass'.dialog = pass.dialog
      BY <2>2, <1>0 DEF ReadLater, PassSet, crm
    <3> QED
      BY <3>1, <2>0, <1>2 DEF StatusStands, Quiet
  <2>3. CASE ReadTasks
    <3>1. pass'.contact = pass.contact /\ pass'.at = "reading" /\ status' = status
          /\ pass'.dialog = pass.dialog
      BY <2>3, <1>0 DEF ReadTasks, PassSet, crm
    <3> QED
      BY <3>1, <2>0, <1>2 DEF StatusStands, Quiet
  <2>4. CASE ReadContact \/ ReadExtra
    <3>1. pass'.contact = status.is /\ pass'.at \in {"reading", "answered"} /\ status' = status
          /\ pass'.dialog = pass.dialog
      BY <2>4, <1>0 DEF ReadContact, ReadExtra, PassSet, crm
    <3> QED
      BY <3>1, <2>0, <1>2 DEF StatusStands, Quiet
  <2>5. CASE NoResponse
    <3>1. pass'.contact = pass.contact /\ pass'.at = "acting" /\ pass'.dialog = pass.dialog
      BY <2>5, <1>0 DEF NoResponse, PassSet
    <3>2. status' = status \/ (status'.is = "no_response" /\ pass.contact \in StillTrying)
      BY <2>5, <1>0 DEF NoResponse, Done, crm, StatusSet
    <3>3. ASSUME pass.contact \in StillTrying PROVE Follows("no_response")
      BY <3>3 DEF StatusStands, Follows, Lifted, StillTrying, None
    <3>4. Follows(status'.is)
      BY <3>2, <3>3 DEF StatusStands
    <3>5. Follows(status.is)'
      BY <3>4, <1>1, <1>2 DEF Follows, Lifted
    <3> QED
      BY <3>1, <3>5, <2>0, <1>2 DEF StatusStands, Quiet
  <2>6. CASE Supersede \/ Act
    <3>1. pass'.contact = pass.contact /\ pass'.at \in {"acting", "answered"} /\ pass'.dialog = pass.dialog
      BY <2>6, <1>0 DEF Supersede, Act, PassSet
    <3>2. status' = status
      BY <2>6 DEF Supersede, Act, Done, crm
    <3> QED
      BY <3>1, <3>2, <2>0, <1>2 DEF StatusStands, Quiet
  <2>7. CASE Responded
    <3>1. pass'.contact = None /\ pass'.dialog.in = 0
      BY <2>7, FromOff
    <3>2. \/ status' = status
          \/ /\ status'.is = "responded" /\ pass.dialog.in > 0
             /\ pass.contact \in AutoRepliedFrom \cup {"no_response"}
      BY <2>7, <1>0 DEF Responded, RepliedStatusDue, Done, crm, StatusSet
    <3>3. ASSUME pass.contact \in AutoRepliedFrom \cup {"no_response"}, dialog.in > 0
          PROVE  Follows("responded")
      BY <3>3 DEF StatusStands, Follows, Lifted, StillTrying, AutoRepliedFrom, None
    <3>4. Follows(status'.is)
      BY <3>2, <3>3 DEF StatusStands
    <3>5. Follows(status.is)'
      BY <3>4, <1>1, <1>2 DEF Follows, Lifted
    <3> QED
      BY <3>1, <3>5 DEF StatusStands
  <2> QED
    BY <2>1, <2>2, <2>3, <2>4, <2>5, <2>6, <2>7 DEF Reconcile
<1>4. OpenStands' /\ ClosedStands'
  <2>1. CASE Gather \/ ReadLater \/ ReadContact \/ NoResponse \/ ReadExtra \/ Responded \/ Ends
    <3>1. tasks' = tasks
      BY <2>1, PassTyped DEF PingInv
    <3>2. \/ ~Planning'
          \/ pass'.closing = {} /\ pass'.last = NoAction
          \/ Planning /\ pass'.closing = pass.closing /\ pass'.last = pass.last
      <4>1. CASE Gather \/ ReadExtra \/ Responded \/ Ends
        <5>1. pass'.at \in {"off", "gathered", "answered"}
          BY <4>1, <1>0, FromOff DEF ReadExtra, PassSet
        <5> QED
          BY <5>1 DEF Planning
      <4>2. CASE ReadLater
        BY <4>2, <1>0 DEF ReadLater, PassSet, PingInv, NothingYet, Quiet
      <4>3. CASE ReadContact \/ NoResponse
        BY <4>3, <1>0 DEF ReadContact, NoResponse, PassSet, Planning
      <4> QED
        BY <2>1, <4>1, <4>2, <4>3
    <3> QED
      BY <3>1, <3>2, <1>1, SameTasks
  <2>2. CASE ReadTasks
    <3>1. /\ tasks' = tasks /\ pass'.at = "reading"
          /\ pass'.closing = {<<i, tasks[i].key>> : i \in Superseded(pass.want, tasks)}
          /\ pass'.last = Finally(pass.want, tasks)
      BY <2>2, <1>0 DEF ReadTasks, PassSet, crm
    <3>2. \A t \in pass'.closing : tasks[t[1]].open
      BY <3>1 DEF Superseded
    <3>3. pass'.last.op = "reopen" => tasks[pass'.last.id].sup
      BY <3>1, <1>0, PassFields, FinallyIs
    <3> QED
      BY <3>1, <3>2, <3>3, <1>1 DEF OpenStands, ClosedStands
  <2>3. CASE Supersede
    <3>1. PICK t \in pass.closing :
            /\ \/ tasks' = [tasks EXCEPT ![t[1]] = [@ EXCEPT !.open = FALSE, !.sup = TRUE,
                    !.key = t[2]]]
               \/ tasks' = tasks
            /\ pass' = [pass EXCEPT !.closing = @ \ {t}]
      BY <2>3 DEF Supersede, Done, crm
    <3>2. /\ pass'.closing \subseteq pass.closing /\ pass'.last = pass.last
          /\ pass'.at = pass.at /\ Planning
      BY <3>1, <2>3, <1>0 DEF PassSet, Supersede, Planning
    <3>3. CASE tasks' = tasks
      BY <3>2, <3>3, <1>1, SameTasks
    <3>4. CASE tasks' = [tasks EXCEPT ![t[1]] = [@ EXCEPT !.open = FALSE, !.sup = TRUE, !.key = t[2]]]
      <4>1. t[1] \in DOMAIN tasks /\ t[2] \in Keys
        BY <3>2, <1>0, PassFields DEF PingInv, Named
      <4>2. PICK o \in Task : o = tasks[t[1]]
        BY <4>1, <1>0, TasksFacts
      <4> DEFINE new == [o EXCEPT !.open = FALSE, !.sup = TRUE, !.key = t[2]]
      <4>3. new \in Task /\ ~new.open /\ new.sup
        BY <4>1, Rewritten
      <4>4. tasks' = [tasks EXCEPT ![t[1]] = new]
        BY <3>4, <4>2
      <4> HIDE DEF new
      <4>5. /\ DOMAIN tasks' = DOMAIN tasks /\ tasks'[t[1]] = new
            /\ \A j \in DOMAIN tasks : j # t[1] => tasks'[j] = tasks[j]
        BY <1>0, <4>1, <4>3, <4>4, OneTaskChanged
      <4>6. OpenStands'
        BY <4>3, <4>5 DEF OpenStands
      <4>7. ClosedStands'
        BY <1>0, <1>1, <3>2, <4>5 DEF ClosedStands, Planning
      <4> QED
        BY <4>6, <4>7
    <3> QED
      BY <3>1, <3>3, <3>4
  <2>4. CASE Act
    <3>1. ~Planning' /\ Planning
      BY <2>4, <1>0 DEF Act, PassSet, Planning
    <3>2. CASE tasks' = tasks
      BY <3>1, <3>2, <1>1, SameTasks
    <3>3. CASE Reopen(pass.last)
      <4>1. /\ pass.last.op = "reopen" /\ pass.last.id \in DOMAIN tasks /\ pass.last.key \in Keys
        BY <3>1, <3>3, <1>0, PassFields, KeysApart DEF PingInv, Named, Reopen, Lasts
      <4>2. PICK o \in Task : o = tasks[pass.last.id]
        BY <4>1, <1>0, TasksFacts
      <4> DEFINE new == [o EXCEPT !.open = TRUE, !.sup = FALSE, !.key = pass.last.key]
      <4>3. new \in Task /\ ~new.sup
        BY <4>1, Rewritten
      <4>4. tasks' = [tasks EXCEPT ![pass.last.id] = new]
        BY <3>3, <4>2 DEF Reopen
      <4> HIDE DEF new
      <4>5. /\ DOMAIN tasks' = DOMAIN tasks /\ tasks'[pass.last.id] = new
            /\ \A j \in DOMAIN tasks : j # pass.last.id => tasks'[j] = tasks[j]
        BY <1>0, <4>1, <4>3, <4>4, OneTaskChanged
      <4>6. OpenStands'
        BY <4>3, <4>5 DEF OpenStands
      <4>7. ClosedStands'
        BY <1>0, <1>1, <3>1, <4>1, <4>5 DEF ClosedStands
      <4> QED
        BY <4>6, <4>7
    <3>4. CASE Create(pass.last)
      <4> DEFINE new == [key |-> pass.last.key, open |-> TRUE, sup |-> FALSE, made |-> clock]
      <4>1. new \in Task /\ ~new.sup
        BY <1>0, PassFields, KeysApart DEF Task, Lasts, PingTyped
      <4>2. tasks' = Append(tasks, new)
        BY <3>4 DEF Create
      <4> HIDE DEF new
      <4>3. /\ DOMAIN tasks' = DOMAIN tasks \cup {Len(tasks) + 1}
            /\ tasks'[Len(tasks) + 1] = new /\ \A j \in DOMAIN tasks : tasks'[j] = tasks[j]
        BY <1>0, <4>1, <4>2, OneTaskMore
      <4>4. OpenStands'
        BY <4>1, <4>3 DEF OpenStands
      <4>5. ClosedStands'
        BY <1>0, <1>1, <3>1, <4>3 DEF ClosedStands
      <4> QED
        BY <4>4, <4>5
    <3> QED
      BY <2>4, <3>2, <3>3, <3>4 DEF Act, Done, crm
  <2> QED
    BY <2>1, <2>2, <2>3, <2>4 DEF Reconcile
<1> QED
  BY <1>3, <1>4

LEMMA PeopleStands ==
  ASSUME PingInv, Stands, People
  PROVE  Stands'
<1> USE DEF Stands
<1>0. /\ pass \in PassSet /\ status \in StatusSet /\ PingTyped /\ tasks \in Seq(Task)
      /\ kept \in Chosen \cup {None} /\ closed \subseteq DOMAIN tasks
  BY DEF PingInv, PingTyped
<1>1. pass' = pass
  BY DEF People, PingRead, PingWrite, StatusWrite, StatusTasks, StatusRead, StatusCloses, CloseTask,
         Closes
<1>2. StatusStands'
  <2>0. dialog' = dialog
    BY DEF People, PingRead, PingWrite, StatusWrite, StatusTasks, StatusRead, StatusCloses, CloseTask,
           Closes
  <2>1. CASE StatusWrite
    <3>1. kept' = (IF Quiet THEN hand.to ELSE None) /\ status'.is = hand.to
      BY <2>1 DEF StatusWrite
    <3>2. Follows(status.is)'
      BY <3>1 DEF Follows
    <3>3. (pass.contact # None => Follows(pass.contact))'
      BY <3>1, <1>1 DEF StatusStands, Follows
    <3> QED
      BY <3>2, <3>3, <2>0, <1>1 DEF StatusStands, Quiet
  <2>2. CASE ~StatusWrite
    <3>1. status' = status /\ kept' = kept
      BY <2>2 DEF People, PingRead, PingWrite, StatusTasks, StatusRead, StatusCloses, CloseTask,
                  Closes, crm, seen
    <3> QED
      BY <3>1, <2>0, <1>1 DEF StatusStands, Follows, Lifted, Quiet
  <2> QED
    BY <2>1, <2>2
<1>3. OpenStands' /\ ClosedStands'
  <2>1. CASE PingWrite
    <3>0. /\ hand.task \in DOMAIN tasks \cup {0} /\ clock' \in Nat /\ closed' = closed \ {hand.task}
      BY <2>1, <1>0 DEF PingWrite, PingInv, HandOK, PingTyped
    <3>1. PICK k0 \in Keys : k0 = Manual(clock')
      BY <3>0, KeysApart
    <3>2. CASE hand.task = 0
      <4> DEFINE new == [key |-> k0, open |-> TRUE, sup |-> FALSE, made |-> clock']
      <4>1. new \in Task /\ ~new.sup
        BY <3>0 DEF Task
      <4>2. tasks' = Append(tasks, new)
        BY <2>1, <3>1, <3>2 DEF PingWrite
      <4> HIDE DEF new
      <4>3. /\ DOMAIN tasks' = DOMAIN tasks \cup {Len(tasks) + 1}
            /\ tasks'[Len(tasks) + 1] = new /\ \A j \in DOMAIN tasks : tasks'[j] = tasks[j]
        BY <1>0, <4>1, <4>2, OneTaskMore
      <4>4. OpenStands'
        BY <4>1, <4>3 DEF OpenStands
      <4>5. ClosedStands'
        BY <1>0, <1>1, <3>0, <4>3 DEF ClosedStands, Planning
      <4> QED
        BY <4>4, <4>5
    <3>3. CASE hand.task # 0
      <4>1. PICK o \in Task : o = tasks[hand.task]
        BY <3>0, <3>3, <1>0, TasksFacts
      <4> DEFINE new == [o EXCEPT !.key = k0, !.sup = FALSE]
      <4>2. new \in Task /\ ~new.sup
        BY DEF Task
      <4>3. tasks' = [tasks EXCEPT ![hand.task] = new]
        BY <2>1, <3>1, <3>3, <4>1 DEF PingWrite
      <4> HIDE DEF new
      <4>4. /\ DOMAIN tasks' = DOMAIN tasks /\ tasks'[hand.task] = new
            /\ \A j \in DOMAIN tasks : j # hand.task => tasks'[j] = tasks[j]
        BY <1>0, <3>0, <3>3, <4>2, <4>3, OneTaskChanged
      <4>5. OpenStands'
        BY <4>2, <4>4 DEF OpenStands
      <4>6. ClosedStands'
        BY <1>0, <1>1, <3>0, <4>4 DEF ClosedStands, Planning
      <4> QED
        BY <4>5, <4>6
    <3> QED
      BY <3>2, <3>3
  <2>2. ASSUME NEW t \in DOMAIN tasks, Closes(t)
        PROVE  OpenStands' /\ ClosedStands'
    <3>1. PICK o \in Task : o = tasks[t]
      BY <1>0, TasksFacts
    <3> DEFINE new == [o EXCEPT !.open = FALSE]
    <3>2. new \in Task /\ ~new.open /\ new.sup = o.sup
      BY DEF Task
    <3>3. tasks' = [tasks EXCEPT ![t] = new]
      BY <2>2, <3>1 DEF Closes
    <3> HIDE DEF new
    <3>4. /\ DOMAIN tasks' = DOMAIN tasks /\ tasks'[t] = new
          /\ \A j \in DOMAIN tasks : j # t => tasks'[j] = tasks[j]
      BY <1>0, <3>2, <3>3, OneTaskChanged
    <3>5. OpenStands'
      BY <3>2, <3>4 DEF OpenStands
    <3>6. closed' = closed \/ (closed' = closed \cup {t} /\ tasks[t].open /\ ~Planning)
      BY <2>2 DEF Closes, Quiet, Planning
    <3>7. ASSUME NEW i \in closed'
          PROVE  /\ ~tasks'[i].open /\ ~tasks'[i].sup
                 /\ Planning' => \A u \in pass'.closing : u[1] # i
                 /\ Planning' /\ pass'.last.op = "reopen" => pass'.last.id # i
      <4>1. CASE i \in closed
        <5>1. i \in DOMAIN tasks /\ ~tasks[i].open /\ ~tasks[i].sup
          BY <4>1, <1>0 DEF ClosedStands
        <5>2. ~tasks'[i].open /\ ~tasks'[i].sup
          BY <5>1, <3>1, <3>2, <3>4
        <5> QED
          BY <4>1, <5>2, <1>1 DEF ClosedStands, Planning
      <4>2. CASE i = t /\ tasks[t].open /\ ~Planning
        BY <4>2, <1>1, <3>1, <3>2, <3>4 DEF OpenStands, Planning
      <4> QED
        BY <3>6, <4>1, <4>2
    <3>8. ClosedStands'
      BY <3>7 DEF ClosedStands
    <3> QED
      BY <3>5, <3>8
  <2>3. CASE \E t \in DOMAIN tasks : Closes(t)
    BY <2>2, <2>3
  <2>4. CASE tasks' = tasks /\ closed' = closed
    BY <2>4, <1>1, SameTasks DEF Planning
  <2> QED
    BY <2>1, <2>3, <2>4 DEF People, PingRead, StatusWrite, StatusTasks, StatusRead, StatusCloses,
                            CloseTask, crm, seen
<1> QED
  BY <1>2, <1>3

LEMMA StandsInit == PingsInit => Stands
BY DEF PingsInit, Off, NewDialog, Stands, OpenStands, ClosedStands, StatusStands, Follows

LEMMA StandsStep == PingInv /\ Stands /\ [PingsNext]_pingsVars => Stands'
<1> SUFFICES ASSUME PingInv, Stands, [PingsNext]_pingsVars PROVE Stands'
  OBVIOUS
<1>1. CASE UNCHANGED pingsVars \/ Dialog
  <2>1. UNCHANGED <<status, tasks, pass, closed, kept>>
    BY <1>1, DialogTyped DEF PingInv, pingsVars, crm, seen
  <2>2. OpenStands' /\ ClosedStands'
    BY <2>1, SameTasks DEF Stands, Planning
  <2>3. StatusStands'
    <3>1. dialog.in > 0 => dialog'.in > 0
      BY <1>1, WroteOnce DEF PingInv, pingsVars
    <3> QED
      BY <2>1, <3>1 DEF Stands, StatusStands, Follows, Lifted, Quiet
  <2> QED
    BY <2>2, <2>3 DEF Stands
<1>2. CASE Reconcile \/ Ends
  BY <1>2, PassStands
<1>3. CASE People
  BY <1>3, PeopleStands
<1> QED
  BY <1>1, <1>2, <1>3 DEF PingsNext

\* A ping people closed is not opened again, nor its step put under another task, and
\* a status they set is replaced by a reconciliation that reads the CRM afterwards only
\* where it says that nothing came of the lead yet (AUTO_REPLIED_FROM, STILL_TRYING).
THEOREM WhatPeopleDecide == PingsSpec => []DecisionsKept
<1>1. PingInv /\ Stands => DecisionsKept
  <2> SUFFICES ASSUME PingInv, Stands PROVE DecisionsKept
    OBVIOUS
  <2>1. ASSUME NEW i \in closed, NEW j \in DOMAIN tasks, tasks[j].key = tasks[i].key
        PROVE  ~tasks[j].open
    <3>1. i \in DOMAIN tasks /\ i \in Nat /\ j \in Nat /\ tasks[i].key \in Keys
      BY TasksFacts DEF PingInv, PingTyped, Task
    <3>2. Claimed(i, tasks[i].key) /\ Claimed(j, tasks[i].key)
      BY <2>1, <3>1 DEF Claimed
    <3>3. i = j
      BY <3>1, <3>2 DEF PingInv, OneClaims
    <3> QED
      BY <3>3 DEF Stands, ClosedStands
  <2> QED
    BY <2>1 DEF DecisionsKept, Stands, StatusStands, Follows
<1> QED
  BY <1>1, PingInit, PingStep, StandsInit, StandsStep, PTL DEF PingsSpec

-----------------------------------------------------------------------------
(* The numbers of the pings: whoever is served will take one of them.          *)

Asking == hand.at \in {"ping", "status"}
InTime ==
  /\ acts \in 0 .. MaxActs /\ events \in 0 .. MaxEvents
  /\ 1 <= clock /\ clock <= 1 + events + acts /\ (Asking => clock < 1 + events + acts)
Pending == dialog.pend \subseteq 1 .. clock
Made == \A i \in DOMAIN tasks : tasks[i].made \in 1 .. clock

LEMMA TimeGoesOn ==
  ASSUME PingInv, InTime, [PingsNext]_pingsVars
  PROVE  InTime' /\ clock' \in Nat /\ clock <= clock'
<1>1. /\ clock \in Nat /\ acts \in 0 .. MaxActs /\ events \in 0 .. MaxEvents
      /\ 1 <= clock /\ clock <= 1 + events + acts /\ (Asking => clock < 1 + events + acts)
  BY DEF PingInv, PingTyped, InTime
<1>2. MaxActs \in Nat /\ MaxEvents \in Nat
  BY PingsAssumption
<1>3. ASSUME clock' = clock, acts' = acts, events' = events, Asking' => Asking
      PROVE  InTime' /\ clock' \in Nat /\ clock <= clock'
  BY <1>1, <1>2, <1>3 DEF InTime
<1>4. CASE Reconcile \/ Ends \/ UNCHANGED pingsVars
  <2>1. clock' = clock /\ acts' = acts /\ events' = events /\ hand' = hand
    BY <1>4 DEF Reconcile, Ends, Gather, ReadLater, ReadTasks, ReadContact, NoResponse, Supersede, Act,
          ReadExtra, Responded, bounds, pingsVars
  <2> QED
    BY <1>3, <2>1 DEF Asking
<1>5. CASE Dialog
  <2>1. events < MaxEvents /\ events' = events + 1 /\ clock' = clock + 1 /\ acts' = acts /\ hand' = hand
    BY <1>5 DEF Dialog, TheyWrite, WeQueue, DaysPass, Appears, Dropped, Happens
  <2>2. Asking' => Asking
    BY <2>1 DEF Asking
  <2> QED
    BY <1>1, <1>2, <2>1, <2>2 DEF InTime
<1>6. ASSUME Click, clock' = clock, events' = events
      PROVE  InTime' /\ clock' \in Nat /\ clock <= clock'
  <2>1. acts < MaxActs /\ acts' = acts + 1
    BY <1>6 DEF Click
  <2> QED
    BY <1>1, <1>2, <1>6, <2>1 DEF InTime
<1>7. CASE PingWrite \/ StatusWrite
  <2>1. clock' = clock + 1 /\ acts' = acts /\ events' = events
    BY <1>7 DEF PingWrite, StatusWrite, bounds
  <2>2. Asking /\ ~Asking'
    BY <1>7 DEF PingWrite, StatusWrite, Asking, NoRequest, PingInv, PingTyped, Hands
  <2> QED
    BY <1>1, <1>2, <2>1, <2>2 DEF InTime
<1>8. CASE StatusTasks \/ \E t \in DOMAIN tasks : StatusCloses(t)
  <2>1. clock' = clock /\ acts' = acts /\ events' = events
    BY <1>8 DEF StatusTasks, StatusCloses, Closes, bounds
  <2>2. hand'.at \in {"idle", "close"}
    <3>1. hand \in Hands
      BY DEF PingInv, PingTyped
    <3>2. CASE StatusTasks
      BY <3>1, <3>2 DEF StatusTasks, NoRequest, Hands
    <3>3. CASE \E t \in DOMAIN tasks : StatusCloses(t)
      BY <3>1, <3>3 DEF StatusCloses, NoRequest, Hands
    <3> QED
      BY <1>8, <3>2, <3>3
  <2> QED
    BY <1>3, <2>1, <2>2 DEF Asking
<1>9. CASE PingRead \/ (\E s \in Chosen : StatusRead(s)) \/ \E t \in DOMAIN tasks : CloseTask(t)
  <2>1. Click /\ clock' = clock /\ events' = events
    BY <1>9 DEF PingRead, StatusRead, CloseTask, Closes
  <2> QED
    BY <1>6, <2>1
<1> QED
  BY <1>4, <1>5, <1>7, <1>8, <1>9 DEF PingsNext, People

LEMMA PendingStays ==
  ASSUME PingInv, InTime, Pending, [PingsNext]_pingsVars
  PROVE  Pending'
<1>1. clock \in Nat /\ clock' \in Nat /\ clock <= clock'
  BY TimeGoesOn DEF PingInv, PingTyped
<1>2. CASE Dialog
  <2>1. clock' = clock + 1 /\ dialog'.pend \subseteq dialog.pend \cup {clock + 1}
    BY <1>2 DEF Dialog, TheyWrite, WeQueue, DaysPass, Appears, Dropped, Happens, PingInv, PingTyped,
       Dialogs
  <2> QED
    BY <1>1, <2>1 DEF Pending
<1>3. CASE ~Dialog
  <2>1. dialog' = dialog
    BY <1>3 DEF PingsNext, Reconcile, Ends, Gather, ReadLater, ReadTasks, ReadContact, NoResponse,
       Supersede,
          Act, ReadExtra, Responded, People, PingRead, PingWrite, StatusRead, StatusWrite, StatusTasks,
          StatusCloses, CloseTask, Closes, pingsVars
  <2> QED
    BY <1>1, <2>1 DEF Pending
<1> QED
  BY <1>2, <1>3

\* A task keeps when it was made, and a new one is made now.
LEMMA MadeStays ==
  ASSUME PingInv, InTime, Made, [PingsNext]_pingsVars
  PROVE  Made'
<1>1. clock \in Nat /\ clock' \in Nat /\ clock <= clock' /\ 1 <= clock
  BY TimeGoesOn DEF InTime, PingInv, PingTyped
<1>2. ASSUME \A i \in DOMAIN tasks' : i \in DOMAIN tasks /\ tasks'[i].made = tasks[i].made
      PROVE  Made'
  BY <1>1, <1>2 DEF Made
<1>3. ASSUME NEW t, tasks' = Append(tasks, t), t.made \in {clock, clock'}
      PROVE  Made'
  <2>1. Len(tasks) \in Nat /\ DOMAIN tasks = 1 .. Len(tasks) /\ tasks \in Seq(Task)
    BY TasksFacts DEF PingInv, PingTyped
  <2>2. /\ DOMAIN tasks' = 1 .. Len(tasks) + 1 /\ tasks'[Len(tasks) + 1] = t
        /\ \A i \in 1 .. Len(tasks) : tasks'[i] = tasks[i]
    BY <1>3, <2>1
  <2> QED
    BY <1>1, <1>3, <2>1, <2>2 DEF Made
<1>4. ASSUME NEW k, NEW t, k \in DOMAIN tasks => t.made = tasks[k].made,
               tasks' = [tasks EXCEPT ![k] = t]
      PROVE  Made'
  <2>1. tasks \in Seq(Task)
    BY DEF PingInv, PingTyped
  <2>2. DOMAIN tasks' = DOMAIN tasks /\ \A i \in DOMAIN tasks : tasks'[i].made = tasks[i].made
    BY <1>4, <2>1
  <2> QED
    BY <1>2, <2>2
<1>5. \A i \in DOMAIN tasks : tasks[i] \in Task
  BY TasksFacts DEF PingInv
<1>6. CASE tasks' = tasks
  BY <1>2, <1>6
<1>7. CASE Supersede /\ tasks' # tasks
  <2>1. PICK t \in pass.closing :
          tasks' = [tasks EXCEPT ![t[1]] = [@ EXCEPT !.open = FALSE, !.sup = TRUE, !.key = t[2]]]
    BY <1>7 DEF Supersede, Done, crm
  <2> DEFINE it == [tasks[t[1]] EXCEPT !.open = FALSE, !.sup = TRUE, !.key = t[2]]
  <2>2. t[1] \in DOMAIN tasks => it.made = tasks[t[1]].made
    BY <1>5 DEF Task
  <2>3. tasks' = [tasks EXCEPT ![t[1]] = it]
    BY <2>1
  <2> HIDE DEF it
  <2> QED
    BY <1>4, <2>2, <2>3
<1>8. CASE Act /\ tasks' # tasks
  <2> DEFINE a == pass.last
  <2>1. Reopen(a) \/ Create(a)
    BY <1>8 DEF Act, Done, crm
  <2>2. CASE Reopen(a)
    <3> DEFINE it == [tasks[a.id] EXCEPT !.open = TRUE, !.sup = FALSE, !.key = a.key]
    <3>1. a.id \in DOMAIN tasks => it.made = tasks[a.id].made
      BY <1>5 DEF Task
    <3>2. tasks' = [tasks EXCEPT ![a.id] = it]
      BY <2>2 DEF Reopen
    <3> HIDE DEF it, a
    <3> QED
      BY <1>4, <3>1, <3>2
  <2>3. CASE Create(a)
    BY <1>3, <2>3 DEF Create
  <2> QED
    BY <2>1, <2>2, <2>3
<1>9. CASE PingWrite
  <2>1. CASE hand.task = 0
    BY <1>3, <1>9, <2>1 DEF PingWrite
  <2>2. CASE hand.task # 0
    <3> DEFINE k == hand.task
               it == [tasks[k] EXCEPT !.key = Manual(clock'), !.sup = FALSE]
    <3>1. k \in DOMAIN tasks => it.made = tasks[k].made
      BY <1>5 DEF Task
    <3>2. tasks' = [tasks EXCEPT ![k] = it]
      BY <1>9, <2>2 DEF PingWrite
    <3> HIDE DEF it, k
    <3> QED
      BY <1>4, <3>1, <3>2
  <2> QED
    BY <2>1, <2>2
<1>10. CASE \E t \in DOMAIN tasks : StatusCloses(t) \/ CloseTask(t)
  <2>1. PICK t \in DOMAIN tasks : tasks' = [tasks EXCEPT ![t].open = FALSE]
    BY <1>10 DEF StatusCloses, CloseTask, Closes
  <2> DEFINE it == [tasks[t] EXCEPT !.open = FALSE]
  <2>2. it.made = tasks[t].made
    BY <1>5 DEF Task
  <2>3. tasks' = [tasks EXCEPT ![t] = it]
    BY <2>1
  <2> HIDE DEF it
  <2> QED
    BY <1>4, <2>2, <2>3
<1>11. \/ tasks' = tasks \/ Supersede \/ Act \/ PingWrite
       \/ \E t \in DOMAIN tasks : StatusCloses(t) \/ CloseTask(t)
  BY DEF PingsNext, Reconcile, Ends, Gather, ReadLater, ReadTasks, ReadContact, NoResponse, ReadExtra,
       Responded, Done, Dialog, TheyWrite, WeQueue, DaysPass, Appears, Dropped, Happens, People,
         PingRead,
       StatusRead, StatusWrite, StatusTasks, crm, pingsVars
<1> QED
  BY <1>6, <1>7, <1>8, <1>9, <1>10, <1>11

\* The shape of the state, and its numbers (PingsTypeOK).
THEOREM PingsTypesOK == PingsSpec => []PingsTypeOK
<1>1. PingsInit => PingInv /\ InTime /\ Pending /\ Made
  <2> SUFFICES ASSUME PingsInit PROVE InTime /\ Pending /\ Made
    BY PingInit
  <2>1. /\ clock = 1 /\ acts = 0 /\ events = 0 /\ dialog.pend = {} /\ hand.at = "idle"
             /\ DOMAIN tasks = {}
    BY DEF PingsInit, NewDialog, NoRequest
  <2>2. MaxActs \in Nat /\ MaxEvents \in Nat
    BY PingsAssumption
  <2> QED
    BY <2>1, <2>2 DEF InTime, Asking, Pending, Made
<1>2. PingInv /\ InTime /\ Pending /\ Made /\ [PingsNext]_pingsVars
        => (PingInv /\ InTime /\ Pending /\ Made)'
  BY PingStep, TimeGoesOn, PendingStays, MadeStays
<1>3. PingInv /\ InTime /\ Pending /\ Made => PingsTypeOK
  <2> SUFFICES ASSUME PingInv, InTime, Pending, Made PROVE PingsTypeOK
    OBVIOUS
  <2>1. clock \in 1 .. 1 + MaxEvents + MaxActs
    <3>1. clock \in Nat /\ MaxActs \in Nat /\ MaxEvents \in Nat
      BY PingsAssumption DEF PingInv, PingTyped
    <3> QED
      BY <3>1 DEF InTime
  <2>2. /\ dialog.last \in {None, "in", "out"} /\ dialog.age \in 0 .. 2
        /\ status.is \in LeadStatuses
    BY DEF PingInv, PingTyped, Dialogs, StatusSet
  <2>3. \A i \in DOMAIN tasks : tasks[i].open \in BOOLEAN /\ tasks[i].sup \in BOOLEAN
    BY TasksFacts DEF PingInv, Task
  <2>4. closed \subseteq DOMAIN tasks /\ kept \in Chosen \cup {None}
    BY DEF PingInv, PingTyped
  <2> QED
    BY <2>1, <2>2, <2>3, <2>4 DEF PingsTypeOK, Pending, Made
<1> QED
  BY <1>1, <1>2, <1>3, PTL DEF PingsSpec

-----------------------------------------------------------------------------
(* The research jobs: the shape of the state.                              *)

Dead == {"complete", "failed"}
Marks == {"pending", "running", "complete", "failed"}
Waits == {"posted", "marking", "saving", "final"}

Somebody == Prospect \cup {NoJob.of}
JobSet == [st : Live \cup Dead \cup {"none"}, of : Somebody, resumes : Nat,
           stages : [Stage -> Marks]]
JobTable == [Job -> JobSet]
Pictures == [jobs : JobTable, here : SUBSET Prospect]
WriteSet == [who : Job \cup {Desk}, is : Pictures]

ResearchTyped ==
  /\ jobs \in JobTable /\ here \subseteq Prospect /\ file \in Pictures
  /\ queue \in Seq(Job \cup {Desk}) /\ writing \subseteq WriteSet
  /\ at \in [Job -> {"none", "start", "next", "work", "asked"} \cup Waits]
  /\ waiting \subseteq Job /\ resuming \in Job \cup {Desk}
  /\ paid \in [Job -> [Stage -> Nat]] /\ crashes \in Nat /\ lost \in Nat

-----------------------------------------------------------------------------
(* Numbers, and one job by itself.                                         *)

LEMMA FirstOfLeft ==
  ASSUME NEW it, Left(it) # {}
  PROVE  First(it) \in Left(it) /\ First(it) \in Stage /\ it.stages[First(it)] # "complete"
<1>1. Left(it) \in SUBSET Nat
  BY DEF Left, Stage
<1>2. PICK x \in Left(it) : \A y \in Left(it) : ~(y < x)
  BY <1>1, SmallestIn
<1>3. \A y \in Left(it) : x <= y
  BY <1>1, <1>2
<1>4. First(it) \in Left(it)
  BY <1>3 DEF First
<1> QED
  BY <1>4 DEF Left

LEMMA OneJob ==
  ASSUME NEW it \in JobSet
  PROVE  /\ it.st \in Live \cup Dead \cup {"none"} /\ it.of \in Somebody
         /\ it.resumes \in Nat /\ it.stages \in [Stage -> Marks]
BY DEF JobSet

\* A job whose state and one of whose stages are set.
LEMMA StateSet ==
  ASSUME NEW it \in JobSet, NEW v \in Live \cup Dead \cup {"none"}
  PROVE  LET n == [it EXCEPT !.st = v]
         IN  /\ n \in JobSet /\ n.st = v /\ n.of = it.of /\ n.resumes = it.resumes
             /\ n.stages = it.stages
BY DEF JobSet

LEMMA StageSet ==
  ASSUME NEW it \in JobSet, NEW s \in Stage, NEW m \in Marks
  PROVE  LET n == [it EXCEPT !.stages[s] = m]
         IN  /\ n \in JobSet /\ n.st = it.st /\ n.of = it.of /\ n.resumes = it.resumes
             /\ n.stages[s] = m /\ \A t \in Stage : t # s => n.stages[t] = it.stages[t]
BY DEF JobSet

LEMMA Started ==
  ASSUME NEW it \in JobSet, NEW s \in Stage
  PROVE  LET n == [it EXCEPT !.st = "running", !.stages[s] = "running"]
         IN  /\ n \in JobSet /\ n.st = "running" /\ n.of = it.of /\ n.resumes = it.resumes
             /\ n.stages[s] = "running" /\ \A t \in Stage : t # s => n.stages[t] = it.stages[t]
BY DEF JobSet, Live, Marks

LEMMA Thrown ==
  ASSUME NEW it \in JobSet, NEW s \in Stage
  PROVE  LET n == [it EXCEPT !.st = "failed", !.stages[s] = "failed"]
         IN  /\ n \in JobSet /\ n.st = "failed" /\ n.of = it.of /\ n.resumes = it.resumes
             /\ n.stages[s] = "failed" /\ \A t \in Stage : t # s => n.stages[t] = it.stages[t]
BY DEF JobSet, Dead, Marks

LEMMA NoJobIs ==
  /\ NoJob \in JobSet /\ NoJob.st = "none" /\ NoJob.resumes = 0
  /\ \A s \in Stage : NoJob.stages[s] = "pending"
BY DEF NoJob, JobSet, Somebody, Marks

LEMMA NewJobIs ==
  ASSUME NEW q \in Prospect
  PROVE  /\ NewJob(q) \in JobSet /\ NewJob(q).st = "queued" /\ NewJob(q).of = q
         /\ NewJob(q).resumes = 0 /\ \A s \in Stage : NewJob(q).stages[s] = "pending"
<1>1. q \in Somebody /\ "queued" \in Live \cup Dead \cup {"none"}
  BY DEF Somebody, Live
<1>2. \A o \in JobSet : LET n == [o EXCEPT !.st = "queued", !.of = q]
                        IN  /\ n \in JobSet /\ n.st = "queued" /\ n.of = q
                            /\ n.resumes = o.resumes /\ n.stages = o.stages
  BY <1>1 DEF JobSet
<1> QED
  BY <1>2, NoJobIs DEF NewJob

LEMMA RestoredIs ==
  ASSUME NEW it \in JobSet
  PROVE  /\ Restored(it) \in JobSet /\ Restored(it).of = it.of
         /\ \A s \in Stage : Restored(it).stages[s] = "complete" <=> it.stages[s] = "complete"
         /\ it.st \notin Live => Restored(it) = it
         /\ it.st \in Live =>
              /\ Restored(it).resumes = it.resumes + 1
              /\ Restored(it).st = IF it.resumes < MaxResumes THEN "queued" ELSE "failed"
<1>0. it.resumes \in Nat /\ it.stages \in [Stage -> Marks] /\ it.of \in Somebody
  BY OneJob
<1>1. CASE it.st \notin Live
  BY <1>1 DEF Restored
<1>2. CASE it.st \in Live /\ it.resumes < MaxResumes
  <2>1. Interrupted(it) \in [Stage -> Marks]
    BY <1>0 DEF Interrupted, Marks
  <2>2. \A s \in Stage : Interrupted(it)[s] = "complete" <=> it.stages[s] = "complete"
    BY DEF Interrupted
  <2>3. Restored(it) = [st |-> "queued", of |-> it.of, resumes |-> it.resumes + 1,
                         stages |-> Interrupted(it)]
    BY <1>2, <1>0 DEF Restored, JobSet
  <2> QED
    BY <1>0, <1>2, <2>1, <2>2, <2>3 DEF JobSet, Live
<1>3. CASE it.st \in Live /\ ~(it.resumes < MaxResumes)
  <2> DEFINE over == [s \in Stage |-> IF it.stages[s] = "running" THEN "failed" ELSE it.stages[s]]
  <2>1. over \in [Stage -> Marks] /\ \A s \in Stage : over[s] = "complete" <=> it.stages[s] = "complete"
    BY <1>0 DEF Marks
  <2>2. Restored(it) = [st |-> "failed", of |-> it.of, resumes |-> it.resumes + 1, stages |-> over]
    BY <1>3, <1>0 DEF Restored, JobSet
  <2> HIDE DEF over
  <2> QED
    BY <1>0, <1>3, <2>1, <2>2 DEF JobSet, Dead
<1> QED
  BY <1>1, <1>2, <1>3

-----------------------------------------------------------------------------
(* What was paid: the payments (a stage and the how manieth) of a job, those    *)
(* its stages still owe a result for, and those after the first of a stage.     *)

PaidOf(p) == {x \in Stage \X Nat : 1 <= x[2] /\ x[2] <= p[x[1]]}
OwedOf(it, p) == {x \in PaidOf(p) : x[2] = 1 => it.stages[x[1]] # "complete"}
TwiceOf(p) == {x \in PaidOf(p) : x[2] # 1}

Owed(it, p) == Cardinality(OwedOf(it, p))
Twice(p) == Cardinality(TwiceOf(p))

PaidFor == [Stage -> Nat]
Finite(p) == IsFiniteSet(PaidOf(p))

LEMMA AgainIsTwice ==
  ASSUME NEW j \in Job, paid[j] \in PaidFor
  PROVE  Again(j) = TwiceOf(paid[j])
<1>1. \A s \in Stage : paid[j][s] \in Nat
  BY DEF PaidFor
<1>2. ASSUME NEW x \in Again(j) PROVE x \in TwiceOf(paid[j])
  <2>1. PICK s \in Stage : x \in {s} \X (2 .. paid[j][s])
    BY <1>2 DEF Again
  <2>2. x = <<s, x[2]>> /\ x[1] = s /\ x[2] \in Nat /\ 2 <= x[2] /\ x[2] <= paid[j][s]
    BY <2>1, <1>1
  <2> QED
    BY <2>2 DEF TwiceOf, PaidOf
<1>3. ASSUME NEW x \in TwiceOf(paid[j]) PROVE x \in Again(j)
  <2>1. /\ x \in Stage \X Nat /\ x[1] \in Stage /\ x[2] \in Nat /\ x = <<x[1], x[2]>>
        /\ 2 <= x[2] /\ x[2] <= paid[j][x[1]]
    BY <1>3 DEF TwiceOf, PaidOf
  <2>2. x \in {x[1]} \X (2 .. paid[j][x[1]])
    BY <2>1, <1>1
  <2> QED
    BY <2>1, <2>2 DEF Again
<1> QED
  BY <1>2, <1>3

LEMMA Counted ==
  ASSUME NEW p \in PaidFor, Finite(p), NEW it
  PROVE  /\ IsFiniteSet(OwedOf(it, p)) /\ IsFiniteSet(TwiceOf(p))
         /\ Owed(it, p) \in Nat /\ Twice(p) \in Nat /\ Twice(p) <= Owed(it, p)
<1>1. OwedOf(it, p) \in SUBSET PaidOf(p) /\ TwiceOf(p) \in SUBSET OwedOf(it, p)
  BY DEF OwedOf, TwiceOf
<1>2. IsFiniteSet(OwedOf(it, p))
  BY <1>1, FS_Subset DEF Finite
<1>3. IsFiniteSet(TwiceOf(p)) /\ Cardinality(TwiceOf(p)) <= Cardinality(OwedOf(it, p))
  BY <1>1, <1>2, FS_Subset
<1> QED
  BY <1>2, <1>3, FS_CardinalityType DEF Owed, Twice

\* What a job owes depends on which of its stages are complete; the fewer, the more.
LEMMA OwedLess ==
  ASSUME NEW p \in PaidFor, Finite(p), NEW o, NEW n,
         \A s \in Stage : o.stages[s] = "complete" => n.stages[s] = "complete"
  PROVE  Owed(n, p) <= Owed(o, p)
<1>1. OwedOf(n, p) \in SUBSET OwedOf(o, p)
  BY DEF OwedOf, PaidOf
<1> QED
  BY <1>1, Counted, FS_Subset DEF Owed

\* A stage that was paid and is not complete is owed once, however often it was paid.
LEMMA OwedOnce ==
  ASSUME NEW p \in PaidFor, Finite(p), NEW o, NEW s \in Stage, o.stages[s] # "complete", p[s] >= 1
  PROVE  /\ Twice(p) + 1 <= Owed(o, p)
         /\ \A n : /\ \A t \in Stage : o.stages[t] = "complete" => n.stages[t] = "complete"
                   /\ n.stages[s] = "complete"
                  => Owed(n, p) + 1 <= Owed(o, p)
<1> DEFINE x == <<s, 1>>
           Rest == OwedOf(o, p) \ {x}
<1>1. x \in OwedOf(o, p) /\ x \notin TwiceOf(p)
  BY DEF OwedOf, PaidOf, TwiceOf, PaidFor
<1>2. IsFiniteSet(Rest) /\ Cardinality(Rest) = Owed(o, p) - 1 /\ Owed(o, p) \in Nat
  BY <1>1, Counted, FS_RemoveElement DEF Owed
<1>3. TwiceOf(p) \in SUBSET Rest
  BY <1>1 DEF TwiceOf, OwedOf
<1>4. Cardinality(TwiceOf(p)) <= Cardinality(Rest)
  BY <1>2, <1>3, FS_Subset
<1>5. Twice(p) + 1 <= Owed(o, p)
  BY <1>2, <1>4, Counted DEF Twice
<1>6. ASSUME NEW n, \A t \in Stage : o.stages[t] = "complete" => n.stages[t] = "complete",
             n.stages[s] = "complete"
      PROVE  Owed(n, p) + 1 <= Owed(o, p)
  <2>1. OwedOf(n, p) \in SUBSET Rest
    BY <1>6 DEF OwedOf, PaidOf
  <2>2. Cardinality(OwedOf(n, p)) <= Cardinality(Rest)
    BY <1>2, <2>1, FS_Subset
  <2>3. Owed(n, p) \in Nat
    BY Counted
  <2> QED
    BY <1>2, <2>2, <2>3 DEF Owed
<1> QED
  BY <1>5, <1>6

\* One payment more.
LEMMA PaidMore ==
  ASSUME NEW p \in PaidFor, Finite(p), NEW s \in Stage, NEW q, q = [p EXCEPT ![s] = @ + 1]
  PROVE  /\ q \in PaidFor /\ Finite(q) /\ q[s] >= 1
         /\ \A it : Owed(it, q) <= Owed(it, p) + 1
<1> DEFINE x == <<s, p[s] + 1>>
<1>1. q \in PaidFor /\ q[s] = p[s] + 1 /\ p[s] \in Nat /\ \A t \in Stage : t # s => q[t] = p[t]
  BY DEF PaidFor
<1>2. PaidOf(q) = PaidOf(p) \cup {x}
  <2>1. ASSUME NEW y \in PaidOf(q) PROVE y \in PaidOf(p) \cup {x}
    <3>1. y \in Stage \X Nat /\ 1 <= y[2] /\ y[2] <= q[y[1]] /\ y = <<y[1], y[2]>>
          /\ y[1] \in Stage /\ y[2] \in Nat
      BY <2>1 DEF PaidOf
    <3>2. CASE y[1] # s
      BY <3>1, <3>2, <1>1 DEF PaidOf
    <3>3. CASE y[1] = s /\ y[2] <= p[s]
      BY <3>1, <3>3 DEF PaidOf
    <3>4. CASE y[1] = s /\ ~(y[2] <= p[s])
      <4>1. y[2] = p[s] + 1
        BY <3>1, <3>4, <1>1
      <4> QED
        BY <4>1, <3>1, <3>4
    <3> QED
      BY <3>2, <3>3, <3>4
  <2>2. x \in PaidOf(q)
    BY <1>1 DEF PaidOf
  <2>3. ASSUME NEW y \in PaidOf(p) PROVE y \in PaidOf(q)
    <3>1. y \in Stage \X Nat /\ 1 <= y[2] /\ y[2] <= p[y[1]] /\ y[1] \in Stage /\ y[2] \in Nat
      BY <2>3 DEF PaidOf
    <3>2. p[y[1]] <= q[y[1]] /\ p[y[1]] \in Nat /\ q[y[1]] \in Nat
      BY <3>1, <1>1 DEF PaidFor
    <3>3. y[2] <= q[y[1]]
      BY <3>1, <3>2
    <3> QED
      BY <3>1, <3>3 DEF PaidOf
  <2> QED
    BY <2>1, <2>2, <2>3
<1>3. Finite(q)
  <2>1. IsFiniteSet(PaidOf(p))
    BY DEF Finite
  <2> HIDE DEF x
  <2>2. IsFiniteSet(PaidOf(p) \cup {x})
    BY <2>1, FS_AddElement
  <2> QED
    BY <1>2, <2>2 DEF Finite
<1>4. ASSUME NEW it PROVE Owed(it, q) <= Owed(it, p) + 1
  <2>1. OwedOf(it, q) \in SUBSET (OwedOf(it, p) \cup {x})
    BY <1>2 DEF OwedOf
  <2>2. /\ IsFiniteSet(OwedOf(it, p) \cup {x})
        /\ Cardinality(OwedOf(it, p) \cup {x}) <= Owed(it, p) + 1
        /\ Cardinality(OwedOf(it, p) \cup {x}) \in Nat
    <3> HIDE DEF x
    <3>1. IsFiniteSet(OwedOf(it, p)) /\ Cardinality(OwedOf(it, p)) \in Nat
      BY Counted DEF Owed
    <3>2. /\ IsFiniteSet(OwedOf(it, p) \cup {x})
          /\ Cardinality(OwedOf(it, p) \cup {x}) =
               IF x \in OwedOf(it, p) THEN Cardinality(OwedOf(it, p))
               ELSE Cardinality(OwedOf(it, p)) + 1
      BY <3>1, FS_AddElement
    <3> QED
      BY <3>1, <3>2 DEF Owed
  <2>3. Cardinality(OwedOf(it, q)) <= Cardinality(OwedOf(it, p) \cup {x})
    BY <2>1, <2>2, FS_Subset
  <2>4. Owed(it, q) \in Nat /\ Owed(it, p) \in Nat
    BY <1>1, <1>3, Counted
  <2> QED
    BY <2>2, <2>3, <2>4 DEF Owed
<1>5. q[s] >= 1
  BY <1>1
<1> HIDE DEF x
<1> QED
  BY <1>1, <1>3, <1>4, <1>5

-----------------------------------------------------------------------------
(* What a job may have cost: the job of the process, and that of a picture of   *)
(* the state, which may be one payment behind.                                  *)

\* more: a stage has been paid and has not ended
NowOK(it, p, more, missed) ==
  /\ it.st = "none" => Owed(it, p) <= missed
  /\ it.st \in Live => Owed(it, p) <= it.resumes + missed + more
  /\ it.st \in Dead => Twice(p) <= it.resumes + missed

\* more: a stage is about to be paid
PictureOK(it, p, more, missed) ==
  /\ it.st = "none" => Owed(it, p) + more <= missed
  /\ it.st \in Live => Owed(it, p) + more <= it.resumes + 1 + missed
  /\ it.st \in Dead => Twice(p) <= it.resumes + missed

LEMMA StatesApart ==
  /\ \A v \in Live : v \notin Dead /\ v # "none"
  /\ \A v \in Dead : v \notin Live /\ v # "none"
  /\ "none" \notin Live /\ "none" \notin Dead
BY DEF Live, Dead

LEMMA CostOfPicture ==
  ASSUME NEW it \in JobSet, NEW p \in PaidFor, Finite(p), NEW missed \in Nat
  PROVE  /\ PictureOK(it, p, 1, missed) => PictureOK(it, p, 0, missed)
         /\ PictureOK(it, p, 0, missed) => PictureOK(it, p, 1, missed + 1)
         /\ PictureOK(it, p, 0, missed) => PictureOK(it, p, 0, missed + 1)
         /\ NowOK(it, p, 0, missed) => NowOK(it, p, 0, missed + 1)
         /\ NowOK(it, p, 1, missed) => NowOK(it, p, 1, missed + 1)
         /\ NowOK(it, p, 0, missed) => NowOK(it, p, 1, missed) /\ PictureOK(it, p, 0, missed)
         /\ NowOK(it, p, 1, missed) => PictureOK(it, p, 0, missed)
         /\ it.st \in Live /\ NowOK(it, p, 0, missed) => PictureOK(it, p, 1, missed)
<1>1. Owed(it, p) \in Nat /\ Twice(p) \in Nat /\ it.resumes \in Nat
  BY Counted, OneJob
<1> QED
  BY <1>1, StatesApart DEF NowOK, PictureOK

\* A restart takes up what the file holds.
LEMMA CostOfRestart ==
  ASSUME NEW it \in JobSet, NEW p \in PaidFor, Finite(p), NEW missed \in Nat, MaxResumes \in Nat,
         PictureOK(it, p, 0, missed)
  PROVE  NowOK(Restored(it), p, 0, missed)
<1>1. /\ Owed(it, p) \in Nat /\ Twice(p) \in Nat /\ it.resumes \in Nat
      /\ Restored(it) \in JobSet /\ Owed(Restored(it), p) \in Nat
      /\ Twice(p) <= Owed(it, p)
  BY Counted, OneJob, RestoredIs
<1>2. CASE it.st \notin Live
  <2>1. Restored(it) = it
    BY <1>2, RestoredIs
  <2> QED
    BY <1>1, <1>2, <2>1 DEF NowOK, PictureOK
<1>3. CASE it.st \in Live
  <2>1. /\ Restored(it).resumes = it.resumes + 1
        /\ Restored(it).st \in {"queued", "failed"}
    BY <1>3, RestoredIs
  <2>2. Owed(Restored(it), p) <= Owed(it, p)
    BY RestoredIs, OwedLess
  <2>3. Owed(it, p) <= it.resumes + 1 + missed
    BY <1>1, <1>3 DEF PictureOK
  <2> QED
    BY <1>1, <2>1, <2>2, <2>3 DEF NowOK, Live, Dead
<1> QED
  BY <1>2, <1>3

\* A payment for a stage that is not complete.
LEMMA CostOfWork ==
  ASSUME NEW p \in PaidFor, Finite(p), NEW missed \in Nat, NEW s \in Stage,
         NEW q, q = [p EXCEPT ![s] = @ + 1]
  PROVE  /\ \A it \in JobSet : it.st \notin Dead /\ PictureOK(it, p, 1, missed)
                                => PictureOK(it, q, 0, missed)
         /\ \A it \in JobSet : it.st \in Live /\ it.stages[s] # "complete" /\ NowOK(it, p, 0, missed)
                                => NowOK(it, q, 1, missed) /\ Twice(q) <= it.resumes + missed
<1>1. /\ q \in PaidFor /\ Finite(q) /\ q[s] >= 1
      /\ \A it : Owed(it, q) <= Owed(it, p) + 1
  BY PaidMore
<1>2. ASSUME NEW it \in JobSet, it.st \notin Dead, PictureOK(it, p, 1, missed)
      PROVE  PictureOK(it, q, 0, missed)
  <2>1. Owed(it, q) \in Nat /\ Owed(it, p) \in Nat /\ it.resumes \in Nat
    BY <1>1, Counted, OneJob
  <2>2. Owed(it, q) <= Owed(it, p) + 1
    BY <1>1
  <2> QED
    BY <1>2, <2>1, <2>2 DEF PictureOK
<1>3. ASSUME NEW it \in JobSet, it.st \in Live, it.stages[s] # "complete", NowOK(it, p, 0, missed)
      PROVE  NowOK(it, q, 1, missed) /\ Twice(q) <= it.resumes + missed
  <2>1. Owed(it, q) \in Nat /\ Owed(it, p) \in Nat /\ it.resumes \in Nat /\ Twice(q) \in Nat
    BY <1>1, Counted, OneJob
  <2>2. Owed(it, q) <= Owed(it, p) + 1 /\ Owed(it, p) <= it.resumes + missed
    <3>1. Owed(it, p) <= it.resumes + missed + 0
      BY <1>3 DEF NowOK
    <3>2. Owed(it, q) <= Owed(it, p) + 1
      BY <1>1
    <3> QED
      BY <2>1, <3>1, <3>2
  <2>3. Twice(q) + 1 <= Owed(it, q)
    BY <1>1, <1>3, OwedOnce
  <2> QED
    BY <1>3, <2>1, <2>2, <2>3, StatesApart DEF NowOK
<1> QED
  BY <1>2, <1>3

\* Newer: what a newer state of a job keeps of an older one.
Newer(o, n) ==
  /\ o.st # "none" => n.st # "none"
  /\ o.st \in Dead => n.st \in Dead
  /\ \A s \in Stage : o.stages[s] = "complete" => n.stages[s] = "complete"

LEMMA NewerIs ==
  /\ \A o : Newer(o, o)
  /\ \A o, m, n : Newer(o, m) /\ Newer(m, n) => Newer(o, n)
  /\ \A o \in JobSet : Newer(o, Restored(o))
<1>1. ASSUME NEW o \in JobSet PROVE Newer(o, Restored(o))
  <2>1. /\ \A s \in Stage : Restored(o).stages[s] = "complete" <=> o.stages[s] = "complete"
        /\ o.st \notin Live => Restored(o) = o
        /\ o.st \in Live => Restored(o).st \in {"queued", "failed"}
    BY RestoredIs
  <2>2. CASE o.st \in Live
    BY <2>1, <2>2, StatesApart DEF Newer
  <2>3. CASE o.st \notin Live
    BY <2>1, <2>3 DEF Newer
  <2> QED
    BY <2>2, <2>3
<1> QED
  BY <1>1 DEF Newer

-----------------------------------------------------------------------------
(* What holds of the jobs, of the file and of every picture under way.          *)

Held == {file} \cup {w.is : w \in writing}
Asked(j) == IF at[j] = "asked" THEN 1 ELSE 0
ToPay(j) == IF at[j] = "work" THEN 1 ELSE 0

PlainJob(it) ==
  /\ it.st = "none" => it.resumes = 0 /\ \A s \in Stage : it.stages[s] # "complete"
  /\ it.st \in Live => it.resumes <= MaxResumes
  /\ it.resumes <= MaxResumes + 1
AllPlain == \A j \in Job : PlainJob(jobs[j]) /\ \A f \in Held : PlainJob(f.jobs[j])

\* Where the code of a job is says what the job looks like.
PlaceOK(it, place) ==
  /\ place \in {"posted", "start"} => it.st = "queued"
  /\ place \in {"marking", "work", "asked"} => it.st = "running" /\ Left(it) # {}
  /\ place \in {"saving", "next"} => it.st = "running"
  /\ place = "final" => it.st \in Dead
AllPlaced == \A j \in Job : /\ PlaceOK(jobs[j], at[j])
                            /\ j \in waiting => at[j] = "none" /\ jobs[j].st = "queued"

\* Who waits for a write waits once; what is written of who waits for it is the latest,
\* and so is what is written of a job whose stage is under way.
QueueWaits == \A a \in DOMAIN queue : queue[a] \in Job => at[queue[a]] \in Waits
QueueOnce == \A a, b \in DOMAIN queue : queue[a] \in Job /\ queue[a] = queue[b] => a = b
OneWrites == \A v, w \in writing : v = w
WriterWaits ==
  \A w \in writing : w.who \in Job => /\ at[w.who] \in Waits
                                      /\ \A a \in DOMAIN queue : queue[a] # w.who
                                      /\ w.is.jobs[w.who] = jobs[w.who]
WorkWritten ==
  \A w \in writing, j \in Job : at[j] \in {"work", "asked"} => w.is.jobs[j] = jobs[j]
InLine == QueueWaits /\ QueueOnce /\ OneWrites /\ WriterWaits /\ WorkWritten

\* The file is older than what is written, and that than the state.
InOrder == \A j \in Job : /\ \A f \in Held : Newer(f.jobs[j], jobs[j])
                          /\ \A w \in writing : Newer(file.jobs[j], w.is.jobs[j])

Alone(js) == \A i, j \in Job : /\ js[i].st \in Live /\ js[j].st \in Live
                               /\ js[i].of = js[j].of
                              => i = j
AllAlone == Alone(jobs) /\ \A f \in Held : Alone(f.jobs)

CostOK(j) ==
  /\ Finite(paid[j]) /\ NowOK(jobs[j], paid[j], Asked(j), lost)
  /\ at[j] = "asked" => paid[j][First(jobs[j])] >= 1
  /\ \A f \in Held : PictureOK(f.jobs[j], paid[j], 0, lost)
  /\ PictureOK(file.jobs[j], paid[j], ToPay(j), lost)
  /\ Twice(paid[j]) <= MaxResumes + lost
AllPaid == \A j \in Job : CostOK(j)

JobsInv == ResearchTyped /\ AllPlain /\ AllPlaced /\ InLine /\ InOrder /\ AllAlone /\ AllPaid

LEMMA Shapes ==
  ASSUME ResearchTyped
  PROVE  /\ \A j \in Job : jobs[j] \in JobSet /\ paid[j] \in PaidFor
         /\ file.jobs \in JobTable /\ \A j \in Job : file.jobs[j] \in JobSet
         /\ \A w \in writing : /\ w.who \in Job \cup {Desk} /\ w.is \in Pictures
                               /\ w.is.jobs \in JobTable
         /\ \A f \in Held : f \in Pictures /\ f.jobs \in JobTable /\ \A j \in Job : f.jobs[j] \in JobSet
         /\ Len(queue) \in Nat /\ DOMAIN queue = 1 .. Len(queue)
         /\ \A a \in DOMAIN queue : queue[a] \in Job \cup {Desk}
BY DEF ResearchTyped, JobTable, PaidFor, Pictures, WriteSet, Held

LEMMA Queued ==
  ASSUME ResearchTyped, NEW who \in Job \cup {Desk}, queue' = Append(queue, who)
  PROVE  /\ queue' \in Seq(Job \cup {Desk})
         /\ DOMAIN queue' = DOMAIN queue \cup {Len(queue) + 1}
         /\ Len(queue) + 1 \notin DOMAIN queue
         /\ queue'[Len(queue) + 1] = who /\ \A a \in DOMAIN queue : queue'[a] = queue[a]
BY DEF ResearchTyped

\* Every step of a job but the one that pays: it comes to wait for a write.
Moves(j, new, place) ==
  /\ j \in Job /\ new \in JobSet /\ place \in Waits /\ at[j] \notin Waits /\ j \notin waiting
  /\ jobs' = [jobs EXCEPT ![j] = new] /\ at' = [at EXCEPT ![j] = place]
  /\ queue' = Append(queue, j)
  /\ UNCHANGED <<here, file, writing, waiting, resuming, paid, crashes, lost>>
  /\ Newer(jobs[j], new) /\ PlainJob(new) /\ PlaceOK(new, place) /\ new.st # "none"
  /\ NowOK(new, paid[j], 0, lost)
  /\ new.st \in Live => \/ jobs[j].st \in Live /\ new.of = jobs[j].of
                        \/ \A i \in Job : jobs[i].st \in Live => jobs[i].of # new.of
  /\ place = "posted" \/ (jobs[j].st # "none" /\ at[j] # "posted")

LEMMA MovesKeeps ==
  ASSUME JobsInv, NEW j, NEW new, NEW place, Moves(j, new, place)
  PROVE  JobsInv'
<1> USE DEF JobsInv
<1>0. /\ j \in Job /\ new \in JobSet /\ place \in Waits /\ at[j] \notin Waits /\ j \notin waiting
      /\ jobs' = [jobs EXCEPT ![j] = new] /\ at' = [at EXCEPT ![j] = place]
      /\ queue' = Append(queue, j)
      /\ UNCHANGED <<here, file, writing, waiting, resuming, paid, crashes, lost>>
  BY DEF Moves
<1>1. /\ jobs' \in JobTable /\ jobs'[j] = new /\ \A i \in Job : i # j => jobs'[i] = jobs[i]
      /\ at'[j] = place /\ \A i \in Job : i # j => at'[i] = at[i]
      /\ at' \in [Job -> {"none", "start", "next", "work", "asked"} \cup Waits]
      /\ place \notin {"none", "start", "next", "work", "asked"}
  BY <1>0 DEF ResearchTyped, JobTable, Waits
<1>2. /\ queue' \in Seq(Job \cup {Desk})
      /\ DOMAIN queue' = DOMAIN queue \cup {Len(queue) + 1} /\ Len(queue) + 1 \notin DOMAIN queue
      /\ queue'[Len(queue) + 1] = j /\ \A a \in DOMAIN queue : queue'[a] = queue[a]
  BY <1>0, Queued
<1>3. ResearchTyped'
  BY <1>0, <1>1, <1>2 DEF ResearchTyped
<1>4. Held' = Held
  BY <1>0 DEF Held
<1>5. AllPlain'
  BY <1>1, <1>4 DEF AllPlain, Moves
<1>6. AllPlaced'
  BY <1>0, <1>1 DEF AllPlaced, Moves
<1>7. InLine'
  <2>1. QueueWaits'
    BY <1>0, <1>1, <1>2 DEF InLine, QueueWaits
  <2>2. \A a \in DOMAIN queue : queue[a] # j
    BY <1>0 DEF InLine, QueueWaits
  <2>3. QueueOnce'
    BY <1>2, <2>2 DEF InLine, QueueOnce
  <2>4. OneWrites'
    BY <1>0 DEF InLine, OneWrites
  <2>5. \A w \in writing : w.who # j
    BY <1>0 DEF InLine, WriterWaits
  <2>6. WriterWaits'
    BY <1>0, <1>1, <1>2, <2>5 DEF InLine, WriterWaits
  <2>7. WorkWritten'
    BY <1>0, <1>1 DEF InLine, WorkWritten
  <2> QED
    BY <2>1, <2>3, <2>4, <2>6, <2>7 DEF InLine
<1>8. InOrder'
  <2>1. \A i \in Job : Newer(jobs[i], jobs'[i])
    BY <1>1, NewerIs DEF Moves
  <2>2. \A i \in Job, f \in Held : Newer(f.jobs[i], jobs'[i])
    BY <2>1, NewerIs DEF InOrder
  <2> QED
    BY <1>0, <1>4, <2>2 DEF InOrder
<1>9. AllAlone'
  <2>1. Alone(jobs')
    BY <1>0, <1>1 DEF Moves, AllAlone, Alone
  <2> QED
    BY <1>4, <2>1 DEF AllAlone, Alone
<1>10. AllPaid'
  <2> SUFFICES ASSUME NEW i \in Job PROVE CostOK(i)'
    BY DEF AllPaid
  <2>0. CostOK(i)
    BY DEF AllPaid
  <2>1. CASE i # j
    BY <2>0, <2>1, <1>0, <1>1, <1>4 DEF CostOK, Asked, ToPay
  <2>2. CASE i = j
    <3>1. Asked(j)' = 0 /\ ToPay(j)' = 0
      BY <1>1 DEF Asked, ToPay
    <3>2. NowOK(jobs'[j], paid[j], 0, lost)
      BY <1>1 DEF Moves
    <3>3. PictureOK(file.jobs[j], paid[j], 0, lost)
      BY <2>0, <2>2 DEF CostOK, Held
    <3> QED
      BY <2>0, <2>2, <3>1, <3>2, <3>3, <1>0, <1>1, <1>4 DEF CostOK
  <2> QED
    BY <2>1, <2>2
<1> QED
  BY <1>3, <1>5, <1>6, <1>7, <1>8, <1>9, <1>10


LEMMA PostMoves ==
  ASSUME JobsInv, NEW j \in Job, NEW q \in Prospect, Post(j, q)
  PROVE  Moves(j, NewJob(q), "posted")
<1> DEFINE new == NewJob(q)
<1>1. /\ jobs[j].st = "none" /\ ~HasJob(q) /\ jobs' = [jobs EXCEPT ![j] = new]
      /\ at' = [at EXCEPT ![j] = "posted"] /\ queue' = Append(queue, j)
      /\ UNCHANGED <<here, file, writing, waiting, resuming, paid, crashes, lost>>
  BY DEF Post, Put, Saved, GoTo, Save, countVars
<1>2. /\ new \in JobSet /\ new.st = "queued" /\ new.of = q /\ new.resumes = 0
      /\ \A s \in Stage : new.stages[s] = "pending"
  BY NewJobIs
<1>3. /\ jobs[j] \in JobSet /\ paid[j] \in PaidFor /\ Finite(paid[j]) /\ lost \in Nat
      /\ NowOK(jobs[j], paid[j], Asked(j), lost) /\ PlainJob(jobs[j]) /\ PlaceOK(jobs[j], at[j])
  BY Shapes DEF JobsInv, ResearchTyped, AllPaid, CostOK, AllPlain, AllPlaced
<1>4. at[j] \notin Waits /\ j \notin waiting
  <2>1. "none" \notin Dead /\ "none" # "queued" /\ "none" # "running"
    BY DEF Dead
  <2> QED
    BY <1>1, <1>3, <2>1 DEF PlaceOK, Waits, JobsInv, AllPlaced
<1>5. Newer(jobs[j], new) /\ PlainJob(new) /\ PlaceOK(new, "posted") /\ new.st # "none"
  <2>1. \A s \in Stage : jobs[j].stages[s] # "complete"
    BY <1>1, <1>3 DEF PlainJob
  <2>2. MaxResumes \in Nat
    BY ResearchAssumption
  <2>3. 0 <= MaxResumes
    BY <2>2
  <2> HIDE DEF new
  <2>4. Newer(jobs[j], new)
    BY <1>1, <1>2, <2>1, StatesApart DEF Newer
  <2>5. PlainJob(new)
    BY <1>2, <2>2, <2>3 DEF PlainJob
  <2> QED
    BY <1>2, <2>4, <2>5 DEF PlaceOK
<1>6. NowOK(new, paid[j], 0, lost)
  <2> HIDE DEF new
  <2>1. Owed(new, paid[j]) <= Owed(jobs[j], paid[j])
    <3>1. \A s \in Stage : jobs[j].stages[s] # "complete"
      BY <1>1, <1>3 DEF PlainJob
    <3> QED
      BY <1>3, <3>1, OwedLess
  <2>2. Owed(jobs[j], paid[j]) <= lost /\ Owed(jobs[j], paid[j]) \in Nat /\ Owed(new, paid[j]) \in Nat
    BY <1>1, <1>3, Counted DEF NowOK
  <2>3. Owed(new, paid[j]) <= new.resumes + lost + 0
    BY <1>2, <1>3, <2>1, <2>2
  <2> QED
    BY <1>2, <2>3 DEF NowOK, Live, Dead
<1>7. \A i \in Job : jobs[i].st \in Live => jobs[i].of # new.of
  BY <1>1, <1>2 DEF HasJob
<1> HIDE DEF new
<1>8. Moves(j, new, "posted")
  BY <1>1, <1>2, <1>4, <1>5, <1>6, <1>7 DEF Moves, Waits
<1> QED
  BY <1>8 DEF new

LEMMA ContinueMoves ==
  ASSUME JobsInv, NEW j \in Job, at[j] \in {"start", "next"}, Continue(j, jobs[j])
  PROVE  \E new, place : Moves(j, new, place)
<1> DEFINE it == jobs[j]
           s == First(it)
           over == [it EXCEPT !.st = "complete"]
           on == [it EXCEPT !.st = "running", !.stages[s] = "running"]
<1>1. /\ it \in JobSet /\ paid[j] \in PaidFor /\ Finite(paid[j]) /\ lost \in Nat
      /\ NowOK(it, paid[j], Asked(j), lost) /\ PlainJob(it) /\ PlaceOK(it, at[j])
  BY Shapes DEF JobsInv, ResearchTyped, AllPaid, CostOK, AllPlain, AllPlaced
<1>2. it.st \in Live /\ at[j] \notin Waits /\ j \notin waiting /\ Asked(j) = 0
  BY <1>1 DEF PlaceOK, Live, Waits, Asked, JobsInv, AllPlaced
<1>3. /\ Owed(it, paid[j]) <= it.resumes + lost + 0 /\ it.resumes <= MaxResumes
      /\ Owed(it, paid[j]) \in Nat /\ Twice(paid[j]) \in Nat /\ Twice(paid[j]) <= Owed(it, paid[j])
      /\ it.resumes \in Nat
  BY <1>1, <1>2, Counted, OneJob DEF NowOK, PlainJob
<1>4. /\ queue' = Append(queue, j)
      /\ UNCHANGED <<here, file, writing, waiting, resuming, paid, crashes, lost>>
  BY DEF Continue, Save, countVars
<1>5. CASE Left(it) = {}
  <2>1. jobs' = [jobs EXCEPT ![j] = over] /\ at' = [at EXCEPT ![j] = "final"]
    BY <1>5 DEF Continue, Put, GoTo
  <2>2. /\ over \in JobSet /\ over.st = "complete" /\ over.of = it.of /\ over.resumes = it.resumes
        /\ over.stages = it.stages
    BY <1>1, StateSet DEF Dead
  <2> HIDE DEF over, it
  <2>3. Newer(it, over) /\ PlainJob(over) /\ PlaceOK(over, "final") /\ over.st # "none"
    BY <1>1, <1>2, <2>2 DEF Newer, PlainJob, PlaceOK, Live, Dead
  <2>4. NowOK(over, paid[j], 0, lost)
    <3>1. Twice(paid[j]) <= over.resumes + lost
      BY <1>1, <1>3, <2>2
    <3> QED
      BY <2>2, <3>1 DEF NowOK, Live
  <2>5. over.st \notin Live /\ it.st # "none"
    BY <1>2, <2>2 DEF Live
  <2>6. it = jobs[j]
    BY DEF it
  <2>7. Moves(j, over, "final")
    BY <1>2, <1>4, <2>1, <2>2, <2>3, <2>4, <2>5, <2>6 DEF Moves, Waits
  <2> QED
    BY <2>7
<1>6. CASE Left(it) # {}
  <2>1. jobs' = [jobs EXCEPT ![j] = on] /\ at' = [at EXCEPT ![j] = "marking"]
    BY <1>6 DEF Continue, Put, GoTo
  <2>2. s \in Left(it) /\ s \in Stage /\ it.stages[s] # "complete"
    <3> HIDE DEF it
    <3> QED
      BY <1>6, FirstOfLeft
  <2>3. /\ on \in JobSet /\ on.st = "running" /\ on.of = it.of /\ on.resumes = it.resumes
        /\ on.stages[s] = "running" /\ \A t \in Stage : t # s => on.stages[t] = it.stages[t]
    <3> HIDE DEF it, s
    <3> QED
      BY <1>1, <2>2, Started
  <2>4. it = jobs[j]
    OBVIOUS
  <2> HIDE DEF on, it, s
  <2>5. \A t \in Stage : it.stages[t] = "complete" => on.stages[t] = "complete"
    BY <2>2, <2>3
  <2>6. Newer(it, on) /\ PlainJob(on) /\ PlaceOK(on, "marking") /\ on.st # "none"
    <3>1. Left(on) # {}
      BY <2>2, <2>3 DEF Left
    <3>2. PlaceOK(on, "marking")
      BY <2>3, <3>1 DEF PlaceOK
    <3>3. Newer(it, on)
      BY <1>2, <2>3, <2>5, StatesApart DEF Newer
    <3>4. PlainJob(on)
      BY <1>1, <1>3, <2>3 DEF PlainJob
    <3> QED
      BY <2>3, <3>2, <3>3, <3>4
  <2>7. NowOK(on, paid[j], 0, lost)
    <3>1. Owed(on, paid[j]) <= Owed(it, paid[j]) /\ Owed(on, paid[j]) \in Nat
      BY <1>1, <2>5, OwedLess, Counted
    <3>2. Owed(on, paid[j]) <= on.resumes + lost + 0
      BY <1>1, <1>3, <2>3, <3>1
    <3> QED
      BY <2>3, <3>2 DEF NowOK, Dead
  <2>8. Moves(j, on, "marking")
    BY <1>2, <1>4, <2>1, <2>3, <2>4, <2>6, <2>7, StatesApart DEF Moves, Waits
  <2> QED
    BY <2>8
<1> QED
  BY <1>5, <1>6

LEMMA NobodyMoves ==
  ASSUME JobsInv, NEW j \in Job, NobodyLeft(j)
  PROVE  \E new, place : Moves(j, new, place)
<1> DEFINE it == jobs[j]
           over == [it EXCEPT !.st = "failed"]
<1>1. /\ it \in JobSet /\ paid[j] \in PaidFor /\ Finite(paid[j]) /\ lost \in Nat
      /\ NowOK(it, paid[j], Asked(j), lost) /\ PlainJob(it) /\ PlaceOK(it, at[j])
  BY Shapes DEF JobsInv, ResearchTyped, AllPaid, CostOK, AllPlain, AllPlaced
<1>2. it.st \in Live /\ at[j] \notin Waits /\ j \notin waiting /\ Asked(j) = 0
  BY <1>1 DEF NobodyLeft, PlaceOK, Live, Waits, Asked, JobsInv, AllPlaced
<1>3. /\ Owed(it, paid[j]) <= it.resumes + lost + 0
      /\ Owed(it, paid[j]) \in Nat /\ Twice(paid[j]) \in Nat /\ Twice(paid[j]) <= Owed(it, paid[j])
      /\ it.resumes \in Nat
  BY <1>1, <1>2, Counted, OneJob DEF NowOK
<1>4. /\ queue' = Append(queue, j) /\ jobs' = [jobs EXCEPT ![j] = over]
      /\ at' = [at EXCEPT ![j] = "final"]
      /\ UNCHANGED <<here, file, writing, waiting, resuming, paid, crashes, lost>>
  BY DEF NobodyLeft, Put, GoTo, Save, countVars
<1>5. /\ over \in JobSet /\ over.st = "failed" /\ over.of = it.of /\ over.resumes = it.resumes
      /\ over.stages = it.stages
  BY <1>1, StateSet DEF Dead
<1>6. it = jobs[j]
  OBVIOUS
<1> HIDE DEF over, it
<1>7. Newer(it, over) /\ PlainJob(over) /\ PlaceOK(over, "final") /\ over.st # "none"
  BY <1>1, <1>2, <1>5 DEF Newer, PlainJob, PlaceOK, Live, Dead
<1>8. NowOK(over, paid[j], 0, lost)
  <2>1. Twice(paid[j]) <= over.resumes + lost
    BY <1>1, <1>3, <1>5
  <2> QED
    BY <1>5, <2>1 DEF NowOK, Live
<1>9. over.st \notin Live /\ it.st # "none"
  BY <1>2, <1>5 DEF Live
<1>10. Moves(j, over, "final")
  BY <1>2, <1>4, <1>5, <1>6, <1>7, <1>8, <1>9 DEF Moves, Waits
<1> QED
  BY <1>10

\* The end of a stage, found or thrown: what it cost is no more than what was owed.
LEMMA FoundMoves ==
  ASSUME JobsInv, NEW j \in Job, Found(j) \/ Throws(j)
  PROVE  \E new, place : Moves(j, new, place)
<1> DEFINE it == jobs[j]
           s == First(it)
           done == [it EXCEPT !.stages[s] = "complete"]
           over == [it EXCEPT !.st = "failed", !.stages[s] = "failed"]
<1>0. at[j] = "asked"
  BY DEF Found, Throws
<1>1. /\ it \in JobSet /\ paid[j] \in PaidFor /\ Finite(paid[j]) /\ lost \in Nat
      /\ NowOK(it, paid[j], Asked(j), lost) /\ PlainJob(it) /\ PlaceOK(it, at[j])
      /\ paid[j][s] >= 1
  BY <1>0, Shapes DEF JobsInv, ResearchTyped, AllPaid, CostOK, AllPlain, AllPlaced
<1>2. it.st = "running" /\ Left(it) # {} /\ at[j] \notin Waits /\ j \notin waiting /\ Asked(j) = 1
  BY <1>0, <1>1 DEF PlaceOK, Waits, Asked, JobsInv, AllPlaced
<1>3. s \in Left(it) /\ s \in Stage /\ it.stages[s] # "complete"
  <2> HIDE DEF it
  <2> QED
    BY <1>2, FirstOfLeft
<1>4. it = jobs[j]
  OBVIOUS
<1>5. /\ queue' = Append(queue, j)
      /\ UNCHANGED <<here, file, writing, waiting, resuming, paid, crashes, lost>>
  BY DEF Found, Throws, Save, countVars
<1>6. Found(j) => jobs' = [jobs EXCEPT ![j] = done] /\ at' = [at EXCEPT ![j] = "saving"]
  BY DEF Found, Put, GoTo
<1>7. Throws(j) => jobs' = [jobs EXCEPT ![j] = over] /\ at' = [at EXCEPT ![j] = "final"]
  BY DEF Throws, Put, GoTo
<1>8. /\ done \in JobSet /\ done.st = it.st /\ done.of = it.of /\ done.resumes = it.resumes
      /\ done.stages[s] = "complete" /\ \A t \in Stage : t # s => done.stages[t] = it.stages[t]
  <2>1. "complete" \in Marks
    BY DEF Marks
  <2> HIDE DEF it, s
  <2> QED
    BY <1>1, <1>3, <2>1, StageSet
<1>9. /\ over \in JobSet /\ over.st = "failed" /\ over.of = it.of /\ over.resumes = it.resumes
      /\ over.stages[s] = "failed" /\ \A t \in Stage : t # s => over.stages[t] = it.stages[t]
  <2> HIDE DEF it, s
  <2> QED
    BY <1>1, <1>3, Thrown
<1> HIDE DEF done, over, it, s
<1>10. /\ Owed(it, paid[j]) <= it.resumes + lost + 1 /\ Owed(it, paid[j]) \in Nat
       /\ Twice(paid[j]) \in Nat /\ Twice(paid[j]) + 1 <= Owed(it, paid[j])
       /\ it.resumes \in Nat /\ it.resumes <= MaxResumes
  BY <1>1, <1>2, <1>3, Counted, OneJob, OwedOnce DEF NowOK, PlainJob, Live
<1>11. CASE Found(j)
  <2>1. \A t \in Stage : it.stages[t] = "complete" => done.stages[t] = "complete"
    BY <1>3, <1>8
  <2>2. Owed(done, paid[j]) + 1 <= Owed(it, paid[j]) /\ Owed(done, paid[j]) \in Nat
    BY <1>1, <1>3, <1>8, <2>1, OwedOnce, Counted
  <2>3. Owed(done, paid[j]) <= done.resumes + lost + 0
    BY <1>1, <1>8, <1>10, <2>2
  <2>4. NowOK(done, paid[j], 0, lost)
    BY <1>2, <1>8, <2>3 DEF NowOK, Dead
  <2>5. Newer(it, done) /\ PlainJob(done) /\ PlaceOK(done, "saving") /\ done.st # "none"
    BY <1>1, <1>2, <1>8, <1>10, <2>1 DEF Newer, PlainJob, PlaceOK, Live, Dead
  <2>6. Moves(j, done, "saving")
    BY <1>2, <1>4, <1>5, <1>6, <1>8, <1>11, <2>4, <2>5, StatesApart DEF Moves, Waits
  <2> QED
    BY <2>6
<1>12. CASE Throws(j)
  <2>1. \A t \in Stage : it.stages[t] = "complete" => over.stages[t] = "complete"
    BY <1>3, <1>9
  <2>2. Twice(paid[j]) <= over.resumes + lost
    BY <1>1, <1>9, <1>10
  <2>3. NowOK(over, paid[j], 0, lost)
    BY <1>9, <2>2 DEF NowOK, Live
  <2>4. Newer(it, over) /\ PlainJob(over) /\ PlaceOK(over, "final") /\ over.st # "none"
    BY <1>1, <1>2, <1>9, <1>10, <2>1 DEF Newer, PlainJob, PlaceOK, Live, Dead
  <2>5. over.st \notin Live /\ it.st # "none"
    BY <1>2, <1>9 DEF Live
  <2>6. Moves(j, over, "final")
    BY <1>2, <1>4, <1>5, <1>7, <1>9, <1>12, <2>3, <2>4, <2>5 DEF Moves, Waits
  <2> QED
    BY <2>6
<1> QED
  BY <1>11, <1>12


\* The sources are asked: one payment more.
LEMMA WorkKeeps ==
  ASSUME JobsInv, NEW j \in Job, Work(j)
  PROVE  JobsInv'
<1> USE DEF JobsInv
<1> DEFINE it == jobs[j]
           s == First(it)
           p == paid[j]
           q == [p EXCEPT ![s] = @ + 1]
<1>0. /\ at[j] = "work" /\ at' = [at EXCEPT ![j] = "asked"]
      /\ paid' = [paid EXCEPT ![j][s] = @ + 1]
      /\ UNCHANGED <<jobs, here, file, queue, writing, waiting, resuming, crashes, lost>>
  BY DEF Work, GoTo, saveVars
<1>1. /\ it \in JobSet /\ p \in PaidFor /\ Finite(p) /\ lost \in Nat
      /\ NowOK(it, p, 0, lost) /\ PlainJob(it) /\ it.st = "running" /\ Left(it) # {}
      /\ ToPay(j) = 1 /\ CostOK(j)
  BY <1>0, Shapes DEF ResearchTyped, AllPaid, CostOK, AllPlain, AllPlaced, PlaceOK, Asked, ToPay
<1>2. s \in Stage /\ it.stages[s] # "complete"
  <2> HIDE DEF it
  <2> QED
    BY <1>1, FirstOfLeft
<1>3. /\ at'[j] = "asked" /\ \A i \in Job : i # j => at'[i] = at[i]
      /\ at' \in [Job -> {"none", "start", "next", "work", "asked"} \cup Waits]
      /\ at[j] \notin Waits
  BY <1>0 DEF ResearchTyped, Waits
<1>4. paid'[j] = q /\ \A i \in Job : i # j => paid'[i] = paid[i]
  BY <1>0 DEF ResearchTyped
<1>5. q \in PaidFor /\ Finite(q) /\ q[s] >= 1
  <2> HIDE DEF p, s
  <2> QED
    BY <1>1, <1>2, PaidMore
<1>6. paid' \in [Job -> [Stage -> Nat]]
  <2> HIDE DEF s
  <2> QED
    BY <1>0, <1>2 DEF ResearchTyped
<1>7. ResearchTyped'
  BY <1>0, <1>3, <1>6 DEF ResearchTyped
<1>8. Held' = Held
  BY <1>0 DEF Held
<1>9. AllPlain' /\ InOrder' /\ AllAlone'
  BY <1>0, <1>8 DEF AllPlain, InOrder, AllAlone, Alone
<1>10. AllPlaced'
  <2>1. PlaceOK(it, "asked") /\ j \notin waiting
    BY <1>0, <1>1 DEF AllPlaced, PlaceOK
  <2> QED
    BY <1>0, <1>3, <2>1 DEF AllPlaced
<1>11. InLine'
  <2>1. QueueWaits'
    BY <1>0, <1>3 DEF InLine, QueueWaits
  <2>2. QueueOnce' /\ OneWrites'
    BY <1>0 DEF InLine, QueueOnce, OneWrites
  <2>3. WriterWaits'
    BY <1>0, <1>3 DEF InLine, WriterWaits
  <2>4. WorkWritten'
    BY <1>0, <1>3 DEF InLine, WorkWritten
  <2> QED
    BY <2>1, <2>2, <2>3, <2>4 DEF InLine
<1>12. ASSUME NEW f \in Held PROVE PictureOK(f.jobs[j], q, 0, lost)
  <2>1. f.jobs[j] \in JobSet
    BY <1>12, Shapes
  <2>2. f.jobs[j].st \notin Dead
    BY <1>1, <1>12 DEF InOrder, Newer, Dead
  <2>3. PictureOK(f.jobs[j], p, 1, lost)
    <3>1. CASE f = file
      BY <1>1, <3>1 DEF CostOK
    <3>2. CASE f # file
      <4>1. f.jobs[j] = it
        BY <1>0, <1>12, <3>2 DEF Held, InLine, WorkWritten
      <4> QED
        BY <1>1, <4>1, CostOfPicture DEF Live
    <3> QED
      BY <3>1, <3>2
  <2> HIDE DEF p, s
  <2> QED
    BY <1>1, <1>2, <2>1, <2>2, <2>3, CostOfWork
<1>13. NowOK(it, q, 1, lost) /\ Twice(q) <= it.resumes + lost
  <2> HIDE DEF p, s, it
  <2> QED
    BY <1>1, <1>2, CostOfWork DEF Live
<1>14. Twice(q) <= MaxResumes + lost
  <2>1. it.resumes <= MaxResumes /\ it.resumes \in Nat /\ Twice(q) \in Nat
    <3> HIDE DEF q, it
    <3> QED
      BY <1>1, <1>5, OneJob, Counted DEF PlainJob, Live
  <2>2. MaxResumes \in Nat
    BY ResearchAssumption
  <2> HIDE DEF q, it
  <2> QED
    BY <1>1, <1>13, <2>1, <2>2
<1>15. AllPaid'
  <2> SUFFICES ASSUME NEW i \in Job PROVE CostOK(i)'
    BY DEF AllPaid
  <2>0. CostOK(i)
    BY DEF AllPaid
  <2>1. CASE i # j
    BY <2>0, <2>1, <1>0, <1>3, <1>4, <1>8 DEF CostOK, Asked, ToPay
  <2>2. CASE i = j
    <3>1. Asked(j)' = 1 /\ ToPay(j)' = 0
      BY <1>3 DEF Asked, ToPay
    <3>2. file \in Held /\ jobs'[j] = it /\ First(jobs'[j]) = s
      BY <1>0 DEF Held
    <3> HIDE DEF q, it, s
    <3> QED
      BY <2>2, <3>1, <3>2, <1>0, <1>4, <1>5, <1>8, <1>12, <1>13, <1>14 DEF CostOK
  <2> QED
    BY <2>1, <2>2
<1> QED
  BY <1>7, <1>9, <1>10, <1>11, <1>15

LEMMA TakeUpKeeps ==
  ASSUME JobsInv, NEW j \in Job, TakeUp(j)
  PROVE  JobsInv'
<1> USE DEF JobsInv
<1>0. /\ j \in waiting /\ jobs[j].st = "queued" /\ at[j] = "none"
      /\ waiting' = waiting \ {j} /\ resuming' = j /\ at' = [at EXCEPT ![j] = "start"]
      /\ UNCHANGED <<jobs, here, file, queue, writing, paid, crashes, lost>>
  BY DEF TakeUp, GoTo, saveVars, countVars, AllPlaced
<1>1. /\ at'[j] = "start" /\ \A i \in Job : i # j => at'[i] = at[i]
      /\ at' \in [Job -> {"none", "start", "next", "work", "asked"} \cup Waits]
      /\ at[j] \notin Waits
  BY <1>0 DEF ResearchTyped, Waits
<1>2. ResearchTyped'
  BY <1>0, <1>1 DEF ResearchTyped
<1>3. Held' = Held
  BY <1>0 DEF Held
<1>4. AllPlain' /\ InOrder' /\ AllAlone'
  BY <1>0, <1>3 DEF AllPlain, InOrder, AllAlone, Alone
<1>5. AllPlaced'
  <2>1. PlaceOK(jobs[j], "start")
    BY <1>0 DEF PlaceOK
  <2> QED
    BY <1>0, <1>1, <2>1 DEF AllPlaced
<1>6. InLine'
  <2>1. QueueWaits'
    BY <1>0, <1>1 DEF InLine, QueueWaits
  <2>2. QueueOnce' /\ OneWrites'
    BY <1>0 DEF InLine, QueueOnce, OneWrites
  <2>3. WriterWaits'
    BY <1>0, <1>1 DEF InLine, WriterWaits
  <2>4. WorkWritten'
    BY <1>0, <1>1 DEF InLine, WorkWritten
  <2> QED
    BY <2>1, <2>2, <2>3, <2>4 DEF InLine
<1>7. AllPaid'
  <2> SUFFICES ASSUME NEW i \in Job PROVE CostOK(i)'
    BY DEF AllPaid
  <2>0. CostOK(i)
    BY DEF AllPaid
  <2>1. Asked(i)' = Asked(i) /\ ToPay(i)' = ToPay(i) /\ (at'[i] = "asked" => at[i] = "asked")
    BY <1>0, <1>1 DEF Asked, ToPay
  <2> QED
    BY <2>0, <2>1, <1>0, <1>3 DEF CostOK
<1> QED
  BY <1>2, <1>4, <1>5, <1>6, <1>7

LEMMA RemoveKeeps ==
  ASSUME JobsInv, NEW q \in Prospect, RemoveProspect(q)
  PROVE  JobsInv'
<1> USE DEF JobsInv
<1>0. /\ here' = here \ {q} /\ queue' = Append(queue, Desk)
      /\ UNCHANGED <<jobs, file, writing, at, waiting, resuming, paid, crashes, lost>>
  BY DEF RemoveProspect, Save, countVars
<1>1. Desk \notin Job
  BY ResearchAssumption
<1>2. /\ queue' \in Seq(Job \cup {Desk})
      /\ DOMAIN queue' = DOMAIN queue \cup {Len(queue) + 1}
      /\ queue'[Len(queue) + 1] = Desk /\ \A a \in DOMAIN queue : queue'[a] = queue[a]
  BY <1>0, Queued
<1>3. ResearchTyped'
  BY <1>0, <1>2 DEF ResearchTyped
<1>4. Held' = Held
  BY <1>0 DEF Held
<1>5. AllPlain' /\ InOrder' /\ AllAlone'
  BY <1>0, <1>4 DEF AllPlain, InOrder, AllAlone, Alone
<1>6. AllPlaced' /\ AllPaid'
  BY <1>0, <1>4 DEF AllPlaced, AllPaid, CostOK, Asked, ToPay
<1>7. InLine'
  <2>1. QueueWaits'
    BY <1>0, <1>1, <1>2 DEF InLine, QueueWaits
  <2>2. QueueOnce'
    BY <1>1, <1>2 DEF InLine, QueueOnce
  <2>3. OneWrites' /\ WorkWritten'
    BY <1>0 DEF InLine, OneWrites, WorkWritten
  <2>4. WriterWaits'
    BY <1>0, <1>1, <1>2 DEF InLine, WriterWaits
  <2> QED
    BY <2>1, <2>2, <2>3, <2>4 DEF InLine
<1> QED
  BY <1>3, <1>5, <1>6, <1>7


-----------------------------------------------------------------------------
(* The writes.                                                                 *)

LEMMA BeginKeeps ==
  ASSUME JobsInv, BeginWrite
  PROVE  JobsInv'
<1> USE DEF JobsInv
<1> DEFINE w == [who |-> Head(queue), is |-> Picture]
<1>0. /\ queue # <<>> /\ writing = {} /\ writing' = {w} /\ queue' = Tail(queue)
      /\ UNCHANGED <<jobs, here, file, at, waiting, resuming, paid, crashes, lost>>
  BY DEF BeginWrite, TurnToWrite, countVars
<1>1. /\ queue' \in Seq(Job \cup {Desk}) /\ Head(queue) = queue[1] /\ 1 \in DOMAIN queue
      /\ \A a \in DOMAIN queue' : a + 1 \in DOMAIN queue /\ queue'[a] = queue[a + 1] /\ a + 1 # 1
      /\ \A a \in DOMAIN queue' : a \in Nat
  BY <1>0 DEF ResearchTyped
<1>2. Picture \in Pictures /\ Picture.jobs = jobs /\ queue[1] \in Job \cup {Desk}
  BY <1>1, Shapes DEF Picture, Pictures, ResearchTyped
<1>3. w.who = queue[1] /\ w.is = Picture /\ w \in WriteSet
  BY <1>1, <1>2 DEF WriteSet
<1> HIDE DEF w
<1>4. ResearchTyped'
  BY <1>0, <1>1, <1>3 DEF ResearchTyped
<1>5. Held' = {file, Picture} /\ file \in Held
  BY <1>0, <1>3 DEF Held
<1>6. AllPlain'
  BY <1>0, <1>2, <1>5 DEF AllPlain
<1>7. AllPlaced'
  BY <1>0 DEF AllPlaced
<1>8. InLine'
  <2>1. QueueWaits'
    BY <1>0, <1>1 DEF InLine, QueueWaits
  <2>2. QueueOnce'
    <3> SUFFICES ASSUME NEW a \in DOMAIN queue', NEW b \in DOMAIN queue',
                        queue'[a] \in Job, queue'[a] = queue'[b]
                 PROVE  a = b
      BY DEF QueueOnce
    <3>1. a + 1 = b + 1
      BY <1>1 DEF InLine, QueueOnce
    <3> QED
      BY <1>1, <3>1
  <2>3. OneWrites'
    BY <1>0 DEF OneWrites
  <2>4. WriterWaits'
    <3> SUFFICES ASSUME w.who \in Job
                 PROVE  /\ at[w.who] \in Waits /\ \A a \in DOMAIN queue' : queue'[a] # w.who
                        /\ w.is.jobs[w.who] = jobs[w.who]
      BY <1>0 DEF WriterWaits
    <3>1. at[w.who] \in Waits
      BY <1>1, <1>3 DEF InLine, QueueWaits
    <3>2. \A a \in DOMAIN queue' : queue'[a] # w.who
      BY <1>1, <1>3 DEF InLine, QueueOnce
    <3> QED
      BY <3>1, <3>2, <1>2, <1>3
  <2>5. WorkWritten'
    BY <1>0, <1>2, <1>3 DEF WorkWritten
  <2> QED
    BY <2>1, <2>2, <2>3, <2>4, <2>5 DEF InLine
<1>9. InOrder'
  <2>1. \A j \in Job : Newer(file.jobs[j], jobs[j]) /\ Newer(jobs[j], jobs[j])
    BY <1>5, NewerIs DEF InOrder
  <2> QED
    BY <1>0, <1>2, <1>3, <1>5, <2>1 DEF InOrder
<1>10. AllAlone'
  BY <1>0, <1>2, <1>5 DEF AllAlone, Alone
<1>11. AllPaid'
  <2> SUFFICES ASSUME NEW j \in Job PROVE CostOK(j)'
    BY DEF AllPaid
  <2>0. CostOK(j)
    BY DEF AllPaid
  <2>1. Asked(j)' = Asked(j) /\ ToPay(j)' = ToPay(j) /\ Asked(j) \in {0, 1}
    BY <1>0 DEF Asked, ToPay
  <2>2. PictureOK(jobs[j], paid[j], 0, lost)
    <3>1. jobs[j] \in JobSet /\ paid[j] \in PaidFor /\ lost \in Nat
      BY Shapes DEF ResearchTyped
    <3> QED
      BY <3>1, <2>0, <2>1, CostOfPicture DEF CostOK
  <2> QED
    BY <2>0, <2>1, <2>2, <1>0, <1>2, <1>5 DEF CostOK
<1> QED
  BY <1>4, <1>6, <1>7, <1>8, <1>9, <1>10, <1>11

\* The end of a write, good or bad: whoever waited for it goes on.
WriteEnds(w) ==
  /\ w \in writing /\ writing' = writing \ {w} /\ GoesOn(w.who)
  /\ UNCHANGED <<jobs, here, queue, waiting, paid, crashes>>

LEMMA WriteEndsIs ==
  ASSUME JobsInv, NEW w \in writing, WriteEnds(w)
  PROVE  /\ writing' = {} /\ resuming' \in Job \cup {Desk}
         /\ at' \in [Job -> {"none", "start", "next", "work", "asked"} \cup Waits]
         /\ \A j \in Job : at'[j] # at[j] =>
              /\ w.is.jobs[j] = jobs[j] /\ at[j] \in Waits
              /\ at'[j] \in {"none", "start", "next", "work"}
              /\ at'[j] = "work" => at[j] = "marking"
              /\ at'[j] = "start" => at[j] = "posted"
              /\ at'[j] = "next" => at[j] = "saving"
         /\ AllPlaced' /\ InLine'
<1> USE DEF JobsInv
<1>0. /\ writing' = writing \ {w} /\ GoesOn(w.who) /\ w.who \in Job \cup {Desk}
      /\ UNCHANGED <<jobs, here, queue, waiting, paid, crashes>>
  BY Shapes DEF WriteEnds
<1>1. writing' = {}
  BY <1>0 DEF InLine, OneWrites
<1>2. /\ After["posted"] = "start" /\ After["marking"] = "work"
      /\ After["saving"] = "next" /\ After["final"] = "none"
  BY DEF After
<1>3. resuming' \in Job \cup {Desk}
  BY <1>0 DEF GoesOn, ResearchTyped
<1>4. /\ at' \in [Job -> {"none", "start", "next", "work", "asked"} \cup Waits]
      /\ \A j \in Job : at'[j] # at[j] =>
              /\ w.is.jobs[j] = jobs[j] /\ at[j] \in Waits
              /\ at'[j] \in {"none", "start", "next", "work"}
              /\ at'[j] = "work" => at[j] = "marking"
              /\ at'[j] = "start" => at[j] = "posted"
              /\ at'[j] = "next" => at[j] = "saving"
              /\ \A a \in DOMAIN queue : queue[a] # j
  <2>1. CASE w.who = Desk
    <3>1. at' = at
      BY <1>0, <2>1 DEF GoesOn
    <3> QED
      BY <3>1 DEF ResearchTyped
  <2>2. CASE w.who # Desk
    <3>1. /\ w.who \in Job /\ at' = [at EXCEPT ![w.who] = After[@]]
          /\ at[w.who] \in Waits /\ w.is.jobs[w.who] = jobs[w.who]
          /\ \A a \in DOMAIN queue : queue[a] # w.who
      BY <1>0, <2>2 DEF GoesOn, InLine, WriterWaits
    <3>2. /\ After[at[w.who]] \in {"none", "start", "next", "work"}
          /\ After[at[w.who]] = "work" => at[w.who] = "marking"
          /\ After[at[w.who]] = "start" => at[w.who] = "posted"
          /\ After[at[w.who]] = "next" => at[w.who] = "saving"
      BY <3>1, <1>2 DEF Waits
    <3>3. at'[w.who] = After[at[w.who]] /\ \A j \in Job : j # w.who => at'[j] = at[j]
      BY <3>1 DEF ResearchTyped
    <3>4. at' \in [Job -> {"none", "start", "next", "work", "asked"} \cup Waits]
      BY <3>1, <3>2 DEF ResearchTyped
    <3> QED
      BY <3>1, <3>2, <3>3, <3>4
  <2> QED
    BY <2>1, <2>2
<1>5. AllPlaced'
  <2> SUFFICES ASSUME NEW j \in Job
               PROVE  PlaceOK(jobs[j], at'[j])
                        /\ (j \in waiting => at'[j] = "none" /\ jobs[j].st = "queued")
    BY <1>0 DEF AllPlaced
  <2>0. PlaceOK(jobs[j], at[j]) /\ (j \in waiting => at[j] = "none" /\ jobs[j].st = "queued")
    BY DEF AllPlaced
  <2>1. CASE at'[j] = at[j]
    BY <2>0, <2>1
  <2>2. CASE at'[j] # at[j]
    BY <2>0, <2>2, <1>4 DEF PlaceOK, Waits
  <2> QED
    BY <2>1, <2>2
<1>6. InLine'
  <2>1. QueueWaits'
    <3> SUFFICES ASSUME NEW a \in DOMAIN queue, queue[a] \in Job PROVE at'[queue[a]] \in Waits
      BY <1>0 DEF QueueWaits
    <3>1. at'[queue[a]] = at[queue[a]]
      BY <1>4
    <3> QED
      BY <3>1 DEF InLine, QueueWaits
  <2>2. QueueOnce'
    BY <1>0 DEF InLine, QueueOnce
  <2>3. OneWrites' /\ WriterWaits' /\ WorkWritten'
    BY <1>1 DEF OneWrites, WriterWaits, WorkWritten
  <2> QED
    BY <2>1, <2>2, <2>3 DEF InLine
<1> QED
  BY <1>1, <1>3, <1>4, <1>5, <1>6

LEMMA EndKeeps ==
  ASSUME JobsInv, NEW w \in writing, EndWrite(w)
  PROVE  JobsInv' /\ \A j \in Job : Newer(file.jobs[j], file'.jobs[j])
<1> USE DEF JobsInv
<1>0. file' = w.is /\ WriteEnds(w) /\ UNCHANGED <<jobs, here, queue, waiting, paid, crashes, lost>>
  BY DEF EndWrite, WriteEnds, countVars
<1>1. /\ writing' = {} /\ resuming' \in Job \cup {Desk}
      /\ at' \in [Job -> {"none", "start", "next", "work", "asked"} \cup Waits]
      /\ \A j \in Job : at'[j] # at[j] =>
              /\ w.is.jobs[j] = jobs[j] /\ at[j] \in Waits
              /\ at'[j] \in {"none", "start", "next", "work"}
              /\ at'[j] = "work" => at[j] = "marking"
      /\ AllPlaced' /\ InLine'
  BY <1>0, WriteEndsIs
<1>2. w.is \in Pictures /\ w.is \in Held
  BY Shapes DEF Held
<1>3. Held' = {file'} /\ Held' = {w.is}
  BY <1>0, <1>1 DEF Held
<1>4. ResearchTyped'
  BY <1>0, <1>1, <1>2 DEF ResearchTyped
<1>5. AllPlain'
  BY <1>0, <1>2, <1>3 DEF AllPlain
<1>6. InOrder'
  BY <1>0, <1>1, <1>2, <1>3 DEF InOrder
<1>7. AllAlone'
  BY <1>0, <1>2, <1>3 DEF AllAlone, Alone
<1>8. AllPaid'
  <2> SUFFICES ASSUME NEW j \in Job PROVE CostOK(j)'
    BY DEF AllPaid
  <2>0. CostOK(j) /\ jobs[j] \in JobSet /\ paid[j] \in PaidFor /\ lost \in Nat
        /\ PlaceOK(jobs[j], at'[j])
    BY <1>0, <1>1, Shapes DEF AllPaid, ResearchTyped, AllPlaced
  <2>1. Asked(j)' = Asked(j) /\ (at'[j] = "asked" => at[j] = "asked")
    BY <1>1 DEF Asked, Waits
  <2>2. PictureOK(w.is.jobs[j], paid[j], 0, lost)
    BY <2>0, <1>2 DEF CostOK
  <2>3. PictureOK(w.is.jobs[j], paid[j], ToPay(j)', lost)
    <3>1. CASE at'[j] # "work"
      BY <2>2, <3>1 DEF ToPay
    <3>2. CASE at'[j] = "work"
      <4>1. w.is.jobs[j] = jobs[j] /\ Asked(j) = 0
        BY <1>1, <3>2 DEF InLine, WorkWritten, Asked
      <4>2. jobs[j].st \in Live
        BY <2>0, <3>2 DEF PlaceOK, Live
      <4>3. PictureOK(jobs[j], paid[j], 1, lost)
        BY <2>0, <4>1, <4>2, CostOfPicture DEF CostOK
      <4> QED
        BY <3>2, <4>1, <4>3 DEF ToPay
    <3> QED
      BY <3>1, <3>2
  <2> QED
    BY <2>0, <2>1, <2>2, <2>3, <1>0, <1>3 DEF CostOK
<1>9. \A j \in Job : Newer(file.jobs[j], file'.jobs[j])
  BY <1>0 DEF InOrder
<1> QED
  BY <1>1, <1>4, <1>5, <1>6, <1>7, <1>8, <1>9

\* A write that failed has left the file behind by what the next stage costs.
LEMMA FailKeeps ==
  ASSUME JobsInv, NEW w \in writing, WriteFails(w)
  PROVE  JobsInv'
<1> USE DEF JobsInv
<1>0. lost' = lost + 1 /\ WriteEnds(w) /\ UNCHANGED <<jobs, here, file, queue, waiting, paid, crashes>>
  BY DEF WriteFails, WriteEnds
<1>1. /\ writing' = {} /\ resuming' \in Job \cup {Desk}
      /\ at' \in [Job -> {"none", "start", "next", "work", "asked"} \cup Waits]
      /\ \A j \in Job : at'[j] # at[j] =>
              /\ w.is.jobs[j] = jobs[j] /\ at[j] \in Waits
              /\ at'[j] \in {"none", "start", "next", "work"}
              /\ at'[j] = "work" => at[j] = "marking"
      /\ AllPlaced' /\ InLine'
  BY <1>0, WriteEndsIs
<1>2. Held' = {file} /\ file \in Held
  BY <1>0, <1>1 DEF Held
<1>3. ResearchTyped'
  BY <1>0, <1>1 DEF ResearchTyped
<1>4. AllPlain'
  BY <1>0, <1>2 DEF AllPlain
<1>5. InOrder'
  BY <1>0, <1>1, <1>2 DEF InOrder
<1>6. AllAlone'
  BY <1>0, <1>2 DEF AllAlone, Alone
<1>7. AllPaid'
  <2> SUFFICES ASSUME NEW j \in Job PROVE CostOK(j)'
    BY DEF AllPaid
  <2> DEFINE p == paid[j]
  <2>0. CostOK(j) /\ jobs[j] \in JobSet /\ p \in PaidFor /\ lost \in Nat /\ file.jobs[j] \in JobSet
    BY Shapes DEF AllPaid, ResearchTyped
  <2>1. Asked(j)' = Asked(j) /\ (at'[j] = "asked" => at[j] = "asked") /\ Asked(j) \in {0, 1}
        /\ ToPay(j)' \in {0, 1}
    BY <1>1 DEF Asked, ToPay, Waits
  <2>2. PictureOK(file.jobs[j], p, 0, lost) /\ Finite(p) /\ NowOK(jobs[j], p, Asked(j), lost)
    BY <2>0, <1>2 DEF CostOK
  <2>3. PictureOK(file.jobs[j], p, 0, lost + 1) /\ PictureOK(file.jobs[j], p, 1, lost + 1)
    BY <2>0, <2>2, CostOfPicture
  <2>4. NowOK(jobs[j], p, Asked(j), lost + 1)
    BY <2>0, <2>1, <2>2, CostOfPicture
  <2>5. Twice(p) <= MaxResumes + (lost + 1)
    <3>1. Twice(p) \in Nat /\ MaxResumes \in Nat /\ Twice(p) <= MaxResumes + lost
      BY <2>0, <2>2, Counted, ResearchAssumption DEF CostOK
    <3> QED
      BY <2>0, <3>1
  <2> QED
    BY <2>0, <2>1, <2>2, <2>3, <2>4, <2>5, <1>0, <1>2 DEF CostOK
<1> QED
  BY <1>1, <1>3, <1>4, <1>5, <1>6, <1>7

-----------------------------------------------------------------------------
(* Restarts.                                                                   *)

LEMMA RestartKeeps ==
  ASSUME JobsInv, Restart
  PROVE  JobsInv'
<1> USE DEF JobsInv
<1>0. /\ crashes' = crashes + 1 /\ jobs' = [j \in Job |-> Restored(file.jobs[j])]
      /\ here' = file.here /\ queue' = <<>> /\ writing' = {} /\ at' = [j \in Job |-> "none"]
      /\ waiting' = {j \in Job : jobs'[j].st = "queued"} /\ resuming' = Desk
      /\ UNCHANGED <<file, paid, lost>>
  BY DEF Restart
<1>1. MaxResumes \in Nat /\ file \in Held /\ Held' = {file}
  BY <1>0, ResearchAssumption DEF Held
<1>2. \A j \in Job : /\ file.jobs[j] \in JobSet /\ jobs'[j] = Restored(file.jobs[j])
                     /\ jobs'[j] \in JobSet /\ at'[j] = "none"
  BY <1>0, Shapes, RestoredIs
<1>3. ResearchTyped'
  <2>1. jobs' \in JobTable
    BY <1>0, <1>2 DEF JobTable
  <2>2. queue' \in Seq(Job \cup {Desk})
    BY <1>0
  <2> QED
    BY <1>0, <2>1, <2>2 DEF ResearchTyped, Pictures
<1>4. \A j \in Job : /\ jobs'[j].st \in Live => file.jobs[j].st \in Live
                     /\ jobs'[j].of = file.jobs[j].of
  BY <1>2, RestoredIs
<1>5. AllPlain'
  <2> SUFFICES ASSUME NEW j \in Job PROVE PlainJob(jobs'[j]) /\ PlainJob(file.jobs[j])
    BY <1>0, <1>1 DEF AllPlain
  <2>0. PlainJob(file.jobs[j]) /\ file.jobs[j].resumes \in Nat
    BY <1>1, <1>2, OneJob DEF AllPlain
  <2>1. CASE file.jobs[j].st \notin Live
    BY <2>0, <2>1, <1>2, RestoredIs
  <2>2. CASE file.jobs[j].st \in Live
    <3>1. /\ jobs'[j].resumes = file.jobs[j].resumes + 1
          /\ jobs'[j].st = IF file.jobs[j].resumes < MaxResumes THEN "queued" ELSE "failed"
      BY <1>2, <2>2, RestoredIs
    <3>2. jobs'[j].st \in Live => jobs'[j].resumes <= MaxResumes
      BY <1>1, <2>0, <3>1 DEF Live
    <3>3. jobs'[j].st # "none"
      BY <3>1
    <3>4. jobs'[j].resumes <= MaxResumes + 1
      BY <2>0, <2>2, <3>1, ResearchAssumption DEF PlainJob
    <3> QED
      BY <2>0, <3>2, <3>3, <3>4 DEF PlainJob
  <2> QED
    BY <2>1, <2>2
<1>6. AllPlaced'
  BY <1>0, <1>2 DEF AllPlaced, PlaceOK
<1>7. InLine'
  <2>1. DOMAIN queue' = {}
    BY <1>0
  <2> QED
    BY <1>0, <2>1 DEF InLine, QueueWaits, QueueOnce, OneWrites, WriterWaits, WorkWritten
<1>8. InOrder'
  BY <1>0, <1>1, <1>2, NewerIs DEF InOrder
<1>9. AllAlone'
  BY <1>0, <1>1, <1>4 DEF AllAlone, Alone
<1>10. AllPaid'
  <2> SUFFICES ASSUME NEW j \in Job PROVE CostOK(j)'
    BY DEF AllPaid
  <2>0. CostOK(j) /\ paid[j] \in PaidFor /\ lost \in Nat
    BY Shapes DEF AllPaid, ResearchTyped
  <2>1. Asked(j)' = 0 /\ ToPay(j)' = 0 /\ at'[j] # "asked"
    BY <1>2 DEF Asked, ToPay
  <2>2. PictureOK(file.jobs[j], paid[j], 0, lost) /\ Finite(paid[j])
    BY <2>0, <1>1 DEF CostOK
  <2>3. NowOK(jobs'[j], paid[j], 0, lost)
    BY <2>0, <2>2, <1>1, <1>2, CostOfRestart
  <2> QED
    BY <2>0, <2>1, <2>2, <2>3, <1>0, <1>1 DEF CostOK
<1> QED
  BY <1>3, <1>5, <1>6, <1>7, <1>8, <1>9, <1>10


-----------------------------------------------------------------------------
(* The invariant, and what follows from it.                                    *)

LEMMA JobsAtFirst ==
  ASSUME ResearchInit
  PROVE  JobsInv
<1>0. /\ jobs = [j \in Job |-> NoJob] /\ here = Prospect /\ file = Picture
      /\ queue = <<>> /\ writing = {} /\ at = [j \in Job |-> "none"] /\ waiting = {} /\ resuming = Desk
      /\ paid = [j \in Job |-> [s \in Stage |-> 0]] /\ crashes = 0 /\ lost = 0
  BY DEF ResearchInit
<1>1. \A j \in Job : jobs[j] = NoJob /\ at[j] = "none" /\ paid[j] = [s \in Stage |-> 0]
  BY <1>0
<1>2. file.jobs = jobs /\ file \in Pictures /\ Held = {file} /\ jobs \in JobTable
  BY <1>0, NoJobIs DEF Picture, Held, Pictures, JobTable
<1>3. ResearchTyped
  BY <1>0, <1>2 DEF ResearchTyped
<1>4. PlainJob(NoJob)
  BY NoJobIs, StatesApart, ResearchAssumption DEF PlainJob
<1>5. AllPlain
  BY <1>1, <1>2, <1>4 DEF AllPlain
<1>6. AllPlaced
  BY <1>0, <1>1 DEF AllPlaced, PlaceOK
<1>7. InLine
  <2>1. DOMAIN queue = {}
    BY <1>0
  <2> QED
    BY <1>0, <2>1 DEF InLine, QueueWaits, QueueOnce, OneWrites, WriterWaits, WorkWritten
<1>8. InOrder
  BY <1>0, <1>2, NewerIs DEF InOrder
<1>9. AllAlone
  BY <1>1, <1>2, NoJobIs, StatesApart DEF AllAlone, Alone
<1>10. AllPaid
  <2> SUFFICES ASSUME NEW j \in Job PROVE CostOK(j)
    BY DEF AllPaid
  <2>1. \A x \in Stage \X Nat : ~(1 <= x[2] /\ x[2] <= paid[j][x[1]])
    BY <1>1
  <2>2. PaidOf(paid[j]) = {} /\ OwedOf(NoJob, paid[j]) = {} /\ TwiceOf(paid[j]) = {}
    BY <2>1 DEF PaidOf, OwedOf, TwiceOf
  <2>3. Finite(paid[j]) /\ Owed(NoJob, paid[j]) = 0 /\ Twice(paid[j]) = 0
    BY <2>2, FS_EmptySet DEF Finite, Owed, Twice
  <2>4. Asked(j) = 0 /\ ToPay(j) = 0 /\ jobs[j] = NoJob /\ file.jobs[j] = NoJob /\ lost = 0
    BY <1>0, <1>1, <1>2 DEF Asked, ToPay
  <2>5. NowOK(NoJob, paid[j], 0, 0) /\ PictureOK(NoJob, paid[j], 0, 0)
    BY <2>3, NoJobIs, StatesApart DEF NowOK, PictureOK
  <2>6. MaxResumes \in Nat
    BY ResearchAssumption
  <2> QED
    BY <1>1, <1>2, <2>3, <2>4, <2>5, <2>6 DEF CostOK
<1> QED
  BY <1>3, <1>5, <1>6, <1>7, <1>8, <1>9, <1>10 DEF JobsInv

\* A step of a job.
JobSteps(j) == Start(j) \/ NobodyLeft(j) \/ NextStage(j) \/ Found(j) \/ Throws(j)

LEMMA StepMoves ==
  ASSUME JobsInv, NEW j \in Job, JobSteps(j)
  PROVE  \E new, place : Moves(j, new, place)
<1>1. CASE Start(j) \/ NextStage(j)
  <2>1. at[j] \in {"start", "next"} /\ Continue(j, jobs[j])
    BY <1>1 DEF Start, NextStage
  <2> QED
    BY <2>1, ContinueMoves
<1>2. CASE NobodyLeft(j)
  BY <1>2, NobodyMoves
<1>3. CASE Found(j) \/ Throws(j)
  BY <1>3, FoundMoves
<1> QED
  BY <1>1, <1>2, <1>3 DEF JobSteps

LEMMA EveryStep ==
  ASSUME ResearchNext
  PROVE  \/ \E j \in Job : JobSteps(j) \/ Work(j) \/ TakeUp(j)
         \/ \E j \in Job, q \in Prospect : Post(j, q)
         \/ BeginWrite
         \/ \E w \in writing : EndWrite(w) \/ WriteFails(w)
         \/ \E q \in Prospect : RemoveProspect(q)
         \/ Restart
BY DEF ResearchNext, Runs, Writes, JobSteps

LEMMA JobsAlways ==
  ASSUME JobsInv, [ResearchNext]_researchVars
  PROVE  JobsInv'
<1>1. CASE UNCHANGED researchVars
  <2>1. UNCHANGED <<jobs, here, file, queue, writing, at, waiting, resuming, paid, crashes, lost>>
    BY <1>1 DEF researchVars, saveVars, countVars
  <2> QED
    BY <2>1 DEF JobsInv, ResearchTyped, AllPlain, AllPlaced, InLine, QueueWaits, QueueOnce,
                OneWrites, WriterWaits, WorkWritten, InOrder, AllAlone, Alone, AllPaid, CostOK,
                Held, Asked, ToPay
<1>2. CASE \E j \in Job : JobSteps(j)
  BY <1>2, StepMoves, MovesKeeps
<1>3. CASE \E j \in Job : Work(j)
  BY <1>3, WorkKeeps
<1>4. CASE \E j \in Job : TakeUp(j)
  BY <1>4, TakeUpKeeps
<1>5. CASE \E j \in Job, q \in Prospect : Post(j, q)
  BY <1>5, PostMoves, MovesKeeps
<1>6. CASE BeginWrite
  BY <1>6, BeginKeeps
<1>7. CASE \E w \in writing : EndWrite(w)
  BY <1>7, EndKeeps
<1>8. CASE \E w \in writing : WriteFails(w)
  BY <1>8, FailKeeps
<1>9. CASE \E q \in Prospect : RemoveProspect(q)
  BY <1>9, RemoveKeeps
<1>10. CASE Restart
  BY <1>10, RestartKeeps
<1> QED
  BY <1>1, <1>2, <1>3, <1>4, <1>5, <1>6, <1>7, <1>8, <1>9, <1>10, EveryStep

LEMMA AnsweredAtFirst == ResearchInit => AnsweredIsKept
BY NoJobIs DEF ResearchInit, AnsweredIsKept

LEMMA AnsweredAlways ==
  ASSUME JobsInv, AnsweredIsKept, [ResearchNext]_researchVars
  PROVE  AnsweredIsKept'
<1> SUFFICES ASSUME lost' = 0, NEW j \in Job, jobs'[j].st # "none", at'[j] # "posted"
             PROVE  file'.jobs[j].st # "none"
  BY DEF AnsweredIsKept
<1> USE DEF JobsInv
<1>0. lost \in Nat
  BY DEF ResearchTyped
<1>1. ASSUME lost = lost', jobs[j] = jobs'[j], file' = file, at[j] # "posted"
      PROVE  file'.jobs[j].st # "none"
  BY <1>1 DEF AnsweredIsKept
<1>2. CASE UNCHANGED researchVars
  BY <1>1, <1>2 DEF researchVars, saveVars, countVars
<1>3. ASSUME NEW i \in Job, NEW new, NEW place, Moves(i, new, place)
      PROVE  file'.jobs[j].st # "none"
  <2>1. lost = lost' /\ file' = file
    BY <1>3 DEF Moves
  <2>2. /\ jobs' = [jobs EXCEPT ![i] = new] /\ at' = [at EXCEPT ![i] = place]
        /\ place = "posted" \/ (jobs[i].st # "none" /\ at[i] # "posted")
    BY <1>3 DEF Moves
  <2>3. CASE j = i
    <3>1. at'[j] = place
      BY <2>2, <2>3 DEF ResearchTyped
    <3>2. jobs[j].st # "none" /\ at[j] # "posted"
      BY <2>2, <2>3, <3>1
    <3> QED
      BY <2>1, <3>2 DEF AnsweredIsKept
  <2>4. CASE j # i
    BY <1>1, <2>1, <2>2, <2>4 DEF ResearchTyped, JobTable
  <2> QED
    BY <2>3, <2>4
<1>4. CASE \E i \in Job : JobSteps(i)
  BY <1>3, <1>4, StepMoves
<1>5. CASE \E i \in Job, q \in Prospect : Post(i, q)
  BY <1>3, <1>5, PostMoves
<1>6. ASSUME NEW i \in Job, Work(i) PROVE file'.jobs[j].st # "none"
  BY <1>1, <1>6 DEF Work, GoTo, saveVars, ResearchTyped
<1>7. ASSUME NEW i \in Job, TakeUp(i) PROVE file'.jobs[j].st # "none"
  <2>1. /\ jobs' = jobs /\ file' = file /\ lost' = lost /\ at[i] = "none"
        /\ at' = [at EXCEPT ![i] = "start"] \/ at' = at
    BY <1>7 DEF TakeUp, GoTo, saveVars, countVars, AllPlaced
  <2>2. at[j] # "posted"
    BY <2>1 DEF ResearchTyped
  <2> QED
    BY <1>1, <2>1, <2>2
<1>8. CASE BeginWrite
  BY <1>1, <1>8 DEF BeginWrite, countVars
<1>9. ASSUME NEW w \in writing, EndWrite(w) PROVE file'.jobs[j].st # "none"
  <2>1. /\ file' = w.is /\ WriteEnds(w) /\ jobs' = jobs /\ lost' = lost
        /\ \A i \in Job : Newer(file.jobs[i], file'.jobs[i])
    BY <1>9, EndKeeps DEF EndWrite, WriteEnds, countVars
  <2>2. CASE at[j] = "posted"
    <3>1. w.is.jobs[j] = jobs[j]
      BY <2>1, <2>2, WriteEndsIs
    <3> QED
      BY <2>1, <3>1
  <2>3. CASE at[j] # "posted"
    <3>1. file.jobs[j].st # "none"
      BY <2>1, <2>3 DEF AnsweredIsKept
    <3> QED
      BY <2>1, <3>1 DEF Newer
  <2> QED
    BY <2>2, <2>3
<1>10. ASSUME NEW w \in writing, WriteFails(w) PROVE file'.jobs[j].st # "none"
  <2>1. lost' = lost + 1
    BY <1>10 DEF WriteFails
  <2> QED
    BY <2>1, <1>0
<1>11. CASE \E q \in Prospect : RemoveProspect(q)
  BY <1>1, <1>11 DEF RemoveProspect, countVars
<1>12. CASE Restart
  <2>1. jobs'[j] = Restored(file.jobs[j]) /\ file' = file /\ file.jobs[j] \in JobSet
    BY <1>12, Shapes DEF Restart
  <2>2. file.jobs[j].st \notin Live => Restored(file.jobs[j]) = file.jobs[j]
    BY <2>1, RestoredIs
  <2> QED
    BY <2>1, <2>2, StatesApart
<1> QED
  BY <1>2, <1>4, <1>5, <1>6, <1>7, <1>8, <1>9, <1>10, <1>11, <1>12, EveryStep

LEMMA CostsOneStage ==
  ASSUME JobsInv
  PROVE  CrashCostsOneStage
<1> SUFFICES ASSUME NEW j \in Job PROVE Cardinality(Again(j)) <= jobs[j].resumes + lost
  BY DEF CrashCostsOneStage
<1> USE DEF JobsInv
<1>1. /\ jobs[j] \in JobSet /\ paid[j] \in PaidFor /\ Finite(paid[j]) /\ lost \in Nat
      /\ jobs[j].resumes \in Nat /\ PlainJob(jobs[j]) /\ PlaceOK(jobs[j], at[j]) /\ CostOK(j)
      /\ NowOK(jobs[j], paid[j], Asked(j), lost)
  BY Shapes, OneJob DEF ResearchTyped, AllPaid, CostOK, AllPlain, AllPlaced
<1>2. /\ Twice(paid[j]) \in Nat /\ Owed(jobs[j], paid[j]) \in Nat
      /\ Twice(paid[j]) <= Owed(jobs[j], paid[j])
  BY <1>1, Counted
<1>3. Twice(paid[j]) <= jobs[j].resumes + lost
  <2>1. CASE jobs[j].st = "none"
    <3>1. Owed(jobs[j], paid[j]) <= lost
      BY <1>1, <2>1 DEF NowOK
    <3> QED
      BY <1>1, <1>2, <3>1
  <2>2. CASE jobs[j].st \in Live /\ at[j] # "asked"
    <3>1. Owed(jobs[j], paid[j]) <= jobs[j].resumes + lost + 0
      BY <1>1, <2>2 DEF NowOK, Asked
    <3> QED
      BY <1>1, <1>2, <3>1
  <2>3. CASE jobs[j].st \in Live /\ at[j] = "asked"
    <3>1. Owed(jobs[j], paid[j]) <= jobs[j].resumes + lost + 1
      BY <1>1, <2>3 DEF NowOK, Asked
    <3>2. Left(jobs[j]) # {} /\ paid[j][First(jobs[j])] >= 1
      BY <1>1, <2>3 DEF PlaceOK, CostOK
    <3>3. Twice(paid[j]) + 1 <= Owed(jobs[j], paid[j])
      BY <1>1, <3>2, FirstOfLeft, OwedOnce
    <3> QED
      BY <1>1, <1>2, <3>1, <3>3
  <2>4. CASE jobs[j].st \in Dead
    BY <1>1, <2>4 DEF NowOK
  <2>5. jobs[j].st \in Live \cup Dead \cup {"none"}
    BY <1>1, OneJob
  <2> QED
    BY <2>1, <2>2, <2>3, <2>4, <2>5
<1> QED
  BY <1>1, <1>3, AgainIsTwice DEF Twice

LEMMA LoopEnds ==
  ASSUME JobsInv
  PROVE  CrashLoopEnds
<1> SUFFICES ASSUME NEW j \in Job, NEW s \in Stage PROVE paid[j][s] <= MaxResumes + 1 + lost
  BY DEF CrashLoopEnds
<1> USE DEF JobsInv
<1> DEFINE p == paid[j]
           many == 2 .. p[s]
           those == {s} \X many
<1>1. /\ p \in PaidFor /\ Finite(p) /\ lost \in Nat /\ MaxResumes \in Nat
      /\ Twice(p) <= MaxResumes + lost /\ p[s] \in Nat
  BY Shapes, ResearchAssumption DEF ResearchTyped, AllPaid, CostOK, PaidFor
<1>2. those \in SUBSET TwiceOf(p)
  BY <1>1 DEF TwiceOf, PaidOf
<1>3. /\ IsFiniteSet(many) /\ Cardinality(many) = IF 2 > p[s] THEN 0 ELSE p[s] - 2 + 1
      /\ Cardinality(many) \in Nat
  <2>1. 2 \in Int /\ p[s] \in Int
    BY <1>1
  <2> HIDE DEF p
  <2>2. IsFiniteSet(2 .. p[s]) /\ Cardinality(2 .. p[s]) = IF 2 > p[s] THEN 0 ELSE p[s] - 2 + 1
    BY <2>1, FS_Interval
  <2> QED
    BY <2>2, FS_CardinalityType
<1>4. Cardinality(those) = Cardinality(many)
  <2>1. IsFiniteSet({s}) /\ Cardinality({s}) = 1
    BY FS_Singleton
  <2> HIDE DEF many
  <2>2. Cardinality({s} \X many) = Cardinality({s}) * Cardinality(many)
    BY <1>3, <2>1, FS_Product
  <2> QED
    BY <1>3, <2>1, <2>2
<1>5. Cardinality(those) <= Twice(p) /\ Twice(p) \in Nat
  <2>1. IsFiniteSet(TwiceOf(p)) /\ Twice(p) \in Nat
    BY <1>1, Counted
  <2> HIDE DEF those, p
  <2> QED
    BY <1>2, <2>1, FS_Subset DEF Twice
<1> HIDE DEF those, many, p
<1>6. Cardinality(many) <= Twice(p)
  BY <1>4, <1>5
<1>7. p[s] <= MaxResumes + 1 + lost
  <2>1. CASE 2 > p[s]
    BY <1>1, <2>1
  <2>2. CASE ~(2 > p[s])
    BY <1>1, <1>3, <1>5, <1>6, <2>2
  <2> QED
    BY <2>1, <2>2
<1> QED
  BY <1>7 DEF p

\* Whatever the restarts and the writes that fail, a person has one research job at
\* a time (OneJobEach, server.mjs:2799).
THEOREM OneJobOfAPerson == ResearchSpec => []OneJobEach
<1>1. ResearchInit => JobsInv
  BY JobsAtFirst
<1>2. JobsInv /\ [ResearchNext]_researchVars => JobsInv'
  BY JobsAlways
<1>3. JobsInv => OneJobEach
  BY DEF JobsInv, AllAlone, Alone, OneJobEach
<1> QED
  BY <1>1, <1>2, <1>3, PTL DEF ResearchSpec

\* However often the server is restarted and however many writes fail, a restart costs
\* the stage in flight, a job is not paid for without end, and an answered request is
\* in the file (RestartCost, server.mjs:5548).
THEOREM WhatARestartCosts == ResearchSpec => []RestartCost
<1>1. ResearchInit => JobsInv /\ AnsweredIsKept
  BY JobsAtFirst, AnsweredAtFirst
<1>2. JobsInv /\ AnsweredIsKept /\ [ResearchNext]_researchVars => (JobsInv /\ AnsweredIsKept)'
  BY JobsAlways, AnsweredAlways
<1>3. JobsInv /\ AnsweredIsKept => RestartCost
  BY CostsOneStage, LoopEnds DEF RestartCost
<1> QED
  BY <1>1, <1>2, <1>3, PTL DEF ResearchSpec

\* The shape of the state, with the bound of how often a job is taken up (ResearchTypeOK).
THEOREM ResearchTypesOK == ResearchSpec => []ResearchTypeOK
<1>1. ResearchInit => JobsInv
  BY JobsAtFirst
<1>2. JobsInv /\ [ResearchNext]_researchVars => JobsInv'
  BY JobsAlways
<1>3. JobsInv => ResearchTypeOK
  <2> SUFFICES ASSUME JobsInv PROVE ResearchTypeOK
    OBVIOUS
  <2> USE DEF JobsInv
  <2>1. ASSUME NEW it \in JobSet, PlainJob(it)
        PROVE  it \in Jobs
    <3>1. it.resumes \in 0 .. MaxResumes + 1
      BY <2>1, ResearchAssumption, OneJob DEF PlainJob
    <3>2. JobSet \subseteq [st : Live \cup {"none", "complete", "failed"},
            of : Prospect \cup {NoJob.of},
                            resumes : Nat,
                              stages : [Stage -> {"pending", "running", "complete", "failed"}]]
      BY DEF JobSet, Dead, Somebody, Marks
    <3> QED
      BY <2>1, <3>1, <3>2 DEF Jobs
  <2>2. ASSUME NEW f \in Held
        PROVE  f \in Files
    <3>1. f \in Pictures /\ f.jobs \in JobTable /\ \A j \in Job : f.jobs[j] \in Jobs
      BY <2>1, <2>2, Shapes DEF AllPlain
    <3> QED
      BY <3>1 DEF Pictures, JobTable, Files
  <2>3. jobs \in [Job -> Jobs]
    BY <2>1, Shapes DEF AllPlain, ResearchTyped, JobTable
  <2>4. file \in Files /\ \A w \in writing : w.is \in Files
    BY <2>2 DEF Held
  <2>5. writing \subseteq [who : Job \cup {Desk}, is : Files]
    BY <2>4 DEF ResearchTyped, WriteSet
  <2>6. DOMAIN After = Waits
    BY DEF After, Waits
  <2> QED
    BY <2>3, <2>4, <2>5, <2>6 DEF ResearchTyped, ResearchTypeOK
<1> QED
  BY <1>1, <1>2, <1>3, PTL DEF ResearchSpec

LEMMA FileGoesOn ==
  ASSUME JobsInv, [ResearchNext]_researchVars
  PROVE  \A j \in Job, s \in Stage :
           file.jobs[j].stages[s] = "complete" => file'.jobs[j].stages[s] = "complete"
<1>1. CASE file' = file
  BY <1>1
<1>2. CASE \E w \in writing : EndWrite(w)
  <2>1. \A j \in Job : Newer(file.jobs[j], file'.jobs[j])
    BY <1>2, EndKeeps
  <2> QED
    BY <2>1 DEF Newer
<1>3. CASE UNCHANGED researchVars
  BY <1>1, <1>3 DEF researchVars, saveVars
<1>4. CASE \E j \in Job : JobSteps(j)
  BY <1>1, <1>4, StepMoves DEF Moves
<1>5. CASE \E j \in Job : Work(j) \/ TakeUp(j)
  BY <1>1, <1>5 DEF Work, TakeUp, saveVars
<1>6. CASE \E j \in Job, q \in Prospect : Post(j, q)
  BY <1>1, <1>6 DEF Post
<1>7. CASE BeginWrite \/ (\E w \in writing : WriteFails(w))
             \/ (\E q \in Prospect : RemoveProspect(q)) \/ Restart
  BY <1>1, <1>7 DEF BeginWrite, WriteFails, RemoveProspect, Restart
<1> QED
  BY <1>2, <1>3, <1>4, <1>5, <1>6, <1>7, EveryStep

\* The writes overtake each other nowhere: a stage the file holds as complete stays
\* complete in it (FileNeverBack, server.mjs:5875).
THEOREM TheFileGoesOn == ResearchSpec => FileNeverBack
<1>1. ResearchInit => JobsInv
  BY JobsAtFirst
<1>2. JobsInv /\ [ResearchNext]_researchVars => JobsInv'
  BY JobsAlways
<1>3. JobsInv /\ [ResearchNext]_researchVars =>
        [\A j \in Job, s \in Stage :
           file.jobs[j].stages[s] = "complete" => file'.jobs[j].stages[s] = "complete"]_researchVars
  BY FileGoesOn
<1> QED
  BY <1>1, <1>2, <1>3, PTL DEF ResearchSpec, FileNeverBack
=============================================================================
