-------------------------------- MODULE Outbox --------------------------------
(***************************************************************************)
(* Messages written in the portal that one LinkedIn account sends from its *)
(* own session (warmup/outbox.mjs, their routes in warmup/api.mjs,         *)
(* agent/lib/outbox.mjs).                                                  *)
(*                                                                         *)
(* A reply is a row of wl_events, and what happens to it is a later row    *)
(* that points back at it; the newest decides.  Every call of the portal   *)
(* reads all the rows and then adds one, in two round trips.  The agent    *)
(* types into LinkedIn, looks whether the message is there, and reports;   *)
(* its reports are asked again when no answer comes.                       *)
(*                                                                         *)
(* Abstracted: the texts to a few words that are the same or not, pages    *)
(* and composers to the outcome `could not', the hours of the 72-hour      *)
(* limit to dates, the account's door (health, run, exclusion) to a visit  *)
(* that stops.                                                             *)
(***************************************************************************)
EXTENDS Naturals, FiniteSets, Sequences, FiniteSetsExt, SequencesExt

CONSTANTS
  Threads,     \* conversations there are
  Firsts,      \* people who accepted and have no conversation yet
  Words,
  Asks,        \* which words are asked for in which conversation
  Slots,       \* calls the portal serves at the same time
  PerDay,      \* INBOX_REPLIES_PER_DAY
  PerSession,  \* REPLIES_PER_SESSION
  MaxWaiting,  \* WAITING_PER_ACCOUNT
  Expire,      \* EXPIRES_AFTER_MS: the dates a reply waits
  Attempts,    \* reportWithRetry
  MaxReplies   \* bound: replies ever queued

ASSUME ConstantsAssumption ==
  /\ Threads \cap Firsts = {} /\ Asks \subseteq (Threads \cup Firsts) \X Words
  /\ {PerDay, PerSession, MaxWaiting, Attempts} \subseteq Nat \ {0}
  /\ {Expire, MaxReplies} \subseteq Nat

VARIABLES
  replies,   \* the queued rows in order, each with the newest verdict on it: its age
             \* in dates, and whether the verdict is of today
  chat,      \* what stands last in each conversation on LinkedIn
  twice,     \* conversations in which the same words were said twice in a row
  agent,     \* the visit: what is left of its plan, where it is
  job,       \* the call in each slot, between its read and its write
  back       \* replies whose author was told they are taken back

vars == <<replies, chat, twice, agent, job, back>>

Away == Threads \cup Firsts
Them == "them"
Nothing == "nothing"
Ids == 1 .. Len(replies)

-----------------------------------------------------------------------------
(* Where a reply stands: deriveReplies.                                    *)

Expired(r) == r.age > Expire

State(i) ==
  IF replies[i].verdict # "none" THEN replies[i].verdict
  ELSE IF Expired(replies[i]) THEN "expired" ELSE "waiting"

Waiting == {i \in Ids : State(i) = "waiting"}

\* slip: a reply counts on the date it was queued on
SentOfToday == Cardinality({i \in Ids : State(i) = "sent" /\ replies[i].age = 0})

SentToday == Cardinality({i \in Ids : State(i) = "sent" /\ replies[i].today})

\* note
Note(i, v) == replies' = [replies EXCEPT ![i].verdict = v, ![i].today = TRUE]

-----------------------------------------------------------------------------
(* The portal.                                                             *)

Gone == [at |-> "off", items |-> <<>>, id |-> 0, slot |-> 0, say |-> "none", left |-> 0]

\* the agent goes on to the next reply of its plan
Onwards(items) == [Gone EXCEPT !.at = "next", !.items = items]

Idle == [kind |-> "none", id |-> 0, thread |-> "none", words |-> "none"]

Free(s) == job[s].kind = "none"

\* slip: calls that queue do not wait for each other
AnyTurn == TRUE

\* withAccountQuota: one at a time; who still waits for the turn has not begun here
MyTurn == \A s \in Slots : job[s].kind # "queue"

Leaves(s) == job' = [job EXCEPT ![s] = Idle]

\* a first message of other words is waiting or sent
Spoken(t, w) ==
  t \in Firsts /\ \E i \in Ids : /\ replies[i].thread = t
                                 /\ State(i) \in {"waiting", "sent"}
                                 /\ replies[i].words # w

Same(t, w) == \E i \in Waiting : replies[i].thread = t /\ replies[i].words = w

Full == Cardinality(Waiting) >= MaxWaiting

\* POST /inbox/reply where somebody has written, POST /first-messages/send, and
\* queueReply: what is not refused, and is not the copy that is already waiting
QueueRead(s, t, w) ==
  /\ Free(s) /\ MyTurn
  /\ t \in Threads => chat[t] # Nothing
  /\ ~Spoken(t, w) /\ ~Same(t, w) /\ ~Full
  /\ SentToday + Cardinality(Waiting) < PerDay
  /\ job' = [job EXCEPT ![s] = [Idle EXCEPT !.kind = "queue", !.thread = t, !.words = w]]
  /\ UNCHANGED <<replies, chat, twice, agent, back>>

QueueWrite(s) ==
  /\ job[s].kind = "queue"
  /\ Len(replies) < MaxReplies
  /\ replies' = Append(replies, [thread |-> job[s].thread, words |-> job[s].words,
                                 age |-> 0, verdict |-> "none", today |-> FALSE])
  /\ Leaves(s)
  /\ UNCHANGED <<chat, twice, agent, back>>

\* the agent was told `yes' about this reply and has not yet said how it went
Holds(i) == agent.id = i /\ agent.at = "type"

TellTaken(i) == back' = IF Holds(i) THEN back ELSE back \cup {i}

\* POST /inbox/reply/cancel: what is sent is refused, what is cancelled is a yes
CancelRead(s, i) ==
  /\ Free(s)
  /\ CASE State(i) = "sent"      -> UNCHANGED <<job, back>>
       [] State(i) = "cancelled" -> UNCHANGED job /\ TellTaken(i)
       [] OTHER -> /\ job' = [job EXCEPT ![s] = [Idle EXCEPT !.kind = "cancelled", !.id = i]]
                   /\ UNCHANGED back
  /\ UNCHANGED <<replies, chat, twice, agent>>

\* the write of cancelReply, markReplySent, markReplyFailed, on what was read before;
\* the agent hears the answer if it still waits for this call
NoteWrite(s) ==
  LET i == job[s].id
  IN /\ job[s].kind \in {"cancelled", "sent", "failed"}
     /\ Note(i, job[s].kind)
     /\ Leaves(s)
     /\ IF job[s].kind = "cancelled" THEN TellTaken(i) ELSE UNCHANGED back
     /\ agent' = IF agent.at = "wait" /\ agent.slot = s
                 THEN Onwards(agent.items) ELSE agent
     /\ UNCHANGED <<chat, twice>>

\* an error of the database, or a restart of the portal: nobody is answered, the
\* agent neither if it still waits for this call
Fail(s) ==
  /\ ~Free(s)
  /\ Leaves(s)
  /\ agent' = IF agent.at = "wait" /\ agent.slot = s THEN [agent EXCEPT !.slot = 0] ELSE agent
  /\ UNCHANGED <<replies, chat, twice, back>>

-----------------------------------------------------------------------------
(* The agent: sendReplies.                                                 *)


\* repliesToSend: the oldest waiting, within the session's and the day's share.  No
\* report of an earlier visit is still being served: a call does not live for hours
Visit ==
  LET room == IF SentToday >= PerDay THEN 0 ELSE PerDay - SentToday
      plan == SetToSortSeq(Waiting, <)
      n == Min({PerSession, room, Cardinality(Waiting)})
  IN /\ agent.at = "off" /\ Waiting # {} /\ room > 0
     /\ \A s \in Slots : job[s].kind \notin {"sent", "failed"}
     /\ agent' = Onwards([i \in 1 .. n |-> plan[i]])
     /\ UNCHANGED <<replies, chat, twice, job, back>>

\* slip: what the plan says goes out
OnPlan(i) == SentToday < PerDay

\* prepareReply
Allowed(i) == State(i) = "waiting" /\ SentToday < PerDay

Prepare ==
  LET i == Head(agent.items)
      rest == Onwards(Tail(agent.items))
  IN /\ agent.at = "next" /\ agent.items # <<>>
     /\ agent' = IF Allowed(i) THEN [rest EXCEPT !.at = "type", !.id = i]
                 ELSE IF State(i) = "waiting" THEN Gone     \* the day's limit ends the lot
                 ELSE rest
     /\ UNCHANGED <<replies, chat, twice, job, back>>

Report(say) == [agent EXCEPT !.at = "tell", !.say = say, !.left = Attempts]

\* slip: what stands in the conversation is not looked at
NotLooked(t, w) == FALSE

\* the second guard: these words already stand last, from this account
SaidLast(t, w) == chat[t] = w

\* the conversation is read before anything is typed; one opened over a profile may
\* show nothing yet
Clear(t, w) == ~SaidLast(t, w) \/ t \in Firsts

\* opened, read, typed and pressed: the words are in the conversation, and are seen
\* there or not; or something did not go
Type ==
  LET r == replies[agent.id]
      said == /\ Clear(r.thread, r.words)
              /\ chat' = [chat EXCEPT ![r.thread] = r.words]
              /\ twice' = IF chat[r.thread] = r.words THEN twice \cup ({r.thread} \cap Threads)
                          ELSE twice
  IN /\ agent.at = "type"
     /\ \/ said /\ agent' = Report("sent")
        \/ said /\ agent' = Report("failed")
        \/ UNCHANGED <<chat, twice>> /\ agent' = Report("failed")
     /\ UNCHANGED <<replies, job, back>>

\* outbox.sent, outbox.failed: a reply that reads sent is answered, nothing is written
Tell(s) ==
  /\ agent.at = "tell" /\ agent.left > 0 /\ Free(s)
  /\ IF State(agent.id) = "sent"
     THEN agent' = Onwards(agent.items) /\ UNCHANGED job
     ELSE /\ agent' = [agent EXCEPT !.at = "wait", !.slot = s, !.left = @ - 1]
          /\ job' = [job EXCEPT ![s] = [Idle EXCEPT !.kind = agent.say, !.id = agent.id]]
  /\ UNCHANGED <<replies, chat, twice, back>>

\* no answer came, whatever the portal is still doing: once more, or the visit stops
NoAnswer ==
  /\ agent.at = "wait"
  /\ agent' = IF agent.left = 0 THEN Gone ELSE [agent EXCEPT !.at = "tell", !.slot = 0]
  /\ UNCHANGED <<replies, chat, twice, job, back>>

\* the plan is done; a warning, a stop or a crash ends the visit anywhere
Stop ==
  /\ agent.at # "off"
  /\ agent' = Gone
  /\ UNCHANGED <<replies, chat, twice, job, back>>

-----------------------------------------------------------------------------
\* somebody else writes: the other side, or the account's owner by hand
Write(t) ==
  /\ chat' = [chat EXCEPT ![t] = Them]
  /\ UNCHANGED <<replies, twice, agent, job, back>>

\* no session is open at night, and no call straddles it
Midnight ==
  /\ agent.at = "off" /\ \A s \in Slots : Free(s)
  /\ replies' = [i \in Ids |-> [replies[i] EXCEPT !.age = Min({@ + 1, Expire + 1}),
                                                 !.today = FALSE]]
  /\ UNCHANGED <<chat, twice, agent, job, back>>

Init ==
  /\ replies = <<>>
  /\ chat = [t \in Away |-> IF t \in Firsts THEN Nothing ELSE Them] /\ twice = {}
  /\ agent = Gone
  /\ job = [s \in Slots |-> Idle]
  /\ back = {}

Portal(s) ==
  \/ \E a \in Asks : QueueRead(s, a[1], a[2])
  \/ \E i \in Ids : CancelRead(s, i)
  \/ QueueWrite(s) \/ NoteWrite(s) \/ Fail(s)

Agent ==
  Visit \/ Prepare \/ Type \/ NoAnswer \/ Stop \/ \E s \in Slots : Tell(s)

Next == Agent \/ Midnight \/ (\E s \in Slots : Portal(s)) \/ \E t \in Away : Write(t)

Spec == Init /\ [][Next]_vars
-----------------------------------------------------------------------------
(* Properties.                                                             *)

TypeOK ==
  /\ \A i \in Ids :
       /\ replies[i].thread \in Away /\ replies[i].words \in Words
       /\ replies[i].age \in 0 .. Expire + 1
       /\ replies[i].verdict \in {"none", "sent", "failed", "cancelled"}
       /\ replies[i].today => replies[i].verdict # "none"
  /\ chat \in [Away -> Words \cup {Them, Nothing}] /\ twice \subseteq Threads
  /\ agent.at \in {"off", "next", "type", "tell", "wait"}
  /\ agent.items \in Seq(Ids) /\ agent.id \in Ids \cup {0} /\ agent.left \in 0 .. Attempts
  /\ \A s \in Slots : job[s].kind \in {"none", "queue", "cancelled", "sent", "failed"}
  /\ back \subseteq Ids

\* A double click, or a page that sent again after a timeout, never has the same
\* words waiting twice for one conversation (queueReply): the look and the insert
\* are two round trips.
OneWaitingCopy ==
  \A i, j \in Waiting : replies[i].thread = replies[j].thread /\ replies[i].words = replies[j].words
                          => i = j

\* On no date are more replies recorded as sent than the day's limit, however
\* reports are repeated, visits cut short and old replies left over.
DayLimit == Cardinality({i \in Ids : replies[i].verdict = "sent" /\ replies[i].today}) <= PerDay

\* The same words never stand twice in a row in an open conversation: a message that
\* went out while its report was lost is handed out again, and is not typed again
\* (sendReplies, the second guard).
NotTwiceInARow == twice = {}

\* What its author was told is taken back is never typed, unless the agent had been
\* told to go ahead before (cancelReply, prepareReply).
NotAfterTakenBack == [][agent.at = "type" /\ agent'.at = "tell"
                          => agent.id \notin back]_vars
=============================================================================
