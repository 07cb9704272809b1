------------------------------ MODULE Senders ------------------------------
(***************************************************************************)
(* The mailboxes that write cold mail, on one domain: the registry folded   *)
(* from the journal (esp/registry.mjs), the day's limits (esp/limits.mjs),  *)
(* the gate before the provider (esp/senders.mjs), the chain's pass and the *)
(* single letters and quick replies that go through them (esp/sequence.mjs, *)
(* esp/api.mjs), the pauses nobody presses (esp/alerts.mjs) and the ramp    *)
(* (esp/ramp.mjs).                                                          *)
(*                                                                          *)
(* Everybody decides from the journal in memory and appends to it through   *)
(* one queue: what is still in the queue nobody sees.  The gaps between     *)
(* letters and the hours they go at only refuse, so a writer may leave any  *)
(* letter unsent; the day turns while no letter, append or review is on its *)
(* way.  A finding is a refusal by policy, which counts for seven days      *)
(* (longer than a run).                                                     *)
(***************************************************************************)
EXTENDS Integers, Sequences, FiniteSets, FiniteSetsExt

CONSTANTS
  Senders,     \* the mailboxes of the domain
  Pass,        \* the chain's pass, which never overlaps itself
  Singles,     \* single letters that may be on their way at once (/send-one)
  Replies,     \* quick replies that may be on their way at once (/conversations/reply)
  Checks,      \* the two timers and the button that check the alarms
  Reviews,     \* the hourly look at the ramp, and the button
  Allow,       \* the ramp: Allow[k] is the letters a day of stage k
  DomainLimit, \* the letters a day of the domain
  Public,      \* it is a public mail domain, on which no such limit is kept
  Calls,       \* what the people at the screens do
  MaxCalls,    \* bound: how often they do it
  MaxDay,      \* bound: the days
  MaxQueue,    \* bound: the appends waiting at once
  MaxOverlaps, \* bound: checks begun while another runs
  MaxFaults    \* bound: failed appends, lost answers and restarts

ASSUME AllowAssumption ==
  /\ Allow \in Seq(Nat \ {0}) /\ Len(Allow) > 0
  /\ \A k \in 2 .. Len(Allow) : Allow[k] > Allow[k - 1]

Stage == DOMAIN Allow
Writers == {Pass} \cup Singles \cup Replies
Day == 1 .. MaxDay
Person == "person"
NoOne == "none"

ASSUME DomainAssumption == IsFiniteSet(Senders) /\ DomainLimit \in Nat /\ Public \in BOOLEAN

\* one name is one actor
ASSUME ActorsAssumption ==
  /\ Writers \cap (Checks \cup Reviews \cup {Person}) = {}
  /\ Checks \cap (Reviews \cup {Person}) = {}

VARIABLES
  sender,   \* the folded registry: status, stage, ceiling, the day it moved, the days it wrote since
  domain,   \* the state of the domain
  queue,    \* the appends on their way to the file
  used,     \* today's attempts that did not fail, as the journal has them
  bad,      \* the senders about whom the journal has a finding
  raised,   \* the day of a sender's last alarm
  writer,   \* each writer: where it is, its sender, and what it read
  check, review,          \* each check and review: what it has still to do
  day, calls, faults, overlaps,
  delivered, unheard,     \* today's letters the provider took; those of them journaled as failed
  top, blind, blindAny,   \* today's highest allowance; attempts made without seeing all the others,
                          \* and replies begun when the day's letters were written already
  late,                   \* letters taken from each writer since the sender was stopped
  stops,                  \* today's pauses by the alarms
  base                    \* the highest stage the day began with or a person set

journal == <<sender, domain, used, bad, raised>>
seen == <<delivered, unheard, top, blind, blindAny, late, stops, base>>
bounds == <<day, calls, faults, overlaps>>
vars == <<journal, queue, writer, check, review, bounds, seen>>

(***************************************************************************)
(* The registry and the limits.                                            *)
(***************************************************************************)
EffectiveStatus(s) ==
  CASE domain = "retired" -> "retired"
    [] domain \notin {"active", "retired"} /\ sender[s].status = "active" -> "held"
    [] OTHER -> sender[s].status

\* slip: the state of the domain is not asked
OwnStatus(s) == sender[s].status = "active"

CanSend(s) == EffectiveStatus(s) = "active"

ColdAllowance(s) == Min({sender[s].ceiling, Allow[sender[s].stage]})

\* a count of every mailbox, one mailbox after another
InRow == CHOOSE row \in Bijection(1 .. Cardinality(Senders), Senders) : TRUE
Total(count) ==
  LET sum[i \in 0 .. Cardinality(Senders)] == IF i = 0 THEN 0 ELSE sum[i - 1] + count[InRow[i]]
  IN sum[Cardinality(Senders)]

\* slip: the day of the domain is not asked
OwnRoom(w, s) == writer[w].ledger[s] < writer[w].allow[s]

\* sendDecision, on what the writer read and, of its own, wrote since
Room(w, s) ==
  /\ writer[w].ledger[s] < writer[w].allow[s]
  /\ Public \/ Total(writer[w].ledger) < DomainLimit

(***************************************************************************)
(* The queue of appends.                                                   *)
(***************************************************************************)
Enqueue(kind, s, to, by) ==
  /\ Len(queue) < MaxQueue
  /\ queue' = Append(queue, [kind |-> kind, of |-> s, to |-> to, by |-> by])

IdleWriter == [at |-> "idle", of |-> NoOne, ledger |-> [s \in Senders |-> 0],
               allow |-> [s \in Senders |-> 0]]
IdleWork == [at |-> "idle", of |-> NoOne, todo |-> {}]

\* where a writer goes on after a letter: the pass to its next one
NextLetter(w, ledger) ==
  IF w = Pass THEN [writer[w] EXCEPT !.at = "ready", !.of = NoOne, !.ledger = ledger]
              ELSE IdleWriter

Remembered(w, s, k) == [writer[w].ledger EXCEPT ![s] = @ + k]

Init ==
  /\ sender = [s \in Senders |-> [status |-> "active", stage |-> 1, ceiling |-> Allow[Len(Allow)],
                                  moved |-> 1, wrote |-> {}]]
  /\ domain = "active" /\ queue = <<>>
  /\ used = [s \in Senders |-> 0] /\ bad = {} /\ raised = [s \in Senders |-> 0]
  /\ writer = [w \in Writers |-> IdleWriter]
  /\ check = [k \in Checks |-> IdleWork] /\ review = [v \in Reviews |-> IdleWork]
  /\ day = 1 /\ calls = 0 /\ faults = 0 /\ overlaps = 0
  /\ delivered = [s \in Senders |-> 0] /\ unheard = [s \in Senders |-> 0]
  /\ top = [s \in Senders |-> Allow[1]] /\ blind = [s \in Senders |-> 0] /\ blindAny = 0
  /\ late = [w \in Writers |-> [s \in Senders |-> 0]] /\ stops = [s \in Senders |-> 0]
  /\ base = [s \in Senders |-> 1]

(***************************************************************************)
(* The letters.                                                            *)
(***************************************************************************)
\* The pass reads the journal and the senders once; a single letter reads its
\* sender, and then the journal, before it waits for the filters.
ReadFirst(w) ==
  /\ w \notin Replies /\ writer[w].at = "idle"
  /\ \E s \in IF w = Pass THEN {NoOne} ELSE {t \in Senders : CanSend(t)} :
       writer' = [writer EXCEPT ![w] = [at |-> "ready", of |-> s, ledger |-> used,
                                        allow |-> [t \in Senders |-> ColdAllowance(t)]]]
  /\ UNCHANGED <<journal, queue, check, review, bounds, seen>>

\* recordSending asks the registry once more before it appends
Attempt(w, s) ==
  /\ writer[w].at = "ready" /\ writer[w].of \in {s, NoOne}
  /\ CanSend(s) /\ Room(w, s)
  /\ Enqueue("sending", s, "", w)
  /\ writer' = [writer EXCEPT ![w].at = "queued", ![w].of = s]
  /\ UNCHANGED <<journal, check, review, bounds, seen>>

\* A reply from the inbox counts like any other letter and asks for no room:
\* only whether its mailbox may send at all.
QuickReply(w, s) ==
  /\ w \in Replies /\ writer[w].at = "idle"
  /\ CanSend(s)
  /\ Enqueue("sending", s, "", w)
  /\ writer' = [writer EXCEPT ![w].at = "queued", ![w].of = s]
  /\ UNCHANGED <<journal, check, review, bounds, seen>>

\* every other way a letter, or the pass, comes to its end
GiveUp(w) ==
  /\ writer[w].at = "ready"
  /\ writer' = [writer EXCEPT ![w] = IdleWriter]
  /\ UNCHANGED <<journal, queue, check, review, bounds, seen>>

\* the gate: what it refuses is journaled as failed
Gate(w) ==
  /\ writer[w].at = "gate"
  /\ \/ /\ CanSend(writer[w].of)
        /\ writer' = [writer EXCEPT ![w].at = "provider"]
        /\ UNCHANGED queue
     \/ /\ ~CanSend(writer[w].of)
        /\ Enqueue("failed", writer[w].of, "", w)
        /\ writer' = [writer EXCEPT ![w].at = "queued"]
  /\ UNCHANGED <<journal, check, review, bounds, seen>>

Stopped(s) == sender[s].status # "active" \/ domain # "active"

Taken(w) ==
  LET s == writer[w].of IN
  /\ delivered' = [delivered EXCEPT ![s] = @ + 1]
  /\ late' = [late EXCEPT ![w][s] = IF Stopped(s) THEN @ + 1 ELSE 0]

\* the provider takes the letter and says so
Accepted(w) ==
  /\ writer[w].at = "provider"
  /\ Taken(w)
  /\ Enqueue("sent", writer[w].of, "", w)
  /\ writer' = [writer EXCEPT ![w].at = "queued"]
  /\ UNCHANGED <<journal, check, review, bounds, unheard, top, blind, blindAny, stops, base>>

\* The provider takes the letter and its answer is lost: the pass sets the
\* person aside and the attempt counts; any other letter is journaled as failed.
AnswerLost(w) ==
  /\ writer[w].at = "provider" /\ faults < MaxFaults
  /\ faults' = faults + 1
  /\ Taken(w)
  /\ \/ /\ w = Pass
        /\ writer' = [writer EXCEPT ![w] = NextLetter(w, writer[w].ledger)]
        /\ UNCHANGED <<queue, unheard>>
     \/ /\ w # Pass
        /\ Enqueue("failed", writer[w].of, "", w)
        /\ writer' = [writer EXCEPT ![w].at = "queued"]
        /\ unheard' = [unheard EXCEPT ![writer[w].of] = @ + 1]
  /\ UNCHANGED <<journal, check, review, day, calls, overlaps, top, blind, blindAny, stops, base>>

\* The provider refuses.  When it refuses the mailbox, the gate pauses it
\* first, unless somebody has: the first reason stays.
Refused(w) ==
  /\ writer[w].at = "provider"
  /\ \/ /\ Enqueue("failed", writer[w].of, "", w)
        /\ writer' = [writer EXCEPT ![w].at = "queued"]
     \/ /\ sender[writer[w].of].status = "active"
        /\ Enqueue("status", writer[w].of, "paused", w)
        /\ writer' = [writer EXCEPT ![w].at = "queued"]
  /\ UNCHANGED <<journal, check, review, bounds, seen>>

\* the pause of the gate is in the journal: the letter failed
AfterPause(w) ==
  /\ writer[w].at = "refused"
  /\ Enqueue("failed", writer[w].of, "", w)
  /\ writer' = [writer EXCEPT ![w].at = "queued"]
  /\ UNCHANGED <<journal, check, review, bounds, seen>>

\* an answer by policy comes back about a letter of the sender (ESP 7)
PolicyBounce(s) ==
  /\ delivered[s] > 0 /\ s \notin bad
  /\ bad' = bad \cup {s}
  /\ UNCHANGED <<sender, domain, used, raised, queue, writer, check, review, bounds, seen>>

(***************************************************************************)
(* The alarms.                                                             *)
(***************************************************************************)
\* slip: an alarm of today is raised again
NeverRaised(s) == s \in Senders /\ FALSE

Fresh(s) == raised[s] = day

\* reviewAlerts and the keys raised in the last day: one of yesterday may
\* still be within its twenty-four hours
CheckReads(k) ==
  /\ check[k].at = "idle"
  /\ \E known \in SUBSET {s \in Senders : raised[s] = day - 1 /\ day > 1} :
       LET todo == {s \in Senders : sender[s].status = "active" /\ s \in bad
                                    /\ ~Fresh(s) /\ s \notin known}
       IN todo # {} /\ check' = [check EXCEPT ![k] = [at |-> "next", of |-> NoOne, todo |-> todo]]
  /\ IF \E j \in Checks : check[j].at # "idle"
     THEN overlaps < MaxOverlaps /\ overlaps' = overlaps + 1
     ELSE UNCHANGED overlaps
  /\ UNCHANGED <<journal, queue, writer, review, day, calls, faults, seen>>

\* setSenderStatus: nothing to do for one paused by now, an error for one
\* retired, and either way the alarm follows
CheckPauses(k) ==
  /\ check[k].at = "next"
  /\ \E s \in check[k].todo :
       \/ /\ sender[s].status = "active"
          /\ Enqueue("status", s, "paused", k)
          /\ check' = [check EXCEPT ![k].at = "queued", ![k].of = s]
       \/ /\ sender[s].status # "active"
          /\ check' = [check EXCEPT ![k].at = "alarm", ![k].of = s]
          /\ UNCHANGED queue
  /\ UNCHANGED <<journal, writer, review, bounds, seen>>

CheckRaises(k) ==
  /\ check[k].at = "alarm"
  /\ Enqueue("alert", check[k].of, "", k)
  /\ check' = [check EXCEPT ![k].at = "queued"]
  /\ UNCHANGED <<journal, writer, review, bounds, seen>>

AfterAlarm(k) ==
  LET left == check[k].todo \ {check[k].of}
  IN IF left = {} THEN IdleWork ELSE [at |-> "next", of |-> NoOne, todo |-> left]

(***************************************************************************)
(* The ramp.                                                               *)
(***************************************************************************)
\* a step is due once a day, and earned by a day of sending that is over
Due(s) == sender[s].moved < day
Earned(s) == s \notin bad /\ \E d \in sender[s].wrote : d < day

ReviewReads(v) ==
  /\ review[v].at = "idle"
  /\ LET up == {s \in Senders : EffectiveStatus(s) = "active" /\ Due(s) /\ Earned(s)
                                /\ sender[s].stage + 1 \in Stage}
     IN /\ up # {}
        /\ review' = [review EXCEPT ![v] = [at |-> "next", of |-> NoOne,
                                            todo |-> {<<s, sender[s].stage + 1>> : s \in up}]]
  /\ UNCHANGED <<journal, queue, writer, check, bounds, seen>>

\* updateSender: a stage already set changes nothing, a retired sender and a
\* stage jumped over are errors, which end the whole review
ReviewSteps(v) ==
  /\ review[v].at = "next"
  /\ \E up \in review[v].todo :
       LET s == up[1]
           rest == review[v].todo \ {up}
       IN \/ /\ sender[s].status # "retired" /\ up[2] <= sender[s].stage + 1 /\ up[2] # sender[s].stage
             /\ Enqueue("stage", s, up[2], v)
             /\ review' = [review EXCEPT ![v] = [at |-> "queued", of |-> s, todo |-> rest]]
          \/ /\ sender[s].status # "retired" /\ up[2] = sender[s].stage
             /\ review' = [review EXCEPT ![v] = IF rest = {} THEN IdleWork ELSE [@ EXCEPT !.todo = rest]]
             /\ UNCHANGED queue
          \/ /\ sender[s].status = "retired" \/ up[2] > sender[s].stage + 1
             /\ review' = [review EXCEPT ![v] = IdleWork]
             /\ UNCHANGED queue
  /\ UNCHANGED <<journal, writer, check, bounds, seen>>

(***************************************************************************)
(* The people: a sender's status, stage and ceiling, the domain's state.    *)
(***************************************************************************)
Asked(call) == call \in Calls /\ calls < MaxCalls /\ calls' = calls + 1

SetSenderStatus ==
  \E s \in Senders, to \in {"active", "paused", "retired"} :
    /\ sender[s].status \notin {"retired", to}
    /\ Asked(to)
    /\ Enqueue("status", s, to, Person)
    /\ UNCHANGED <<journal, writer, check, review, day, faults, overlaps, seen>>

SetDomainStatus ==
  \E to \in {"active", "paused", "retired"} :
    /\ domain \notin {"retired", to}
    /\ Asked("domain")
    /\ Enqueue("domain", NoOne, to, Person)
    /\ UNCHANGED <<journal, writer, check, review, day, faults, overlaps, seen>>

UpdateStage ==
  \E s \in Senders, to \in Stage :
    /\ sender[s].status # "retired" /\ to # sender[s].stage /\ to <= sender[s].stage + 1
    /\ Asked("stage")
    /\ Enqueue("stage", s, to, Person)
    /\ UNCHANGED <<journal, writer, check, review, day, faults, overlaps, seen>>

UpdateCeiling ==
  \E s \in Senders, to \in 0 .. Allow[Len(Allow)] :
    /\ sender[s].status # "retired" /\ to # sender[s].ceiling
    /\ Asked("ceiling")
    /\ Enqueue("ceiling", s, to, Person)
    /\ UNCHANGED <<journal, writer, check, review, day, faults, overlaps, seen>>

(***************************************************************************)
(* An append lands: the fold sees it, and whoever wrote it goes on.        *)
(***************************************************************************)
\* slip: a step of the ramp is dated by the day the sender was added (stageSince)
SinceAdded(e) ==
  CASE e.kind = "status"  -> [sender EXCEPT ![e.of].status = e.to]
    [] e.kind = "stage"   -> [sender EXCEPT ![e.of].stage = e.to]
    [] e.kind = "ceiling" -> [sender EXCEPT ![e.of].ceiling = e.to]
    [] e.kind = "sent"    -> [sender EXCEPT ![e.of].wrote = @ \cup {day}]
    [] OTHER              -> sender

Fold(e) ==
  CASE e.kind = "status"  -> [sender EXCEPT ![e.of].status = e.to]
    [] e.kind = "stage"   -> [sender EXCEPT ![e.of].stage = e.to, ![e.of].moved = day, ![e.of].wrote = {}]
    [] e.kind = "ceiling" -> [sender EXCEPT ![e.of].ceiling = e.to]
    [] e.kind = "sent"    -> [sender EXCEPT ![e.of].wrote = @ \cup {day}]
    [] OTHER              -> sender

\* sendLedger: an attempt counts from its line on, unless one says it failed
Ledger(e) ==
  CASE e.kind = "sending" -> [used EXCEPT ![e.of] = @ + 1]
    [] e.kind = "failed"  -> [used EXCEPT ![e.of] = @ - 1]
    [] OTHER              -> used

WriterGoesOn(e) ==
  LET w == e.by IN
  CASE e.kind = "sending" -> [writer[w] EXCEPT !.at = "gate", !.ledger = Remembered(w, e.of, 1)]
    [] e.kind = "status"  -> [writer[w] EXCEPT !.at = "refused"]
    [] e.kind = "failed"  -> NextLetter(w, Remembered(w, e.of, -1))
    [] e.kind = "sent"    -> NextLetter(w, writer[w].ledger)

Landed(e) ==
  /\ writer' = IF e.by \in Writers THEN [writer EXCEPT ![e.by] = WriterGoesOn(e)] ELSE writer
  /\ check' = CASE e.by \in Checks /\ e.kind = "status" -> [check EXCEPT ![e.by].at = "alarm"]
                [] e.by \in Checks /\ e.kind = "alert"  -> [check EXCEPT ![e.by] = AfterAlarm(e.by)]
                [] OTHER -> check
  /\ review' = IF e.by \in Reviews
               THEN [review EXCEPT ![e.by] = IF @.todo = {} THEN IdleWork ELSE [@ EXCEPT !.at = "next", !.of = NoOne]]
               ELSE review

\* an attempt whose writer did not see another's, or a reply when there was no room
Beyond(w, s) == IF w \in Replies THEN used[s] >= top[s] ELSE writer[w].ledger[s] < used[s]
BeyondAny(w) == IF w \in Replies THEN Total(used) >= DomainLimit
                                 ELSE \E s \in Senders : writer[w].ledger[s] < used[s]

\* what the properties remember of it
Noted(e) ==
  /\ top' = [s \in Senders |-> Max({top[s], ColdAllowance(s)'})]
  /\ blind' = IF e.kind = "sending" /\ Beyond(e.by, e.of)
              THEN [blind EXCEPT ![e.of] = @ + 1] ELSE blind
  /\ blindAny' = IF e.kind = "sending" /\ BeyondAny(e.by)
                 THEN blindAny + 1 ELSE blindAny
  /\ stops' = IF e.kind = "status" /\ e.by \in Checks THEN [stops EXCEPT ![e.of] = @ + 1] ELSE stops
  /\ base' = IF e.kind = "stage" /\ e.by = Person THEN [base EXCEPT ![e.of] = Max({@, e.to})] ELSE base
  /\ late' = [w \in Writers |-> [s \in Senders |-> IF Stopped(s)' THEN late[w][s] ELSE 0]]

Lands ==
  /\ queue # <<>>
  /\ LET e == Head(queue) IN
       /\ sender' = Fold(e)
       /\ domain' = IF e.kind = "domain" THEN e.to ELSE domain
       /\ used' = Ledger(e)
       /\ raised' = IF e.kind = "alert" THEN [raised EXCEPT ![e.of] = day] ELSE raised
       /\ Landed(e)
       /\ Noted(e)
  /\ queue' = Tail(queue)
  /\ UNCHANGED <<bad, bounds, delivered, unheard>>

(***************************************************************************)
(* What fails: an append, and the process.                                 *)
(***************************************************************************)
\* A letter of whose fate the journal could not be told: the pass sets the
\* person aside, any other letter is journaled as failed.
LandFails ==
  /\ queue # <<>> /\ faults < MaxFaults
  /\ faults' = faults + 1
  /\ LET e == Head(queue)
         unsaid == e.by \in Singles \cup Replies /\ e.kind \in {"sent", "status"}
     IN
       /\ queue' = IF unsaid
                   THEN Append(Tail(queue), [kind |-> "failed", of |-> e.of, to |-> "", by |-> e.by])
                   ELSE Tail(queue)
       /\ unheard' = IF unsaid /\ e.kind = "sent" THEN [unheard EXCEPT ![e.of] = @ + 1] ELSE unheard
       /\ writer' = IF e.by \notin Writers \/ unsaid THEN writer
                    ELSE [writer EXCEPT ![e.by] = IF e.kind = "failed" THEN IdleWriter
                                                  ELSE NextLetter(e.by, writer[e.by].ledger)]
       /\ check' = CASE e.by \in Checks /\ e.kind = "status" -> [check EXCEPT ![e.by].at = "alarm"]
                     [] e.by \in Checks /\ e.kind = "alert"  -> [check EXCEPT ![e.by] = IdleWork]
                     [] OTHER -> check
       /\ review' = IF e.by \in Reviews THEN [review EXCEPT ![e.by] = IdleWork] ELSE review
  /\ UNCHANGED <<journal, day, calls, overlaps, delivered, top, blind, blindAny, late, stops, base>>

Restart ==
  /\ faults < MaxFaults /\ faults' = faults + 1
  /\ queue' = <<>>
  /\ writer' = [w \in Writers |-> IdleWriter]
  /\ check' = [k \in Checks |-> IdleWork] /\ review' = [v \in Reviews |-> IdleWork]
  /\ UNCHANGED <<journal, day, calls, overlaps, seen>>

NextDay ==
  /\ day < MaxDay /\ day' = day + 1
  /\ queue = <<>> /\ \A w \in Writers : writer[w].at = "idle"
  /\ \A v \in Reviews : review[v].at = "idle"
  /\ used' = [s \in Senders |-> 0]
  /\ delivered' = used' /\ unheard' = used' /\ blind' = used' /\ blindAny' = 0 /\ stops' = used'
  /\ top' = [s \in Senders |-> ColdAllowance(s)]
  /\ base' = [s \in Senders |-> sender[s].stage]
  /\ UNCHANGED <<sender, domain, bad, raised, queue, writer, check, review, calls, faults, overlaps, late>>

Next ==
  \/ \E w \in Writers : \/ ReadFirst(w) \/ GiveUp(w) \/ Gate(w) \/ Accepted(w) \/ AnswerLost(w)
                        \/ Refused(w) \/ AfterPause(w)
                        \/ \E s \in Senders : Attempt(w, s) \/ QuickReply(w, s)
  \/ \E s \in Senders : PolicyBounce(s)
  \/ \E k \in Checks : CheckReads(k) \/ CheckPauses(k) \/ CheckRaises(k)
  \/ \E v \in Reviews : ReviewReads(v) \/ ReviewSteps(v)
  \/ SetSenderStatus \/ SetDomainStatus \/ UpdateStage \/ UpdateCeiling
  \/ Lands \/ LandFails \/ Restart \/ NextDay

Spec == Init /\ [][Next]_vars

-----------------------------------------------------------------------------
TypeOK ==
  /\ \A s \in Senders : /\ sender[s].status \in {"active", "paused", "retired"}
                         /\ sender[s].stage \in Stage /\ sender[s].ceiling \in Nat
                         /\ sender[s].moved \in Day /\ sender[s].wrote \subseteq Day
  /\ domain \in {"active", "paused", "retired"} /\ Len(queue) <= MaxQueue
  /\ used \in [Senders -> Nat] /\ raised \in [Senders -> 0 .. MaxDay] /\ bad \subseteq Senders

\* A mailbox never writes more letters in a day than the largest allowance it
\* had that day, nor the domain more than its own unless it is a public one, but
\* for the letters whose writer could not see another one's (a single letter reads
\* the day before it waits for the filters, the pass once for all), the replies
\* written when the day's letters were written already (nobody asks for room, and
\* yet a reply takes the room of a cold letter), and the letters that went and were
\* journaled as failed (sendLedger: an attempt still in flight is a letter).  Test
\* letters to a colleague's own address (/test-send) are in no journal.
DayAllowance ==
  /\ \A s \in Senders : delivered[s] <= top[s] + blind[s] + unheard[s]
  /\ Public \/ Total(delivered) <= DomainLimit + blindAny + Total(unheard)

\* Once a mailbox or its domain is stopped, by a person, an alarm or the gate,
\* each writer sends from it at most the letter the gate had let through.
OneAfterStop == \A w \in Writers, s \in Senders : late[w][s] <= 1

\* An alarm pauses a mailbox once a day: a person who lifts the pause is not
\* overruled for the same reason, unless checks ran side by side or one was cut
\* off between the pause and its alarm (applyAlerts: the pause stands until a
\* person lifts it).
LiftedStaysLifted == \A s \in Senders : stops[s] <= 1 + overlaps + faults

\* The ramp lifts a mailbox one stage a day above where the day found it or a
\* person put it, however many reviews run and whatever people change meanwhile.
OneStepADay == \A s \in Senders : sender[s].stage <= base[s] + 1
=============================================================================
