----------------------------- MODULE MailChain -----------------------------
(***************************************************************************)
(* The cold-email chain: one pass of esp/sequence.mjs (runTick) over the   *)
(* running campaigns, and everything that may happen while the pass waits  *)
(* for the disk or for the mail provider: the campaign routes of           *)
(* esp/campaigns.mjs, the inbox reader, the unsubscribe page, the erasure  *)
(* of a person, the system stop, a restart of the server.                  *)
(*                                                                         *)
(* An action is the code between two awaits that reach the disk or the     *)
(* network.  The pass reads the journal once, at its start, and the rows   *)
(* of a campaign once, when it comes to that campaign; `known' and `rows'  *)
(* are those copies, and what makes the pass hard to get right is that     *)
(* they grow stale while it works.                                         *)
(*                                                                         *)
(* Abstracted: sender mailboxes, limits and windows (one action that       *)
(* passes a person over), the text of letters (they can be written, or     *)
(* not), dates (working days left until the next letter is due; a pass     *)
(* does not straddle midnight, and the whole horizon is shorter than the   *)
(* 90 days of RECONTACT_DAYS).                                             *)
(***************************************************************************)
EXTENDS Naturals, FiniteSets

CONSTANTS
  Person,       \* addresses
  Campaign,     \* campaign ids; an id is never used again
  CompanyOf,    \* companyKey of each person
  Steps,        \* letters in a chain
  Delay,        \* working days before each letter, by step
  AwayDays,     \* working days an auto-reply may push the next letter away
  Enrolled,     \* who is in which campaign, already running, to begin with
  Env,          \* which of the things around the pass happen at all
  MaxFaults,    \* bound: refusals, lost answers, failed writes, restarts, stops
  Nobody,       \* the contact of a redacted journal line
  NoCampaign    \* no campaign is being walked

Step == 0 .. Steps - 1

ASSUME ConstantsAssumption ==
  /\ Steps \in Nat \ {0}
  /\ Delay \in [Step -> Nat]
  /\ AwayDays \subseteq Nat \ {0}
  /\ Enrolled \subseteq Campaign \X Person
  /\ \A x, y \in Enrolled : x[2] = y[2] => x = y
  /\ MaxFaults \in Nat
  /\ Nobody \notin Person
  /\ NoCampaign \notin Campaign

VARIABLES
  journal,      \* the lines of the ESP journal (durable)
  last,         \* seq of its last line
  camp,         \* espCampaigns: the state of each campaign
  enr,          \* espEnrollments: the row of each person in each campaign
  halted,       \* espHalt.on
  pending,      \* second halves of requests whose first write is awaited
  saved,        \* what of camp, enr and halted the state file holds
  pc, known, own, camps, cur, rows, todo, who, att, cause,   \* the pass
  delivered,    \* what each person's mailbox has received
  late,         \* letters delivered since a stop, per system and campaign
  away,         \* working days each person has said they are away for
  faults        \* faults that have happened

stateVars == <<camp, enr, halted>>
tickVars  == <<pc, known, own, camps, cur, rows, todo, who, att, cause>>
worldVars == <<delivered, late, away>>
vars == <<journal, last, stateVars, pending, saved, tickVars, worldVars, faults>>

-----------------------------------------------------------------------------
(* Rows of a campaign and lines of the journal.                            *)

NoRow == [st |-> "none", step |-> 0, due |-> 0, fixable |-> FALSE, since |-> 0, held |-> 0]

Line(k, p, c, s, of) ==
  [seq |-> last + 1, kind |-> k, who |-> p, camp |-> c, step |-> s, of |-> of]

Append(e) == journal' = journal \cup {e} /\ last' = last + 1

Told(E, p, kinds) == \E e \in E : e.kind \in kinds /\ e.who = p

\* exclusions + checkLead: unsubscribed, bounced for good, or erased (by hash)
Excluded(E, p) == Told(E, p, {"unsubscribed", "bounced", "erased"})

\* stopperFor: an answer, a bounce or an unsubscribe since the person joined
Stopper(E, p, row) ==
  \E e \in E : /\ e.kind \in {"replied", "bounced", "unsubscribed"}
               /\ e.who = p
               /\ e.seq > row.since

\* recentContactBlocks, asked for a first letter only
RepliedBefore(E, p, row) == row.step = 0 /\ Told(E, p, {"replied"})
ContactedRecently(E, p, row) == row.step = 0 /\ Told(E, p, {"sent"})

\* slip: a colleague's answer holds first letters only
ColleagueRepliedAtFirst(E, c, p, row) ==
  row.step = 0 /\ \E e \in E : /\ e.kind = "replied" /\ e.camp = c /\ e.who \in Person
                               /\ e.who # p /\ CompanyOf[e.who] = CompanyOf[p]

\* companyReplies: the latest answer in this campaign from the person's company
ColleagueReplied(E, c, p, row) ==
  LET answers == {e \in E : /\ e.kind = "replied" /\ e.camp = c
                            /\ e.who \in Person /\ CompanyOf[e.who] = CompanyOf[p]}
  IN \E e \in answers : /\ \A f \in answers : f.seq <= e.seq
                        /\ e.who # p
                        /\ e.seq > row.held

\* attemptOf: the journal's word on campaign + person + step
Attempts(E, c, p, s) ==
  {e \in E : e.kind = "sending" /\ e.who = p /\ e.camp = c /\ e.step = s}
Outcomes(E, a) ==
  {e \in E : e.kind \in {"sent", "failed"} /\ e.who = a.who /\ e.of = a.seq}
\* slips: an attempt is taken for a letter; only the row knows
TriedMeansSent(E, c, p, s) == Attempts(E, c, p, s) # {}
JournalUnread(E, c, p, s) == FALSE

WasSent(E, c, p, s) ==
  \E a \in Attempts(E, c, p, s) : \E e \in Outcomes(E, a) : e.kind = "sent"
InFlight(E, c, p, s) ==
  \E a \in Attempts(E, c, p, s) : Outcomes(E, a) = {}

\* advance: the row after its letter went
Advanced(row) ==
  LET done == row.step + 1 = Steps
  IN [row EXCEPT !.step = @ + 1,
                 !.st   = IF done THEN "done" ELSE "active",
                 !.due  = IF done THEN 0 ELSE Delay[row.step + 1]]

Stopped(row, fixable) == [row EXCEPT !.st = "stopped", !.fixable = fixable]

\* slip: a row that is gone is put back
PutRow(c, p, row) == enr' = [enr EXCEPT ![c][p] = row]

\* saveEnrollment: the row is replaced whole, and only where it still is
SaveRow(c, p, row) ==
  enr' = IF enr[c][p].st = "none" THEN enr ELSE [enr EXCEPT ![c][p] = row]

Fault == faults < MaxFaults /\ faults' = faults + 1

-----------------------------------------------------------------------------
(* One pass: runTick.                                                      *)

TickStart ==
  /\ pc = "idle" /\ ~halted
  /\ \E c \in Campaign : camp[c] = "running"
  /\ pc' = "walk"
  /\ known' = journal
  /\ camps' = {c \in Campaign : camp[c] = "running"}
  /\ UNCHANGED <<journal, last, stateVars, pending, saved, own, cur, rows,
                 todo, who, att, cause, worldVars, faults>>

EndTick ==
  /\ pc' = "idle" /\ known' = {} /\ own' = {} /\ camps' = {}
  /\ cur' = NoCampaign /\ rows' = [p \in Person |-> NoRow] /\ todo' = {}
  /\ who' = Nobody /\ att' = 0 /\ cause' = "none"

TickEnds ==
  /\ pc = "walk" /\ todo = {} /\ camps = {}
  /\ EndTick
  /\ UNCHANGED <<journal, last, stateVars, pending, saved, worldVars, faults>>

NextCampaign ==
  /\ pc = "walk" /\ todo = {}
  /\ \E c \in camps :
       /\ camps' = camps \ {c}
       /\ cur' = c
       /\ rows' = enr[c]
       /\ todo' = {p \in Person : enr[c][p].st = "active"}
  /\ UNCHANGED <<journal, last, stateVars, pending, saved, pc, known, own, who,
                 att, cause, worldVars, faults>>

\* the two checks before every letter
StopForHalt ==
  /\ pc = "walk" /\ todo # {} /\ halted
  /\ EndTick
  /\ UNCHANGED <<journal, last, stateVars, pending, saved, worldVars, faults>>

BreakOff ==
  /\ pc = "walk" /\ todo # {} /\ ~halted /\ camp[cur] # "running"
  /\ todo' = {}
  /\ UNCHANGED <<journal, last, stateVars, pending, saved, pc, known, own, camps,
                 cur, rows, who, att, cause, worldVars, faults>>

\* slip: the campaign's state is looked at once a pass
TurnUnchecked(p) == pc = "walk" /\ p \in todo /\ ~halted

\* it is p's turn and the next letter is due, as far as the pass knows
Turn(p) == pc = "walk" /\ p \in todo /\ ~halted /\ camp[cur] = "running"
Due(p) == Turn(p) /\ rows[p].due = 0

\* slip: who may be written to is asked before the first letter only
MustStopAtFirst(p) ==
  rows[p].step = 0 /\ (Excluded(known, p) \/ RepliedBefore(known, p, rows[p]))

MustStop(p) ==
  Stopper(known, p, rows[p]) \/ Excluded(known, p) \/ RepliedBefore(known, p, rows[p])

Cleared(p) ==
  Due(p) /\ ~MustStop(p) /\ ~ContactedRecently(known, p, rows[p])
Sendable(p) == Cleared(p) /\ ~ColleagueReplied(known, cur, p, rows[p])
Journaled == known \cup own

PassedBy(p) ==
  /\ todo' = todo \ {p}
  /\ UNCHANGED <<journal, last, camp, halted, pending, saved, pc, known, own,
                 camps, cur, rows, who, att, cause, worldVars, faults>>

\* not due, written to in the last 90 days, sender or limits say no: no change
PassOver(p) ==
  /\ \/ Turn(p) /\ rows[p].due > 0
     \/ Due(p) /\ ~MustStop(p) /\ ContactedRecently(known, p, rows[p])
     \/ "limits" \in Env /\ Sendable(p)
  /\ PassedBy(p)
  /\ UNCHANGED enr

\* slip: the stop is counted but not saved
StopUnsaved(p) == Due(p) /\ MustStop(p) /\ PassedBy(p) /\ UNCHANGED enr

StopPerson(p) ==
  /\ Due(p) /\ MustStop(p)
  /\ SaveRow(cur, p, Stopped(rows[p], FALSE))
  /\ PassedBy(p)

\* a filter's permanent no; an unknown time zone or a letter nobody can compose
Unfit(p) ==
  /\ "unfit" \in Env
  /\ \/ Cleared(p) /\ SaveRow(cur, p, Stopped(rows[p], FALSE))
     \/ Sendable(p) /\ SaveRow(cur, p, Stopped(rows[p], TRUE))
  /\ PassedBy(p)

HoldForColleague(p) ==
  /\ Cleared(p) /\ ColleagueReplied(known, cur, p, rows[p])
  /\ SaveRow(cur, p, [rows[p] EXCEPT !.st = "paused"])
  /\ PassedBy(p)

\* slip: the letter is skipped and the row left behind
SkipSent(p) ==
  /\ Sendable(p) /\ WasSent(Journaled, cur, p, rows[p].step)
  /\ PassedBy(p) /\ UNCHANGED enr

\* the letter went and the row never heard
Repair(p) ==
  /\ Sendable(p) /\ WasSent(Journaled, cur, p, rows[p].step)
  /\ SaveRow(cur, p, Advanced(rows[p]))
  /\ PassedBy(p)

\* slip: the row is left in the chain with its attempt open
LeaveInFlight(p) ==
  /\ Sendable(p)
  /\ ~WasSent(Journaled, cur, p, rows[p].step)
  /\ InFlight(Journaled, cur, p, rows[p].step)
  /\ PassedBy(p)
  /\ UNCHANGED enr

\* nobody knows whether it went
SetAside(p) ==
  /\ Sendable(p)
  /\ ~WasSent(Journaled, cur, p, rows[p].step)
  /\ InFlight(Journaled, cur, p, rows[p].step)
  /\ SaveRow(cur, p, [rows[p] EXCEPT !.st = "uncertain"])
  /\ PassedBy(p)

Compose(p) ==
  /\ Sendable(p)
  /\ ~WasSent(Journaled, cur, p, rows[p].step)
  /\ ~InFlight(Journaled, cur, p, rows[p].step)
  /\ pc' = "writing" /\ who' = p
  /\ UNCHANGED <<journal, last, stateVars, pending, saved, known, own, camps, cur,
                 rows, todo, att, cause, worldVars, faults>>

\* message.sending is on disk before the provider is asked
RecordSending ==
  LET e == Line("sending", who, cur, rows[who].step, 0)
  IN /\ pc = "writing"
     /\ Append(e)
     /\ own' = own \cup {e}
     /\ att' = e.seq
     /\ pc' = "gate"
     /\ UNCHANGED <<stateVars, pending, saved, known, camps, cur, rows, todo, who,
                    cause, worldVars, faults>>

BackToWalk ==
  /\ pc' = "walk" /\ todo' = todo \ {who}
  /\ who' = Nobody /\ att' = 0 /\ cause' = "none"

SendingNotRecorded ==
  /\ pc = "writing" /\ "refuse" \in Env
  /\ Fault
  /\ BackToWalk
  /\ UNCHANGED <<journal, last, stateVars, pending, saved, known, own, camps, cur,
                 rows, worldVars>>

-----------------------------------------------------------------------------
(* SenderGate.send and what follows its answer.                            *)

GateHalted ==
  /\ pc = "gate" /\ halted
  /\ pc' = "refused" /\ cause' = "endTick"
  /\ UNCHANGED <<journal, last, stateVars, pending, saved, known, own, camps, cur,
                 rows, todo, who, att, worldVars, faults>>

GateOpens ==
  /\ pc = "gate" /\ ~halted
  /\ pc' = "wire"
  /\ UNCHANGED <<journal, last, stateVars, pending, saved, known, own, camps, cur,
                 rows, todo, who, att, cause, worldVars, faults>>

\* SendingLocked ends the pass, a LetterError stops the person, SenderPaused
\* and a MailboxError with a status leave the row as it is
Refuses ==
  /\ pc = "wire" /\ "refuse" \in Env
  /\ Fault
  /\ pc' = "refused"
  /\ cause' \in {"endTick", "letter", "again"}
  /\ UNCHANGED <<journal, last, stateVars, pending, saved, known, own, camps, cur,
                 rows, todo, who, att, worldVars>>

Delivers ==
  /\ pc = "wire"
  /\ pc' = "answer"
  /\ delivered' = [delivered EXCEPT ![cur][who][rows[who].step] = @ + 1]
  /\ late' = [halt |-> IF halted THEN late.halt + 1 ELSE late.halt,
              camp |-> IF camp[cur] = "running" THEN late.camp
                       ELSE [late.camp EXCEPT ![cur] = @ + 1]]
  /\ UNCHANGED <<journal, last, stateVars, pending, saved, known, own, camps, cur,
                 rows, todo, who, att, cause, away, faults>>

\* no answer, with or without a delivery, or `sent' could not be written
NoAnswer ==
  /\ pc \in {"wire", "answer"} /\ "lose" \in Env
  /\ Fault
  /\ SaveRow(cur, who, [rows[who] EXCEPT !.st = "uncertain"])
  /\ BackToWalk
  /\ UNCHANGED <<journal, last, camp, halted, pending, saved, known, own, camps,
                 cur, rows, worldVars>>

RecordSent ==
  LET e == Line("sent", who, cur, rows[who].step, att)
  IN /\ pc = "answer"
     /\ Append(e)
     /\ own' = own \cup {e}
     /\ pc' = "advance"
     /\ UNCHANGED <<stateVars, pending, saved, known, camps, cur, rows, todo, who,
                    att, cause, worldVars, faults>>

SaveAdvance ==
  /\ pc = "advance"
  /\ SaveRow(cur, who, Advanced(rows[who]))
  /\ BackToWalk
  /\ UNCHANGED <<journal, last, camp, halted, pending, saved, known, own, camps,
                 cur, rows, worldVars, faults>>

RecordFailed ==
  LET e == Line("failed", who, cur, rows[who].step, att)
  IN /\ pc = "refused"
     /\ Append(e)
     /\ \/ cause = "endTick" /\ EndTick /\ UNCHANGED enr
        \/ /\ cause = "letter" /\ BackToWalk /\ own' = own \cup {e}
           /\ SaveRow(cur, who, Stopped(rows[who], FALSE))
           /\ UNCHANGED <<known, camps, cur, rows>>
        \/ /\ cause = "again" /\ BackToWalk /\ own' = own \cup {e}
           /\ UNCHANGED <<enr, known, camps, cur, rows>>
     /\ UNCHANGED <<camp, halted, pending, saved, worldVars, faults>>

\* the append throws out of the pass
FailedNotRecorded ==
  /\ pc = "refused" /\ "lose" \in Env
  /\ Fault
  /\ EndTick
  /\ UNCHANGED <<journal, last, stateVars, pending, saved, worldVars>>

Tick ==
  \/ TickStart \/ TickEnds \/ NextCampaign \/ StopForHalt \/ BreakOff
  \/ \E p \in Person : \/ PassOver(p) \/ StopPerson(p) \/ Unfit(p)
                       \/ HoldForColleague(p) \/ Repair(p) \/ SetAside(p)
                       \/ Compose(p)
  \/ RecordSending \/ SendingNotRecorded \/ GateHalted \/ GateOpens \/ Refuses
  \/ Delivers \/ NoAnswer \/ RecordSent \/ SaveAdvance \/ RecordFailed
  \/ FailedNotRecorded

-----------------------------------------------------------------------------
(* The routes, the inbox reader, time and restarts, between two steps of   *)
(* the pass.                                                               *)

quiet == UNCHANGED <<saved, tickVars, delivered, faults>>

\* slip: only a live row keeps a person out of a second campaign
NotLive(p) == \A d \in Campaign : enr[d][p].st \notin {"active", "uncertain", "paused"}

\* in no campaign, live or not
InNone(p) == \A d \in Campaign : enr[d][p].st = "none"

\* enrolChecked, or leads-by-provider: a request reads the journal once and asks
\* it about everybody it has; n is the last line it read
Asked(c, p, n) == <<"enroll", c, p, n>>

EnrolCheck(c, p) ==
  /\ "enroll" \in Env
  /\ camp[c] \in {"draft", "running", "paused"}
  /\ ~Excluded(journal, p) /\ ~Told(journal, p, {"replied", "sent"})
  /\ pending' = pending \cup {Asked(c, p, last)}
  /\ quiet /\ UNCHANGED <<journal, last, stateVars, late, away>>

\* enroll: the rows and the campaign are read again, the journal is not; a request
\* with several campaigns has waited for other people's rows to be written
Enroll(c, p) ==
  /\ \E n \in 0 .. last : /\ Asked(c, p, n) \in pending
                         /\ pending' = pending \ {Asked(c, p, n)}
  /\ enr' = IF camp[c] \in {"draft", "running", "paused"} /\ InNone(p)
            THEN [enr EXCEPT ![c][p] =
                    [NoRow EXCEPT !.st = "active", !.since = last, !.held = last]]
            ELSE enr
  /\ quiet /\ UNCHANGED <<journal, last, camp, halted, late, away>>

Start(c) ==
  /\ camp[c] \in {"draft", "paused"}
  /\ \E p \in Person : enr[c][p].st # "none"
  /\ camp' = [camp EXCEPT ![c] = "running"]
  /\ quiet /\ UNCHANGED <<journal, last, enr, halted, pending, late, away>>

\* setState, or pauseForReview by an alarm
Pause(c) ==
  /\ "pause" \in Env
  /\ camp[c] \in {"draft", "running"}
  /\ camp' = [camp EXCEPT ![c] = "paused"]
  /\ late' = [late EXCEPT !.camp[c] = 0]
  /\ quiet /\ UNCHANGED <<journal, last, enr, halted, pending, away>>

\* setState("done"): the campaign is written, and only then its people
Finish(c) ==
  /\ "finish" \in Env
  /\ camp[c] \in {"draft", "running", "paused"}
  /\ camp' = [camp EXCEPT ![c] = "done"]
  /\ late' = [late EXCEPT !.camp[c] = 0]
  /\ pending' = pending \cup {<<"finish", c>>}
  /\ quiet /\ UNCHANGED <<journal, last, enr, halted, away>>

FinishPeople(c) ==
  /\ <<"finish", c>> \in pending
  /\ pending' = pending \ {<<"finish", c>>}
  /\ enr' = [enr EXCEPT ![c] = [p \in Person |->
               IF @[p].st = "active" THEN Stopped(@[p], FALSE) ELSE @[p]]]
  /\ quiet /\ UNCHANGED <<journal, last, camp, halted, late, away>>

\* remove: a campaign nobody has had a letter from, then its rows
Remove(c) ==
  /\ "remove" \in Env
  /\ camp[c] \in {"draft", "paused", "done"}
  /\ \A p \in Person : enr[c][p].step = 0
  /\ camp' = [camp EXCEPT ![c] = "gone"]
  /\ late' = [late EXCEPT !.camp[c] = 0]
  /\ pending' = pending \cup {<<"remove", c>>}
  /\ quiet /\ UNCHANGED <<journal, last, enr, halted, away>>

RemovePeople(c) ==
  /\ <<"remove", c>> \in pending
  /\ pending' = pending \ {<<"remove", c>>}
  /\ enr' = [enr EXCEPT ![c] = [p \in Person |-> NoRow]]
  /\ quiet /\ UNCHANGED <<journal, last, camp, halted, late, away>>

\* erasePerson: eraseContact takes the address off the person's lines and
\* appends contact.erased with its hash; then forget drops the rows
Redacted(E, p) ==
  {IF e.who = p /\ e.kind # "erased" THEN [e EXCEPT !.who = Nobody] ELSE e : e \in E}

Erase(p) ==
  /\ "erase" \in Env /\ ~Told(journal, p, {"erased"})
  /\ journal' = Redacted(journal, p) \cup {Line("erased", p, NoCampaign, 0, 0)}
  /\ last' = last + 1
  /\ pending' = pending \cup {<<"erase", p>>}
  /\ quiet /\ UNCHANGED <<stateVars, late, away>>

Forget(p) ==
  /\ <<"erase", p>> \in pending
  /\ pending' = pending \ {<<"erase", p>>}
  /\ enr' = [c \in Campaign |-> [enr[c] EXCEPT ![p] = NoRow]]
  /\ quiet /\ UNCHANGED <<journal, last, camp, halted, late, away>>

ResumePerson(c, p) ==
  /\ "resume" \in Env
  /\ enr[c][p].st \in {"paused", "uncertain"}
  /\ enr' = [enr EXCEPT ![c][p].st = "active", ![c][p].held = last]
  /\ quiet /\ UNCHANGED <<journal, last, camp, halted, pending, late, away>>

\* stopped for one of RESUMABLE_REASONS
Resumable(row) == row.st = "stopped" /\ row.fixable

ResumeStopped ==
  /\ "resume" \in Env
  /\ \E c \in Campaign, p \in Person : Resumable(enr[c][p])
  /\ enr' = [c \in Campaign |-> [p \in Person |->
               IF Resumable(enr[c][p])
               THEN [enr[c][p] EXCEPT !.st = "active", !.fixable = FALSE, !.held = last]
               ELSE enr[c][p]]]
  /\ quiet /\ UNCHANGED <<journal, last, camp, halted, pending, late, away>>

\* processInbound ties a message to a letter the journal says was sent
Inbound(p, kind) ==
  /\ kind \in Env /\ ~Told(journal, p, {kind})
  /\ \E e \in journal : /\ e.kind = "sent" /\ e.who = p
                        /\ Append(Line(kind, p, e.camp, e.step, 0))
  /\ quiet /\ UNCHANGED <<stateVars, pending, late, away>>

\* handleUnsubscribe: the link is in every letter the person has
Unsubscribe(p) ==
  /\ "unsubscribed" \in Env /\ ~Told(journal, p, {"unsubscribed"})
  /\ \E c \in Campaign, s \in Step :
       /\ delivered[c][p][s] > 0
       /\ Append(Line("unsubscribed", p, c, s, 0))
  /\ quiet /\ UNCHANGED <<stateVars, pending, late, away>>

\* an auto-reply is journaled, then postpone moves the next letter
AutoReply(p) ==
  /\ "away" \in Env /\ ~Told(journal, p, {"autoreplied"})
  /\ \E e \in journal, days \in AwayDays :
       /\ e.kind = "sent" /\ e.who = p
       /\ Append(Line("autoreplied", p, e.camp, e.step, 0))
       /\ away' = [away EXCEPT ![p] = days]
       /\ pending' = pending \cup {<<"postpone", e.camp, p>>}
  /\ quiet /\ UNCHANGED <<stateVars, late>>

Postpone(c, p) ==
  /\ <<"postpone", c, p>> \in pending
  /\ pending' = pending \ {<<"postpone", c, p>>}
  /\ enr' = IF enr[c][p].st = "active" /\ enr[c][p].due < away[p]
            THEN [enr EXCEPT ![c][p].due = away[p]] ELSE enr
  /\ quiet /\ UNCHANGED <<journal, last, camp, halted, late, away>>

SetHalt ==
  /\ "halt" \in Env
  /\ halted' = ~halted
  /\ IF halted THEN UNCHANGED faults ELSE Fault
  /\ late' = [late EXCEPT !.halt = 0]
  /\ UNCHANGED <<journal, last, camp, enr, pending, saved, tickVars, delivered, away>>

Less(n) == IF n = 0 THEN 0 ELSE n - 1
Tomorrow(rowsOf) ==
  [c \in Campaign |-> [p \in Person |-> [rowsOf[c][p] EXCEPT !.due = Less(@)]]]

DayPasses ==
  /\ pc = "idle"
  /\ \/ \E c \in Campaign, p \in Person : enr[c][p].due > 0 \/ saved.enr[c][p].due > 0
     \/ \E p \in Person : away[p] > 0
  /\ enr' = Tomorrow(enr)
  /\ saved' = [saved EXCEPT !.enr = Tomorrow(@)]
  /\ away' = [p \in Person |-> Less(away[p])]
  /\ UNCHANGED <<journal, last, camp, halted, pending, tickVars, delivered, late,
                 faults>>

\* writePersistentWorkspaceState; a write that fails is only logged, so no
\* step above waits for this one
Persist ==
  /\ "crash" \in Env
  /\ saved' = [camp |-> camp, enr |-> enr, halted |-> halted]
  /\ UNCHANGED <<journal, last, stateVars, pending, tickVars, worldVars, faults>>

\* a restart: the journal and the state file are what is left
Crash ==
  /\ "crash" \in Env
  /\ Fault
  /\ camp' = saved.camp /\ enr' = saved.enr /\ halted' = saved.halted
  /\ pending' = {}
  /\ EndTick
  /\ UNCHANGED <<journal, last, saved, worldVars>>

Routes ==
  \/ \E c \in Campaign :
       \/ Start(c) \/ Pause(c) \/ Finish(c) \/ FinishPeople(c)
       \/ Remove(c) \/ RemovePeople(c)
  \/ \E c \in Campaign, p \in Person :
       EnrolCheck(c, p) \/ Enroll(c, p) \/ ResumePerson(c, p) \/ Postpone(c, p)
  \/ \E p \in Person :
       \/ Erase(p) \/ Forget(p) \/ Unsubscribe(p) \/ AutoReply(p)
       \/ Inbound(p, "replied") \/ Inbound(p, "bounced")
  \/ ResumeStopped \/ SetHalt

Init ==
  /\ journal = {} /\ last = 0
  /\ camp = [c \in Campaign |->
               IF \E p \in Person : <<c, p>> \in Enrolled THEN "running" ELSE "draft"]
  /\ enr = [c \in Campaign |-> [p \in Person |->
               IF <<c, p>> \in Enrolled THEN [NoRow EXCEPT !.st = "active"] ELSE NoRow]]
  /\ halted = FALSE /\ pending = {}
  /\ saved = [camp |-> camp, enr |-> enr, halted |-> halted]
  /\ pc = "idle" /\ known = {} /\ own = {} /\ camps = {} /\ cur = NoCampaign
  /\ rows = [p \in Person |-> NoRow] /\ todo = {}
  /\ who = Nobody /\ att = 0 /\ cause = "none"
  /\ delivered = [c \in Campaign |-> [p \in Person |-> [s \in Step |-> 0]]]
  /\ late = [halt |-> 0, camp |-> [c \in Campaign |-> 0]]
  /\ away = [p \in Person |-> 0]
  /\ faults = 0

Next == Tick \/ Routes \/ DayPasses \/ Persist \/ Crash

Spec == Init /\ [][Next]_vars

\* The timer calls the pass for ever and every await of it ends; a request
\* that was begun is finished; days pass.  Nobody has to do anything else.
Fairness ==
  /\ WF_vars(Tick)
  /\ SF_vars(DayPasses)
  /\ \A c \in Campaign : WF_vars(FinishPeople(c)) /\ WF_vars(RemovePeople(c))
  /\ \A p \in Person : WF_vars(Forget(p))
  /\ \A c \in Campaign, p \in Person : WF_vars(Postpone(c, p))

FairSpec == Spec /\ Fairness

-----------------------------------------------------------------------------
(* Properties.                                                             *)

Row == [st : {"none", "active", "done", "stopped", "uncertain", "paused"},
        step : 0 .. Steps, due : Nat, fixable : BOOLEAN, since : Nat, held : Nat]
Lines == [seq : Nat, kind : {"sending", "sent", "failed", "replied", "bounced",
                             "unsubscribed", "autoreplied", "erased"},
          who : Person \cup {Nobody}, camp : Campaign \cup {NoCampaign},
          step : Step, of : Nat]
CampState == {"draft", "running", "paused", "done", "gone"}
Enrolments == [Campaign -> [Person -> Row]]

\* The variables have the shapes of the workspace state and the journal.
TypeOK ==
  /\ journal \subseteq Lines /\ last \in Nat
  /\ camp \in [Campaign -> CampState]
  /\ enr \in Enrolments /\ halted \in BOOLEAN
  /\ saved \in [camp : [Campaign -> CampState], enr : Enrolments, halted : BOOLEAN]
  /\ pc \in {"idle", "walk", "writing", "gate", "wire", "answer", "advance", "refused"}
  /\ known \subseteq Lines /\ own \subseteq Lines
  /\ camps \subseteq Campaign /\ cur \in Campaign \cup {NoCampaign}
  /\ rows \in [Person -> Row] /\ todo \subseteq Person
  /\ who \in Person \cup {Nobody} /\ att \in Nat
  /\ cause \in {"none", "endTick", "letter", "again"}
  /\ delivered \in [Campaign -> [Person -> [Step -> Nat]]]
  /\ late \in [halt : Nat, camp : [Campaign -> Nat]]
  /\ away \in [Person -> Nat] /\ faults \in Nat

\* "Never the same letter twice": whatever is lost, refused or restarted, and
\* whoever resumes whom, a step of a campaign reaches a person at most once.
AtMostOnce ==
  \A c \in Campaign, p \in Person, s \in Step : delivered[c][p][s] <= 1

\* A row moves past a step only when the person has that letter: there is no
\* follow-up to a letter that was never received.
NoStepSkipped ==
  \A c \in Campaign, p \in Person, s \in Step :
    s < enr[c][p].step => delivered[c][p][s] = 1

\* w is an unsubscribe, a permanent bounce or the erasure of p
SaidNo(w, p) == w.kind \in {"unsubscribed", "bounced", "erased"} /\ w.who = p

\* w is a colleague's answer in campaign c, and nobody picked p up since
ColleagueSaid(w, c, p) ==
  /\ w.kind = "replied" /\ w.camp = c
  /\ w.who \in Person \ {p} /\ CompanyOf[w.who] = CompanyOf[p]
  /\ enr[c][p].st # "none" /\ enr[c][p].held < w.seq

LettersAfter(w, p) ==
  {e \in journal : e.kind = "sending" /\ e.who = p /\ e.seq > w.seq}

\* Whoever said no or was erased, and whose colleague answered, is written to at
\* most once more in a campaign: an attempt the pass had decided on from its copy
\* of the journal is made, and no second one, restarts or not, until somebody
\* picks them up.  Who said no is not even written to in another campaign, but by
\* the pass that was under way: it may come to one they were put into meanwhile,
\* by a request that had asked about them before.
AtMostOneAfterWord ==
  [][\A e \in journal' \ journal, w \in journal : e.kind = "sending" /\ e.who \in Person =>
       /\ SaidNo(w, e.who) =>
            \A f \in LettersAfter(w, e.who) : f \in own /\ f.camp # e.camp
       /\ ColleagueSaid(w, e.camp, e.who) =>
            \A f \in LettersAfter(w, e.who) : f.camp # e.camp]_vars

\* After the system stop, or after a campaign stops running, at most the one
\* letter already handed to the provider is delivered.
AtMostOneAfterStop ==
  late.halt <= 1 /\ \A c \in Campaign : late.camp[c] <= 1

\* A person is in one campaign at most, whatever is removed and re-enrolled
\* while a pass saves rows it read before.
OneCampaignEach ==
  \A p \in Person : Cardinality({c \in Campaign : enr[c][p].st # "none"}) <= 1

\* r is an enrolment of p in c whose checks were over before line w was written
AskedBefore(r, c, p, w) == r[1] = "enroll" /\ r[2] = c /\ r[3] = p /\ r[4] < w.seq

\* A person who was erased has no row again, whatever a pass read before the
\* erasure and whatever is asked after it.  Two things bring one back: a restart
\* on an older state file, and a request for that campaign that had asked about
\* the person before the erasure and was still to write its rows.
ForgottenStaysForgotten ==
  [][\A c \in Campaign, p \in Person, w \in journal :
       w.kind = "erased" /\ w.who = p /\ enr[c][p].st = "none" /\ enr'[c][p].st # "none"
         => \/ faults' > faults
            \/ \E r \in pending \ pending' : AskedBefore(r, c, p, w)]_vars

\* A letter is only written while no other one of the same chain is open.
LettersInTurn ==
  \A e, f \in journal :
    e.kind = "sending" /\ f.kind = "sending" /\ e.who = f.who /\ e.who \in Person
      /\ e.camp = f.camp /\ e.seq < f.seq => Outcomes(journal, e) # {}

\* The letters of a chain go out one after another, none before the one it answers.
InTurn == NoStepSkipped /\ LettersInTurn

\* A chain that is running ends: every active person of a running campaign is
\* in the end finished, stopped, held or set aside.  A first letter is the
\* exception: a row a restart left behind it waits out the 90 days, because the
\* filters ask before the journal does.
ChainEnds ==
  \A c \in Campaign, p \in Person :
    enr[c][p].st = "active" /\ camp[c] = "running"
      ~> \/ enr[c][p].st # "active" \/ camp[c] # "running"
         \/ enr[c][p].step = 0 /\ WasSent(journal, c, p, 0)

\* A row standing at a letter that was delivered and that the journal does
\* not know to be sent does not stay in the chain: a person is asked to look.
Limbo(c, p, s) ==
  /\ enr[c][p].st = "active" /\ enr[c][p].step = s
  /\ delivered[c][p][s] > 0 /\ ~WasSent(journal, c, p, s)

NoLetterInLimbo ==
  \A c \in Campaign, p \in Person, s \in Step : Limbo(c, p, s) ~> ~Limbo(c, p, s)

\* The journal says the letter of the row's step went; the row is behind.
Behind(c, p, s) ==
  enr[c][p].st = "active" /\ enr[c][p].step = s /\ WasSent(journal, c, p, s)

\* After a restart a follow-up's row catches up from the journal.
FollowUpRepaired ==
  \A c \in Campaign, p \in Person : \A s \in Step \ {0} :
    Behind(c, p, s) ~> ~Behind(c, p, s)

\* No row stays behind a letter that was delivered: the journal moves it on, or
\* a person is asked.
RowsCatchUp == NoLetterInLimbo /\ FollowUpRepaired

-----------------------------------------------------------------------------
(* What the repository says of the chain and the code does not keep.       *)

\* esp/unsubscribe.mjs:116: once the page says so, no letter is even begun.
NothingAfterUnsubscribe ==
  \A u, e \in journal :
    u.kind = "unsubscribed" /\ e.kind = "sending" /\ e.who = u.who => e.seq < u.seq
=============================================================================
