------------------------------ MODULE Invitations ------------------------------
(***************************************************************************)
(* The connection requests of the LinkedIn part (warmup/invites.mjs and    *)
(* the /invites and invite.* routes of warmup/api.mjs): a row of           *)
(* wl_outreach per person, queued by a seller or by a campaign's folder,   *)
(* handed to a browser agent, sent, reported, checked and answered.        *)
(*                                                                         *)
(* Every handler of the portal runs as a job with one step per round trip  *)
(* to the database, so any two may interleave between their reads and      *)
(* their writes.  A job may fail at any step (a database error, a restart  *)
(* of the process).  The agent works one account at a time, may die        *)
(* between the click and the report, and asks again once when it gets no   *)
(* answer.                                                                 *)
(***************************************************************************)
EXTENDS Integers, Sequences, FiniteSets

CONSTANTS
    People,         \* the contacts of the CRM
    Accounts,       \* the LinkedIn accounts
    Rows,           \* the ids wl_outreach can give out
    Slots,          \* the requests the portal can have in hand at once
    Calls,          \* the kinds of request made besides the agent's reports
    Outcomes,       \* what an attempt can come to, among INVITE_OUTCOMES
    Quota,          \* connection requests an account may make in a day
    MaxSession,     \* bound: sessions of the agent
    MaxDay,         \* bound: days that pass
    MaxTurns,       \* bound: calls and failures beside the agent's own work
    Faults          \* may requests fail and answers be lost?

ASSUME InvitationsAssumption ==
    /\ Quota \in Nat /\ MaxSession \in Nat /\ MaxDay \in Nat \ {0} /\ MaxTurns \in Nat
    /\ Faults \in BOOLEAN
    /\ Calls \subseteq {"request", "feed", "cancel", "byhand", "check", "reply", "reassign", "warn"}
    /\ Outcomes \subseteq {"sent", "no_button", "profile_gone", "blocked"}

None == "none"

VARIABLES
    row,        \* wl_outreach
    skipped,    \* the people with a campaign.skipped event
    log,        \* per row: its invite.failed and invite.reassigned events
    paused,     \* the accounts under a warning's pause
    pausedBy,   \* per account: the report named by the warning that started the newest pause
    spent,      \* per account: connection requests counted today
    billed,     \* per row: how often it was counted, ever
    day,
    turns,      \* what is left of the calls and failures that may disturb the agent
    linkedin,   \* what LinkedIn itself shows between an account and a person
    agent,      \* the browser session at work
    job         \* per slot: the request in hand

vars == <<row, skipped, log, paused, pausedBy, spent, billed, day, turns, linkedin, agent, job>>
tables == <<row, skipped, log, paused, pausedBy, spent, billed>>

-----------------------------------------------------------------------------
(* Rows. *)

NewRow == [status |-> "new", person |-> None, account |-> None, fed |-> FALSE, replied |-> FALSE]
Stages == {"waiting", "pending", "accepted", "connected", "withdrawn"}
Exists(r) == row[r].status \in Stages
Waiting(r) == row[r].status = "waiting"
RowOf(p) == {r \in Rows : Exists(r) /\ row[r].person = p}

Moves ==
    [ waiting   |-> {"pending", "accepted", "withdrawn"},
      pending   |-> {"accepted", "connected", "withdrawn"},
      accepted  |-> {"connected"},
      connected |-> {},
      withdrawn |-> {} ]

\* slip: a row that is there already counts as moved
CanMoveAgain(from, to) == from \in Stages /\ (to = from \/ to \in Moves[from])

CanMove(from, to) == from \in Stages /\ to \in Moves[from]

HeldOutcomes == {"no_button", "profile_gone", "blocked"}
PersonOutcomes == {"profile_gone", "blocked"}

-----------------------------------------------------------------------------
(* A row's events, oldest first, and what is read from them. *)

Failed(a, l, o, rel, skip, dp) ==
    [type |-> "failed", account |-> a, lease |-> l, outcome |-> o, day |-> day,
     released |-> rel, skipped |-> skip, duringPause |-> dp]
Moved(a) ==
    [type |-> "moved", account |-> a, lease |-> 0, outcome |-> None, day |-> day,
     released |-> FALSE, skipped |-> FALSE, duringPause |-> FALSE]
RowGone(a, l, o) ==
    [type |-> "row_gone", account |-> a, lease |-> l, outcome |-> o, day |-> day,
     released |-> FALSE, skipped |-> FALSE, duringPause |-> FALSE]

Places(r, Test(_)) == {i \in DOMAIN log[r] : Test(log[r][i])}
Newest(S) == CHOOSE i \in S : \A k \in S : k <= i

IsMove(e) == e.type = "moved"
IsFailure(e) == e.type = "failed"
IsBlock(e) == e.type = "failed" /\ e.outcome = "blocked" /\ ~e.duringPause
IsToday(e) == e.type \in {"failed", "moved"} /\ e.day = day

Resting(r) ==
    LET S == Places(r, IsToday) IN S # {} /\ log[r][Newest(S)].type = "failed"

Parked(r) ==
    \E i \in Places(r, IsBlock) : \A k \in Places(r, IsMove) : k < i

\* The answers already given to held reports about this row by this account.
Answers(r, a) == {i \in DOMAIN log[r] : IsFailure(log[r][i]) /\ log[r][i].account = a}

\* heldRetryAnswer for a row that is still there: the newest answer, if it
\* was to this same report.
GivenBefore(r, a, o, l) ==
    /\ Answers(r, a) # {}
    /\ LET e == log[r][Newest(Answers(r, a))] IN e.outcome = o /\ e.lease = l

\* ... and for a row that is gone: the answers that let it go.
LetGo(r, a) == {i \in Answers(r, a) : log[r][i].released}

\* What an answer tells the agent to do next.
Onward(stop) == IF stop THEN "stop" ELSE "go"
Stops(e) == e.outcome = "blocked" \/ e.duringPause

Allowed(a) == a \notin paused /\ spent[a] < Quota

-----------------------------------------------------------------------------
(* Jobs and the agent. *)

Idle == [kind |-> "idle", pc |-> "idle", account |-> None, row |-> None, person |-> None,
         outcome |-> None, lease |-> 0, try |-> 0, seen |-> None, to |-> None,
         ok |-> FALSE, release |-> FALSE, skip |-> FALSE, stop |-> FALSE]

NoSession == [at |-> "home", account |-> None, lease |-> 0, row |-> None,
              outcome |-> None, try |-> 0, answer |-> None, done |-> {}]

Init ==
    /\ row = [r \in Rows |-> NewRow]
    /\ skipped = {}
    /\ log = [r \in Rows |-> <<>>]
    /\ paused = {}
    /\ pausedBy = [a \in Accounts |-> <<None, 0>>]
    /\ spent = [a \in Accounts |-> 0]
    /\ billed = [r \in Rows |-> 0]
    /\ day = 1
    /\ turns = MaxTurns
    /\ linkedin = [x \in Accounts \X People |-> "none"]
    /\ agent = NoSession
    /\ job = [s \in Slots |-> Idle]

\* One more call, or one more failure.
Turn == turns > 0 /\ turns' = turns - 1

Start(s, j) == job[s] = Idle /\ job' = [job EXCEPT ![s] = j]
Become(s, j) == job' = [job EXCEPT ![s] = j]
End(s) == job' = [job EXCEPT ![s] = Idle]

\* The account's turn-taking (withAccountQuota), and one held report per
\* invitation at a time (oneHeldReportAtATime): first come, first served.
\* The agent's reports come in the order of its sessions and attempts.
Counting == {"sent", "held", "byhand"}

\* slip: the invitation's turn alone
SameRow(j, k) == j.kind = "held" /\ k.kind = "held" /\ j.row = k.row

SameTurn(j, k) ==
    \/ j.kind \in Counting /\ k.kind \in Counting /\ j.account = k.account
    \/ j.kind = "held" /\ k.kind = "held" /\ j.row = k.row
CameFirst(j, k) == j.lease > 0 /\ (j.lease < k.lease \/ (j.lease = k.lease /\ j.try < k.try))
MyTurn(s) ==
    \A t \in Slots \ {s} : SameTurn(job[t], job[s]) =>
        job[t].pc = "queued" /\ ~CameFirst(job[t], job[s])

Enter(s) ==
    /\ job[s].pc = "queued"
    /\ MyTurn(s)
    /\ Become(s, [job[s] EXCEPT !.pc = "read"])
    /\ UNCHANGED <<tables, day, turns, linkedin, agent>>

\* The answer reaches the agent only if it still waits for this very attempt.
Tell(s, answer) ==
    agent' = IF agent.at = "asked" /\ agent.lease = job[s].lease /\ agent.try = job[s].try
             THEN [agent EXCEPT !.answer = answer] ELSE agent

Conclude(s, answer) == End(s) /\ Tell(s, answer)

-----------------------------------------------------------------------------
(* moveStatus: a read, and an update guarded by the status that was read.   *)

ReadStatus(s) ==
    /\ job[s].pc = "status"
    /\ LET j == job[s] IN
         IF CanMove(row[j.row].status, j.to)
         THEN Become(s, [j EXCEPT !.pc = "move", !.seen = row[j.row].status]) /\ UNCHANGED agent
         ELSE Conclude(s, "go")
    /\ UNCHANGED <<tables, day, turns, linkedin>>

\* slip: the update is not guarded by the status that was read
NotAsked(j) == TRUE

StillAsRead(j) == row[j.row].status = j.seen

Patched(j) ==
    LET w == [row[j.row] EXCEPT !.status = j.to] IN
    CASE j.kind = "byhand" -> [w EXCEPT !.account = j.account]
      [] j.kind = "reply"  -> [w EXCEPT !.replied = TRUE]
      [] OTHER             -> w

MoveRow(s) ==
    /\ job[s].pc = "move"
    /\ LET j == job[s] IN
         IF StillAsRead(j)
         THEN /\ row' = [row EXCEPT ![j.row] = Patched(j)]
              /\ IF j.kind \in Counting
                 THEN Become(s, [j EXCEPT !.pc = "commit"]) /\ UNCHANGED agent
                 ELSE Conclude(s, "go")
         ELSE UNCHANGED row /\ Conclude(s, "go")
    /\ UNCHANGED <<skipped, log, paused, pausedBy, spent, billed, day, turns, linkedin>>

\* commitAction and recordSent, once the row has moved.
Commit(s) ==
    /\ job[s].pc = "commit"
    /\ LET j == job[s] IN
         /\ IF j.ok
            THEN /\ spent' = [spent EXCEPT ![j.account] = @ + 1]
                 /\ billed' = [billed EXCEPT ![j.row] = @ + 1]
            ELSE UNCHANGED <<spent, billed>>
         /\ Conclude(s, Onward(j.stop))
    /\ UNCHANGED <<row, skipped, log, paused, pausedBy, day, turns, linkedin>>

-----------------------------------------------------------------------------
(* invite.sent for a request that went out. *)

Spends(j) == j.outcome = "sent"

SentRead(s) ==
    /\ job[s].kind = "sent" /\ job[s].pc = "read"
    /\ LET j == job[s]
           w == row[j.row]
       IN CASE ~Exists(j.row) ->
                   /\ log' = [log EXCEPT ![j.row] = Append(@, RowGone(j.account, j.lease, j.outcome))]
                   /\ Conclude(s, "refused")
            [] Exists(j.row) /\ w.account # j.account -> Conclude(s, "refused") /\ UNCHANGED log
            [] OTHER ->
                   /\ Become(s, [j EXCEPT !.pc = "status",
                                    !.to = IF j.outcome = "already_connected" THEN "accepted" ELSE "pending",
                                    !.ok = Spends(j) /\ Allowed(j.account),
                                    !.stop = Spends(j) /\ ~Allowed(j.account)])
                   /\ UNCHANGED <<log, agent>>
    /\ UNCHANGED <<row, skipped, paused, pausedBy, spent, billed, day, turns, linkedin>>

-----------------------------------------------------------------------------
(* reportHeld: nothing went out. *)

\* slip: any pause is somebody else's
DuringAnyPause(j) == j.account \in paused

\* The pause was there before this report: not one its own first attempt began.
DuringPause(j) ==
    /\ j.account \in paused
    /\ ~(j.outcome = "blocked" /\ pausedBy[j.account] = <<j.row, j.lease>>)

\* slip: a retry is only answered
NeverHalfDone(j, before) == FALSE

\* The first report wrote its answer and then failed to let the row go.
HalfDone(j, before) == before.released /\ row[j.row].fed /\ Waiting(j.row)

HeldRead(s) ==
    /\ job[s].kind = "held" /\ job[s].pc = "read"
    /\ LET j == job[s]
           w == row[j.row]
           a == j.account
           before == log[j.row][Newest(Answers(j.row, a))]
           let_go == w.fed /\ Waiting(j.row)
           given == [j EXCEPT !.stop = Stops(before)]
       IN CASE ~Exists(j.row) /\ LetGo(j.row, a) # {} ->
                   Conclude(s, Onward(Stops(log[j.row][Newest(LetGo(j.row, a))]))) /\ UNCHANGED log
            [] ~Exists(j.row) /\ LetGo(j.row, a) = {} ->
                   /\ log' = [log EXCEPT ![j.row] = Append(@, RowGone(a, j.lease, j.outcome))]
                   /\ Conclude(s, "refused")
            [] Exists(j.row) /\ w.account # a -> Conclude(s, "refused") /\ UNCHANGED log
            [] Exists(j.row) /\ w.account = a /\ GivenBefore(j.row, a, j.outcome, j.lease) ->
                   /\ IF HalfDone(j, before)
                      THEN Become(s, [given EXCEPT !.pc = IF before.skipped THEN "skip" ELSE "delete"])
                           /\ UNCHANGED agent
                      ELSE Conclude(s, Onward(given.stop))
                   /\ UNCHANGED log
            [] OTHER ->
                   /\ Become(s, [j EXCEPT !.pc = IF j.outcome = "blocked" THEN "pause" ELSE "record",
                                    !.ok = DuringPause(j),
                                    !.release = let_go,
                                    !.skip = let_go /\ ~DuringPause(j) /\ j.outcome \in PersonOutcomes,
                                    !.stop = DuringPause(j) \/ j.outcome = "blocked"])
                   /\ UNCHANGED <<log, agent>>
    /\ UNCHANGED <<row, skipped, paused, pausedBy, spent, billed, day, turns, linkedin>>

\* pauseForWarning; only a warning that starts a pause is asked about later.
HeldPause(s) ==
    /\ job[s].pc = "pause"
    /\ LET j == job[s] IN
         /\ paused' = paused \cup {j.account}
         /\ pausedBy' = IF j.account \in paused THEN pausedBy
                        ELSE [pausedBy EXCEPT ![j.account] = <<j.row, j.lease>>]
         /\ Become(s, [j EXCEPT !.pc = "record"])
    /\ UNCHANGED <<row, skipped, log, spent, billed, day, turns, linkedin, agent>>

\* recordFailed: the event that is also the answer to a retry.
HeldRecord(s) ==
    /\ job[s].pc = "record"
    /\ LET j == job[s] IN
         /\ log' = [log EXCEPT ![j.row] =
                      Append(@, Failed(j.account, j.lease, j.outcome, j.release, j.skip, j.ok))]
         /\ IF j.release
            THEN Become(s, [j EXCEPT !.pc = IF j.skip THEN "skip" ELSE "delete"]) /\ UNCHANGED agent
            ELSE Conclude(s, Onward(j.stop))
    /\ UNCHANGED <<row, skipped, paused, pausedBy, spent, billed, day, turns, linkedin>>

\* markSkipped: written before the row goes.
MarkSkipped(s) ==
    /\ job[s].pc = "skip"
    /\ skipped' = skipped \cup {row[job[s].row].person}
    /\ Become(s, [job[s] EXCEPT !.pc = "delete"])
    /\ UNCHANGED <<row, log, paused, pausedBy, spent, billed, day, turns, linkedin, agent>>

\* The guarded delete of releaseFedInvite and of cancelInvite.
DeleteRow(s) ==
    /\ job[s].pc = "delete"
    /\ LET r == job[s].row IN
         row' = IF Waiting(r) THEN [row EXCEPT ![r].status = "removed"] ELSE row
    /\ Conclude(s, Onward(job[s].stop))
    /\ UNCHANGED <<skipped, log, paused, pausedBy, spent, billed, day, turns, linkedin>>

-----------------------------------------------------------------------------
(* The sellers and the folder. *)

Insert(r, p, a, status, fed) ==
    row' = [row EXCEPT ![r] = [status |-> status, person |-> p, account |-> a,
                               fed |-> fed, replied |-> FALSE]]

\* POST /invites.
Request(p, a, r) ==
    /\ "request" \in Calls
    /\ row[r] = NewRow
    /\ RowOf(p) = {}
    /\ Insert(r, p, a, "waiting", FALSE)
    /\ UNCHANGED <<skipped, log, paused, pausedBy, spent, billed, day, turns, linkedin, agent, job>>

\* topUpFromFolder: the walk of the folder, and later the write.  The event
\* that says the folder added the row is the one that may be lost.
FeedWalk(s, p) ==
    /\ Turn
    /\ "feed" \in Calls
    /\ agent.at = "free"
    /\ Allowed(agent.account)
    /\ RowOf(p) = {} /\ p \notin skipped
    /\ \A t \in Slots : job[t].kind # "feed" \/ job[t].account # agent.account
    /\ Start(s, [Idle EXCEPT !.kind = "feed", !.pc = "insert", !.account = agent.account, !.person = p])
    /\ UNCHANGED <<tables, day, linkedin, agent>>

FeedInsert(s, r) ==
    /\ job[s].kind = "feed" /\ job[s].pc = "insert"
    /\ row[r] = NewRow
    /\ IF RowOf(job[s].person) = {}
       THEN \E noted \in {TRUE, ~Faults} : Insert(r, job[s].person, job[s].account, "waiting", noted)
       ELSE UNCHANGED row
    /\ End(s)
    /\ UNCHANGED <<skipped, log, paused, pausedBy, spent, billed, day, turns, linkedin, agent>>

\* POST /invites/cancel.
CancelCall(s, r) ==
    /\ Turn
    /\ "cancel" \in Calls
    /\ Waiting(r)
    /\ Start(s, [Idle EXCEPT !.kind = "cancel", !.row = r,
                             !.pc = IF row[r].fed THEN "skip" ELSE "delete"])
    /\ UNCHANGED <<tables, day, linkedin, agent>>

\* POST /invites/reassign: one guarded update, and an event that may be lost.
Reassign(r, a) ==
    /\ Turn
    /\ "reassign" \in Calls
    /\ Waiting(r) /\ row[r].account # a
    /\ row' = [row EXCEPT ![r].account = a]
    /\ \E noted \in {TRUE, ~Faults} :
         log' = IF noted THEN [log EXCEPT ![r] = Append(@, Moved(a))] ELSE log
    /\ UNCHANGED <<skipped, paused, pausedBy, spent, billed, day, linkedin, agent, job>>

\* POST /invites/sent-by-hand: the seller clicked Connect, then says so.
ByHandCall(s, p, a) ==
    /\ Turn
    /\ "byhand" \in Calls
    /\ linkedin[<<a, p>>] = "none"
    /\ linkedin' = [linkedin EXCEPT ![<<a, p>>] = "pending"]
    /\ Start(s, [Idle EXCEPT !.kind = "byhand", !.pc = "queued", !.account = a, !.person = p])
    /\ UNCHANGED <<tables, day, agent>>

ByHandRead(s, r) ==
    /\ job[s].kind = "byhand" /\ job[s].pc = "read"
    /\ LET j == [job[s] EXCEPT !.ok = Allowed(job[s].account), !.to = "pending"]
           held == RowOf(j.person)
       IN CASE held = {} /\ row[r] = NewRow -> Become(s, [j EXCEPT !.pc = "insert", !.row = r])
            [] r \in held /\ Waiting(r) -> Become(s, [j EXCEPT !.pc = "status", !.row = r])
            [] r \in held /\ ~Waiting(r) -> End(s)
            [] OTHER -> FALSE
    /\ UNCHANGED <<tables, day, turns, linkedin, agent>>

ByHandInsert(s) ==
    /\ job[s].kind = "byhand" /\ job[s].pc = "insert"
    /\ LET j == job[s] IN
         IF RowOf(j.person) = {} /\ row[j.row] = NewRow
         THEN /\ Insert(j.row, j.person, j.account, "pending", FALSE)
              /\ Become(s, [j EXCEPT !.pc = "commit"])
         ELSE UNCHANGED row /\ End(s)
    /\ UNCHANGED <<skipped, log, paused, pausedBy, spent, billed, day, turns, linkedin, agent>>

-----------------------------------------------------------------------------
(* The agent. *)

Begin(a) ==
    /\ agent.at = "home" /\ agent.lease < MaxSession
    /\ a \notin paused
    /\ agent' = [NoSession EXCEPT !.at = "free", !.account = a, !.lease = agent.lease + 1]
    /\ UNCHANGED <<tables, day, turns, linkedin, job>>

Home == [NoSession EXCEPT !.lease = agent.lease]

Finish ==
    /\ agent.at \in {"free", "done", "visit"}
    /\ agent' = Home
    /\ UNCHANGED <<tables, day, turns, linkedin, job>>

\* invite.prepare asks invitesToSend again for this one row.
ToSend(r) == Waiting(r) /\ ~Resting(r) /\ ~Parked(r)

Prepare(r) ==
    /\ agent.at = "free" /\ r \notin agent.done
    /\ row[r].account = agent.account /\ ToSend(r)
    /\ Allowed(agent.account)
    /\ agent' = [agent EXCEPT !.at = "visit", !.row = r, !.done = @ \cup {r}]
    /\ UNCHANGED <<tables, day, turns, linkedin, job>>

\* sendInvitation: what the profile shows decides before any click.
Shown(o) == IF o = "pending" THEN "already_pending" ELSE "already_connected"

Visit(o) ==
    /\ agent.at = "visit"
    /\ LET x == <<agent.account, row[agent.row].person>> IN
         \/ /\ linkedin[x] \in {"none", "gone"} /\ o \in Outcomes
            /\ linkedin' = IF o = "sent" THEN [linkedin EXCEPT ![x] = "pending"] ELSE linkedin
            /\ agent' = [agent EXCEPT !.at = "clicked", !.outcome = o]
         \/ /\ linkedin[x] \in {"pending", "connected"} /\ o = Shown(linkedin[x])
            /\ agent' = [agent EXCEPT !.at = "clicked", !.outcome = o]
            /\ UNCHANGED linkedin
    /\ UNCHANGED <<tables, day, turns, job>>

\* The browser dies, cannot tell what its click did, or gives up after its
\* second attempt: the visit ends without an answer.
Die ==
    /\ Turn
    /\ Faults
    /\ agent.at \in {"clicked", "asked"}
    /\ agent' = Home
    /\ UNCHANGED <<tables, day, linkedin, job>>

\* reportWithRetry: a second attempt after a failure or no answer at all,
\* while the first may still be running.
Report(s) ==
    /\ \/ agent.at = "clicked"
       \/ Faults /\ agent.at = "asked" /\ agent.try = 1 /\ agent.answer \in {None, "error"}
    /\ LET n == agent.try + 1 IN
         /\ agent' = [agent EXCEPT !.at = "asked", !.try = n, !.answer = None]
         /\ Start(s, [Idle EXCEPT !.kind = IF agent.outcome \in HeldOutcomes THEN "held" ELSE "sent",
                                  !.pc = "queued", !.account = agent.account, !.row = agent.row,
                                  !.outcome = agent.outcome, !.lease = agent.lease, !.try = n])
    /\ UNCHANGED <<tables, day, turns, linkedin>>

Hear ==
    /\ agent.at = "asked" /\ agent.answer \in {"go", "stop", "refused"}
    /\ agent' = CASE agent.answer = "refused" -> Home
                  [] agent.answer = "go" /\ agent.outcome # "blocked" ->
                        [agent EXCEPT !.at = "free", !.row = None, !.outcome = None,
                                      !.try = 0, !.answer = None]
                  [] OTHER -> [agent EXCEPT !.at = "done", !.row = None, !.outcome = None,
                                            !.try = 0, !.answer = None]
    /\ UNCHANGED <<tables, day, turns, linkedin, job>>

\* invites.checked and inbox.thread: what the session of this account saw.
Saw(s, r, kind) ==
    /\ Turn
    /\ kind \in Calls
    /\ agent.at \in {"free", "done"}
    /\ Exists(r) /\ row[r].account = agent.account
    /\ LET now == linkedin[<<agent.account, row[r].person>>]
           to == CASE kind = "check" /\ now = "connected" -> "accepted"
                   [] kind = "check" /\ now = "gone"      -> "withdrawn"
                   [] kind = "reply" /\ now = "connected" -> "connected"
                   [] OTHER                               -> None
       IN /\ to # None
          /\ kind = "check" => row[r].status = "pending"
          /\ Start(s, [Idle EXCEPT !.kind = kind, !.pc = "status", !.row = r, !.to = to])
    /\ UNCHANGED <<tables, day, linkedin, agent>>

-----------------------------------------------------------------------------
(* Everything else. *)

\* The person accepts, or the request disappears from LinkedIn.
Respond(x) ==
    /\ linkedin[x] = "pending"
    /\ \E now \in {"connected", "gone"} : linkedin' = [linkedin EXCEPT ![x] = now]
    /\ UNCHANGED <<tables, day, turns, agent, job>>

\* An operator's warning button.
Warn(a) ==
    /\ Turn
    /\ "warn" \in Calls
    /\ a \notin paused
    /\ paused' = paused \cup {a}
    /\ pausedBy' = [pausedBy EXCEPT ![a] = <<None, 0>>]
    /\ UNCHANGED <<row, skipped, log, spent, billed, day, linkedin, agent, job>>

\* Midnight.  A pause is counted in days and a request in seconds, so a
\* pause ends only while nothing is in hand.
NewDay ==
    /\ day < MaxDay
    /\ day' = day + 1
    /\ spent' = [a \in Accounts |-> 0]
    /\ paused' \in IF \A s \in Slots : job[s] = Idle THEN SUBSET paused ELSE {paused}
    /\ UNCHANGED <<row, skipped, log, pausedBy, billed, turns, linkedin, agent, job>>

\* A step of a request throws, or the portal restarts under it.
Fail(s) ==
    /\ Turn
    /\ Faults
    /\ job[s].pc # "idle"
    /\ Conclude(s, "error")
    /\ UNCHANGED <<tables, day, linkedin>>

Steps(s) ==
    \/ Enter(s) \/ ReadStatus(s) \/ MoveRow(s) \/ Commit(s)
    \/ SentRead(s) \/ HeldRead(s) \/ HeldPause(s) \/ HeldRecord(s)
    \/ MarkSkipped(s) \/ DeleteRow(s) \/ ByHandInsert(s)
    \/ \E r \in Rows : FeedInsert(s, r) \/ ByHandRead(s, r)

Next ==
    \/ \E s \in Slots : Steps(s) \/ Fail(s) \/ Report(s)
    \/ \E s \in Slots, r \in Rows : CancelCall(s, r)
    \/ \E s \in Slots, r \in Rows : Saw(s, r, "check") \/ Saw(s, r, "reply")
    \/ \E s \in Slots, p \in People : FeedWalk(s, p)
    \/ \E s \in Slots, p \in People, a \in Accounts : ByHandCall(s, p, a)
    \/ \E p \in People, a \in Accounts, r \in Rows : Request(p, a, r)
    \/ \E r \in Rows, a \in Accounts : Reassign(r, a)
    \/ \E r \in Rows : Prepare(r)
    \/ \E o \in Outcomes \cup {"already_pending", "already_connected"} : Visit(o)
    \/ \E a \in Accounts : Begin(a) \/ Warn(a)
    \/ \E x \in Accounts \X People : Respond(x)
    \/ Finish \/ Die \/ Hear \/ NewDay

Spec == Init /\ [][Next]_vars

-----------------------------------------------------------------------------
(* What the requests promise. *)

Statuses == Stages \cup {"new", "removed"}

Events == [type : {"failed", "moved", "row_gone"}, account : Accounts, lease : 0 .. MaxSession,
           outcome : Outcomes \cup {"already_pending", "already_connected", None},
           day : 1 .. MaxDay, released : BOOLEAN, skipped : BOOLEAN, duringPause : BOOLEAN]

\* The tables hold what their columns allow, and an agent away from home has
\* an account.
TypeOK ==
    /\ row \in [Rows -> [status : Statuses, person : People \cup {None},
                         account : Accounts \cup {None}, fed : BOOLEAN, replied : BOOLEAN]]
    /\ skipped \subseteq People
    /\ \A r \in Rows : \A i \in DOMAIN log[r] : log[r][i] \in Events
    /\ paused \subseteq Accounts
    /\ pausedBy \in [Accounts -> (Rows \cup {None}) \X (0 .. MaxSession)]
    /\ spent \in [Accounts -> Nat]
    /\ billed \in [Rows -> Nat]
    /\ day \in 1 .. MaxDay
    /\ linkedin \in [Accounts \X People -> {"none", "pending", "connected", "gone"}]
    /\ agent.at \in {"home", "free", "visit", "clicked", "asked", "done"}
    /\ agent.at # "home" => agent.account \in Accounts
    /\ \A s \in Slots : job[s].kind # "idle" => job[s].pc # "idle"

\* The record of one person only goes forward, whoever writes it: the agent's
\* report, the daily check, the inbox, a seller's own click and a cancel each
\* read the row before they write it, and any two may meet in between (the
\* guarded update of moveStatus and the guarded deletes).
StageOf(p) == IF RowOf(p) = {} THEN "free" ELSE row[CHOOSE r \in RowOf(p) : TRUE].status
Answered == {p \in People : \E r \in RowOf(p) : row[r].replied}

Ledger == INSTANCE OutreachLedger WITH stage <- [p \in People |-> StageOf(p)], answered <- Answered
OnlyForward == Ledger!Spec

\* An account is never counted past its day: the check of the allowance and
\* the count are far apart, and the agent's report, its retry and a seller's
\* own click can all be between them (withAccountQuota).
DayWithinQuota == \A a \in Accounts : spent[a] <= Quota

\* However often a request is reported, it is counted once, and only when its
\* row has left the queue.
CountedOnce == \A r \in Rows : billed[r] <= 1 /\ (billed[r] = 1 => ~Waiting(r))

\* A held report leaves one invite.failed however often it is asked, also when
\* two of its attempts run at once or the first stopped half-way
\* (heldRetryAnswer, oneHeldReportAtATime).
OneFailurePerReport ==
    \A r \in Rows : \A i, k \in DOMAIN log[r] :
        (/\ IsFailure(log[r][i]) /\ IsFailure(log[r][k])
         /\ log[r][i].account = log[r][k].account
         /\ log[r][i].lease = log[r][k].lease
         /\ log[r][i].outcome = log[r][k].outcome) => i = k

\* A report, however often it is sent and whoever else writes the row meanwhile,
\* leaves one trace: one count of a request, one failure of a held report.
ReportedOnce == CountedOnce /\ OneFailurePerReport

\* A block page that paused the account is held against the person it showed,
\* even when the attempt that began the pause failed before it could say so:
\* left unparked, that person is handed out first after the pause and pauses
\* the account again (pausedByThisReport).
SelfPauseParks ==
    \A r \in Rows : \A i \in DOMAIN log[r] :
        LET e == log[r][i] IN
        (IsFailure(e) /\ e.outcome = "blocked" /\ pausedBy[e.account] = <<r, e.lease>>)
            => ~e.duringPause

\* An agent told that the folder's person was let go is told the truth: the
\* row is off the queue, and if it is gone the folder has its marker when the
\* answer says so, whatever step of an earlier attempt failed and whoever took
\* the row meanwhile (reportHeld finishing a half-done release).
LetGoIsWhole ==
    (agent.at = "asked" /\ agent.answer \in {"go", "stop"} /\ agent.outcome \in HeldOutcomes)
        => \A i \in DOMAIN log[agent.row] :
              LET e == log[agent.row][i] IN
              (IsFailure(e) /\ e.lease = agent.lease /\ e.released)
                  => /\ ~Waiting(agent.row)
                     /\ (e.skipped /\ ~Exists(agent.row)) => row[agent.row].person \in skipped

\* A held report leaves the whole of what it reports, or the retry finishes it:
\* the person is parked by the pause it began, and let go in the row and in the
\* folder alike.
HeldReportIsWhole == SelfPauseParks /\ LetGoIsWhole
=============================================================================
