# Verification of the outbound-sales workspace

TLA+ models of the parts of this repository that send things to people and must never send
the wrong thing twice, the TLC runs that check them, and proofs of what matters most.

## The system

One Node process (`server.mjs`) holds the workspace state in memory, writes it to one file,
serves the routes and runs the timers. Two engines send:

* **E-mail** (`esp/`). A timer calls one pass a minute (`sequence.mjs`, `runTick`) over the
  running campaigns. A letter is written to an append-only journal as `message.sending`, handed
  to the provider through the gate (`senders.mjs`), and journaled as `message.sent` or
  `message.failed`. Campaigns and the row of each person in them (`campaigns.mjs`) live in the
  workspace state; routes (`api.mjs`), the inbox reader (`inbound.mjs`), the unsubscribe page
  (`unsubscribe.mjs`) and the erasure of a person (`erasure.mjs`) change both between any two
  awaits of the pass. The mailboxes themselves are folded from the same journal (`registry.mjs`),
  and alarms and a ramp (`alerts.mjs`, `ramp.mjs`) write to it.
* **LinkedIn** (`warmup/`, `agent/`). A scheduler leases one account at a time to a remote worker
  that drives a browser; the worker pulls invitations and messages, acts, and reports. What was
  sent is kept in Postgres (`warmup/invites.mjs`, `warmup/outbox.mjs`, `warmup/store.mjs`).

Around them: research jobs, contacts, triage (today's work, pings, work log), a knowledge base,
reports, a browser front end.

| Component | State | Operations | What is hard | What makes it correct |
|---|---|---|---|---|
| Chain: `esp/sequence.mjs`, `esp/campaigns.mjs` | campaigns, rows, due dates | pass, start, pause, finish, delete, enrol, resume, forget | a pass works for minutes on copies of the journal and of the rows while everything changes; answers that never come; restarts | no letter twice, no letter skipped, nobody in two campaigns, stop and "no" take effect, chains end |
| Journal: `esp/journal.mjs` | lines with a hash chain, a copy in memory | append, erase a contact, load, verify | torn and unsynced lines, reads of the file that overlap | a line that was acknowledged is there; the chain holds; the erased stay erased |
| Registry, limits, ramp, alarms: `esp/registry.mjs`, `esp/limits.mjs`, `esp/ramp.mjs`, `esp/alerts.mjs`, `esp/senders.mjs` | the state of each mailbox and its domain, counts of the day | send, alarm, step up, pause, retire, set | everybody decides from the journal in memory and appends through one queue | never above the day's limit by more than the letters nobody could see; a stopped mailbox stops; what a person lifted stays lifted; one step a day |
| Inbox reader: `esp/inbound.mjs`, `esp/gmail.mjs` | cursor per mailbox | poll, match, journal, act | journal, actions and cursor are separate writes; a cursor Google forgot | no answer passed over, none written or acted on twice |
| Invitations: `warmup/invites.mjs` | one row per account and contact | request, feed, prepare, sent, failed, skipped, cancel, reassign, check | the route, the worker and the inbox reader act on one row; reports are repeated or come late | one owner, states only move forward, a report counted once |
| Lease: `warmup/scheduler.mjs`, `agent/worker.mjs` | lease, cool-offs, rests | grant, extend, finish, sweep | a worker that is silent but alive; a late report | one account, one browser |
| Warm-up run: `warmup/store.mjs`, `strategy.mjs`, `weekly.mjs` | run, status, the day's actions | start, warn, resume, settle, stop, record | a run and an account are two writes, made on a copy that was read before | a warned account rests; the day of the plan and the week's limit |
| Outbox: `warmup/outbox.mjs` | messages to send by hand or by worker | queue, cancel, prepare, sent, failed | reports that are lost, or wrong; a cancellation while it is typed | no message twice, limits of a day |
| Research: `server.mjs` | jobs, the workspace file | ask, run, resume, remove | restarts between writes; slow writes of older pictures | one job a person, a restart costs one stage, the file never goes back, every job ends |
| Triage: `triage/` | pings, statuses, work log | reconcile, set, close, log | a pass decides on tasks it read before | what a person decided stays; one ping per step |

Components that are not modelled, and why, are under *Not modelled* and in `PROJECT.json`.

## Modules

| Module | Models | Extends |
|---|---|---|
| `MailChain` | the chain and everything around it | |
| `MailJournal` | the file of lines under the chain, and the copies of it in memory | |
| `Senders` | the mailboxes: registry, limits, gate, alarms, ramp | |
| `InboxReader` | the pass over a mailbox, its cursor, Gmail's history | |
| `OutreachLedger` | what the record of an invitation promises, per person | |
| `Invitations` | invitations: routes, agent, folder, checks; implements `OutreachLedger` | |
| `WorkerLease` | leases, cool-offs, rests, workers and their reports | |
| `WarmupRun` | the run of an account, its pauses, its day and its week | |
| `Outbox` | replies and first messages an account sends | |
| `Research` | research jobs and the workspace file | |
| `Pings` | the next step of a dialog as a task of the CRM | |
| `MailChainProofs` | for every instance: shapes; never twice; stop, erasure, one campaign; a word is kept; letters go in turn | `MailChain` |
| `MailJournalProofs` | for every instance: what was acknowledged is kept, one list, the erased stay erased | `MailJournal` |
| `InvitationsProofs` | for every instance: the quota, one trace per report, whole held reports, the ledger | `Invitations` |
| `SendersProofs`, `InboxReaderProofs`, `WorkerLeaseProofs`, `WarmupRunProofs` | the same for the component they are named after | that module |
| `SellerProofs` | the same for what serves the seller: the outbox, the pings, the research jobs | `Outbox`, `Pings`, `Research` |
| `MC…` | small instances | the module they are named after |

The systems meet in the journal, in the database and in one process. Where two components share
state the shared part is in both modules at the grain each needs: `MailChain` has the journal as the
lines the chain looks at, `MailJournal` has how a line gets to the file; `Senders` has the gate that
a letter of `MailChain` passes; what `InboxReader` journals is what `Replied`, `Bounced` and `Away` of
`MailChain` find there; `Invitations` has the day's count that `WarmupRun` computes the allowance of.
A chain never looks at an invitation, and an invitation's report carries the id of a lease only to be
recognised when it is repeated.

Every module has a `TypeOK` (`PingsTypeOK`, `ResearchTypeOK`) that documents its state; it holds in every run, and is proved where a
proof needs it, but is not counted among what the runs show. Definitions marked *slip* are plausible
mistakes in the code; each is what one property exists to notice.

### MailChain

An action is the code between two awaits that reach the disk or the network. State and code:

* `journal`, `last`: the lines of the ESP journal; a line is who, what, which campaign and step,
  its number and, for an outcome, the number of the attempt. Erasing takes the address off
  (`Nobody`) and leaves a line with the hash.
* `camp`, `enr`, `halted`: `espCampaigns`, `espEnrollments`, `espHalt` in memory; `saved` is what
  the state file has of them. The write after every change is only logged when it fails, so the
  file may be as old as it likes (`Persist` may come late or never).
* `pending`: requests that make two writes (finish, delete, erase, auto-reply) and have made one, and
  requests that have asked about a person and have not enrolled them (`Asked`, with the last line they had
  read). Pasted lines and lead lists are checked and written with no disk in between; `leads-by-provider`
  splits its people between campaigns and writes one campaign after the other on the same checks.
* `pc`, `known`, `own`, `camps`, `cur`, `rows`, `todo`, `who`, `att`, `cause`: the pass. `known` is the
  journal when it began, `own` what it wrote itself, `rows` the rows of the campaign when it came
  to it. They grow stale; that is the point of the model.
* `delivered`, `late`, `away`: what the world knows: letters in mailboxes, letters that arrived after a
  stop, how long somebody said they are away.

A pass goes `idle -> walk -> writing -> gate -> wire -> answer -> advance -> walk`, or from the gate
and the wire over `refused` back; `NoAnswer` leaves the attempt open, which is what makes the next
pass set the person aside.

Abstracted: sender mailboxes, limits, windows (a pass may pass a person over: `PassOver`), the text
(a letter can or cannot be written: `Unfit`), calendar dates (working days that are left; a pass does
not straddle midnight; the horizon is shorter than the 90 days of `RECONTACT_DAYS`).

### Invitations

One row of `wl_outreach` per invitation: whose, which account, where it stands, by hand or from a
folder. A call of a route or of the agent is a *job* in a slot; each of its steps is the code between
two round trips to the database, so jobs meet between any two of them. `Fail` ends a job at any step
(an error, a restart, a client that stopped waiting). State and code:

* `row`: the table; `log`: the `invite.failed` and `invite.reassigned` events of a row, `skipped` the people
  with a `campaign.skipped` event.
* `spent`: the day's count per account, `billed` how often a row was ever counted; `Quota` stands for the
  strategy's arithmetic.
* `paused`, `pausedBy`: whether an account is under a warning's pause, and which report began it.
* `job`: the requests in hand; `withAccountQuota` and `oneHeldReportAtATime` are turn-taking between
  them, in the order they came.
* `agent`: the invitation in hand, what LinkedIn showed, which attempt at the report this is;
  `linkedin`: what really is there between an account and a person.

Abstracted: the clock within a day (days pass while nothing is in hand, as a pause is counted in days
and a request takes seconds), notes, priorities, claims, the copy to the CRM, `PATCH /outreach`. There
is always an active run (without one the routes answer 409), and the agent always has a lease (without
one a repeated report is recognised by its age, ten minutes).
`pauseForWarning` is one step: if its event were lost a retry would not be recognised.
`OutreachLedger` is the promise: a person is free, waiting, asked (`pending`) or has answered, goes
forward only, goes back from waiting only, and a recorded answer is never erased. `Ledger` in `Invitations` maps the rows to it.

### WorkerLease

`leases`, `coolingOff`, `resting` (`lastSession`) and `urgentEnded` are the maps in the portal's memory,
with the time that is left instead of a date. `POST /agent/lease` waits for the database three times
(`UrgentRead`, `ReadyRead`, `DutyRead`); each grant asks again whether somebody runs. `finishRun` takes
reports whatever lease they carry. A worker runs for at most `RunTime` (the watchdog), which is longer
than `LeaseTime`, reports at most twice, dies; reports arrive late, twice or never; the portal restarts
with nothing in its memory. A session that ends or a worker that dies may leave its browser open
(`leftOpen`); the worker tries to close what is open on its computer after each session, before it reports
(`closeLeftOpen`), and a session on a profile that is still open there fails. `MaxLeft` bounds how many
are left open at once. `latest` is a history: of a session or its report, that it was a day's session, has
not failed, and the account was not handed out again since.

Abstracted: who owes what (the day's counters, windows, folders, open profiles, pauses) is the
database's answer and may be anything, so what is shown does not rest on it. The clock stands still
while a request is served (seconds against steps of many minutes). Lease ids are numbers that nothing
refers to any more, as a UUID never comes back. Not in the model: `inboxOffered`, the order of the
candidates, the log.

### Senders

The registry is folded from the journal, so a change counts when its line is in memory and not when
somebody decided it: `queue` holds the appends on their way, in order, and every decision reads
`sender`, `domain`, `used`, `bad` and `raised` as they are without the queue. State and code:

* `writer`: the chain's pass, the single letters of `/send-one` and the quick replies of
  `/conversations/reply`, from the look at the ledger (a reply takes none: only whether its mailbox may send) over
  the line `message.sending` and the gate to the answer and its line; `ledger` is the count a writer
  has in hand (the pass adds its own letters to it, `esp/limits.mjs`).
* `check`: the two timers and the button of `esp/alerts.mjs`: a check reads the findings and the alarms
  of the last day once, then pauses and announces, one append each. `review`: the ramp's look, which
  steps up from the stage it read.
* People set a status, a stage or a ceiling and lift the pause of the domain (`Calls`).
* `top`, `blind`, `blindAny`, `late`, `stops`, `base`, `delivered`, `unheard` are history: what the
  properties compare with.

Abstracted: one domain; one kind of finding (a refusal by policy, which counts for seven days, longer
than a run); the hours and the gaps between letters only refuse, so a writer may leave any letter
unsent; the day turns while nothing is on its way. Left out: test letters to a colleague's own address
(`/test-send`), which pass the gate and are in no journal; adding mailboxes, roles and tags, alarms
about campaigns (`MailChain` has the pause).

### MailJournal

`file` is what is on disk, torn lines among it, `ends` whether it ends in a line break, `mem` the copy
every reader is answered from (`loaded`), `writer` the one append or erasure whose turn it is
(`writeChain`) and `reading` what each reader of the file has so far: reading waits for nobody, which
is one hazard of this file. A crash may leave any part of a line; a failed `datasync` leaves the whole
line on disk and none in memory; a write may fail with nothing on disk, or put a part on disk and
fail, or put a part on disk with nobody noticing, for `handle.write` resolves with a count that is not
read. Then `endsWhole` is still true: the next line runs into the piece, its writer hears that it is
recorded, and it cannot be read again. `cut` remembers which lines were cut short, and `Exposed` has them
and the line after each: the properties say that the loss ends there. A line's hash is a number of its own and `prev`
the number before it; line numbers and the list of the lines an erasure touched are left out.
`spoilt` remembers which of the other hazards happened (overlapping reads, a failed sync, an erasure
whose new file was cut short), and the properties say what holds without and what holds with them. Of
the damage that makes `eraseContact` refuse, the lines that cannot be read and the missing line break are
modelled; a chain that a failed sync or a short write broke (`chain_broken`, found by the next
reading) would make it refuse too, and the model lets it go on: it erases more often than the code.

### InboxReader

`inbox` is what arrived, in order: the place is Gmail's history id. `poll` has the pass of the timer and
that of a person (`POST /inbox/poll`); each reads a list (`inboxSince`: what came since the cursor, or a
catch-up of the newest when the cursor is unknown or too old), matches and journals one message after
the other, oldest first, moves the person's next letter for an auto-reply or raises an alarm for a
policy bounce, and then writes the cursor. `cursor` is in memory, `saved` in the state file; a
restart, an error in any await and a cursor Google forgot are the faults. `told` and `acted` count what
was journaled and done about each message, `skipped` is what a catch-up left out, which the code
accepts. Abstracted: the words of a message to its kind (`Kinds`); our own, the warm-up's and a
stranger's messages are passed over like answers to letters the journal does not know.

### WarmupRun

One account: its runs (`wl_runs`) with the dates a pause takes out, its status (`wl_accounts`), the
counted requests of each date (`rows`) and what went out beyond the allowance or in a pause (`over`,
the events the weekly limit reads). A call is in a slot of `job` and works on the copy of the run it
read: it writes the run, then the account. `line` is `withAccountQuota`. The end of a pause is a date;
whoever takes the account first writes it down (`settlePause`), guarded by the pause still being the
one that was read. Abstracted: one kind of action, connection requests, which has all the rules the
others have and the week's; no draw of a quota from its range (`Quota` is the plan day by day); a call
does not straddle midnight.

### Outbox

`replies` are the queued rows in order, each with the newest verdict on it (`deriveReplies`), `chat`
what stands last in each conversation on LinkedIn, `agent` the visit (what is left of its plan, what it
typed, which attempt at the report this is), `job` a portal call between its read and its write, `back`
the replies whose author was told they are taken back. The agent types, looks whether the words are
there, reports; a report is asked again when no answer comes. Abstracted: words to a few that are equal
or not, pages and composers to the outcome *could not*, the 72 hours to dates, the account's door to a
visit that does not come.

### Research

`jobs` and `here` are in memory, `file` is the workspace file; `queue` and `writing` are
`stateWriteChain` and the writes under way, each with the picture of the state it took when its turn
came. `at` is the code that runs each job, `waiting` and `resuming` the walk over interrupted jobs
after a restart. A stage that was started is paid for (`paid`). A write that fails is only logged.
Abstracted: what a stage finds; the rest of the workspace, for which the people in the queue stand.

### Pings

`dialog` is the conversation with one contact: their last answer, how many of ours stand after it, what
of ours is still to appear (`pend`), how long nothing has happened (`age`). `tasks` are the contact's
pings in the CRM in the order they were made, each with the key of the step it stands for and the
flag `ping_superseded`; `status` is the lead's. `pass` is a reconciliation between two requests
(`reconcilePings`: dialogs, then tasks and contact side by side, then the writes one by one), `hand` the
request of a person. `closed` and `kept` are history: what people decided while no reconciliation had
read it. Dates are numbers in the order things happen; a step's day and the two weeks' window are an age.
A person may set any of the nine statuses; some of them a later reconciliation takes over whoever set
them (`STILL_TRYING`, `AUTO_REPLIED_FROM`), and `Lifted` says which. The queue of replies that cannot be
read is taken for empty (`QueueUnread`), as in the code.

## Runs

| Run | Instance | Shows |
|---|---|---|
| `chain` | 2 people of a company, 2 campaigns, 2 letters, 2 faults | no letter twice, letters in turn; after a "no", an erasure, a colleague's answer, a stop or a pause at most the letter already decided on; nobody in two campaigns, an erased person's row stays away but for a request begun before and a restart |
| `chain_live` | 1 person, 2 faults, fairness | chains end, no letter stays in limbo, follow-ups catch up after a restart |
| `invites` | 2 people, 2 accounts, 2 rows, 2 calls at once, 2 sessions, 2 days | the day's allowance holds, a pause of the agent's own report parks the person, who is let go is let go whole, a report is counted once, the record implements `OutreachLedger` |
| `lease` | 2 accounts, 2 workers | one lease at a time; of two open browsers one is past its lease, forgotten by a restart or left open by a session that ended; cool-offs and rests are kept |
| `account` | 5 dates, 2 runs, 5 calls, 2 at once | the day of the plan, the week's limit, and that only people end a pause that holds |
| `outbox` | 3 replies, or 2 with a first message, 3 dates, 2 calls at once | the same words wait once, the day's limit, nothing said twice in a row, nothing typed that was taken back |
| `journal` | 3 lines, 2 people, 3 crashes, failed syncs or short writes, a reader beside the writer | acknowledged lines are on disk but for those a short write exposes, memory and file agree, the erased stay erased |
| `inbox` | 2 messages about one letter, two readers, 2 faults, fairness | written down and acted on once, never passed by a cursor, and in the end read |
| `research` | 2 jobs of 2 stages, 3 restarts, 1 failed write, fairness | one job a person, a restart costs the stage in flight, the file never goes back, every job ends |
| `pings` | 1 contact, 4 events, or 2 and an act, or 2 acts; 1 fault, fairness | one task a step, decisions made before a reconciliation read the CRM stand, but for the statuses it may take over, and in the end the tasks say the next step and the status what came of the lead |
| `senders` | 2 mailboxes, a pass and a single letter, 2 checks, 2 reviews, 3 days | the day's allowance but for letters nobody could see, one letter a writer after a stop, lifted pauses stay lifted, one step a day |
| `letter_after_unsubscribe` | 2 people, no fault | **violated**: the page says no more letters; a pass that read the journal before begins one |

### Bounds, and why they are enough

* **Chain.** `Env` names which of the things around the pass happen in a run, `MaxFaults` how often
  something fails (a refusal, a lost answer, a failed write, a restart, a stop). Two people are enough
  for everything that relates a person to a colleague, one for what concerns one chain; two campaigns
  for what a deletion and a second enrolment can do; two letters have a first, a follow-up and a
  last. A behaviour of `chain` keeps to one of three stories (`MCMailChainStories`): in *Failing* everything
  fails and nobody leaves the one running campaign, in *Leaving* nothing fails and people and campaigns
  come and go (one request at a time enrols, and while it waits nobody pauses or unsubscribes), in *Colleagues* both people are in one campaign, answer, are paused and picked up again
  while the campaign is paused and started. Who bounces has not also been away in it. Deadlock
  is off: with everybody done the system rests.
* **Invitations.** `MaxTurns` bounds the calls of sellers and operators and the failures taken together,
  `MaxSession` the agent's sessions, `MaxDay` the days and `MaxLog` the events about one row. Two jobs
  meet in every order; a third one has the same table to meet. Where a second person comes in, only one
  account is at work and the day is short (`ShortDay`): that is the case of the allowance, which two
  people share; what one row can go through is explored with one person. Deadlock is off as above.
* **Lease.** A lease, a gap, a cool-off and a rest are one step of the clock and a run is two, which is what
  a run past its lease takes; ids come back, `MaxReports` is how many reports are late and `MaxLeft` how
  many browsers are left open at once. Deadlock is checked: a
  portal can always restart.
* **Account.** Five dates hold a pause of two, the date after it and a week of three on both sides; two
  runs the stop and the start after it; five calls two pauses and what ends them. The allowance begins
  with nothing, rises and falls, so that a day too many shows. The dates end, so deadlock is off.
* **Outbox.** `PerDay` and `MaxWaiting` are reached by the second reply and passed by the third; a reply
  expires on the second date. A third reply follows two of different words, and a first message is
  explored with two replies of one date (`Few`). Deadlock is checked.
* **Journal.** An erasure needs a line before it and one after it, a short write the line that runs into it
  and one more: three lines, and three faults so that a crash can follow a short write and a failed sync.
* **Inbox.** The caps of Gmail's lists (`CatchUp`, `Page`) are one and two messages pass them; one of the
  messages at most is deleted, and of two one is an auto-reply (`Few`). Deleting and arriving are
  never undone and no action of the reader leads out of `Few`, so the reader's liveness is judged on
  whole behaviours.
* **Research.** A job may be resumed once (`MaxResumes`) and three restarts are one more than it takes to
  give a job up; one write is lost.
* **Pings.** What can differ between two steps is one event, one decision, one failure; a reconciliation
  has at most six requests. *Not ICP* is as *not interested* to it, *call booked* as *qualified*, and *new* as
  *in progress*, so six statuses of the nine are set. Four events, or a person's act in the place of two (`Few`), hold an
  answer, a message and its cancellation around a decision. What is cut off is only what people, the
  dialog and failures do, never the reconciliation, so its liveness is judged on whole behaviours.
* **Senders.** Three stories in one state space: *Letters* (both mailboxes, the domain's limit, one day),
  *Alarms* (one mailbox, two checks, one of which may begin while the other runs) and *Ramp* (one
  mailbox, days, reviews). Each keeps every step that matters to its property.

### Fairness

`MailChain!FairSpec` has weak fairness of the pass as a whole: the timer calls it every minute and every
await of it ends (with an answer, an error or a timeout of the connector). Days pass, even though a
pass may be at work at any given moment: strong fairness of `DayPasses`, which waits for an idle pass. A
request that made its first write makes its second (`FinishPeople`, `RemovePeople`, `Forget`, `Postpone`).
Nobody has to answer, resume, start or restart.

`InboxReader!FairSpec` has weak fairness of the timer's pass and nothing else: it is called every five
minutes, and Google answers or throws. Errors and restarts are bounded (`MaxFaults`): a mailbox
that fails for ever is never read, by the code and by the model.

`ResearchFairSpec` has weak fairness of the code that runs a job, of the walk that takes jobs up and of
the queue of writes: each is a promise that is already running. Nobody has to ask, and restarts stop.

`PingsFairSpec` has weak fairness of the reconciliation: a timer calls it every two minutes and each of
its requests is answered or fails. The dialog and the people are free to stop.

## Where the code disagrees with what is written about it

The run `letter_after_unsubscribe` is listed as a finding in `PROJECT.json`, with its lines. Modelling
also met these; the properties above are stated so that they leave them out, and say where:

* **Chain.** After a crash between `message.sent` and the row of a *first* letter, the 90-day check
  (`sequence.mjs:204`) skips the person before the journal is asked, at every pass, although
  `sequence.mjs:20` says the next tick repairs it. Somebody set aside over a lost answer and picked up
  again is set aside at the next pass over the same old attempt. A pass saves the active row over the
  one that finishing its campaign had stopped.
* **Journal.** Two reads of the file that overlap may leave a copy that lacks a line; two lines then
  share a `prev`. The number of bytes a write took is not looked at, and after a write that failed half-way
  `endsWhole` is still true: the next line runs into the piece and is lost at the next reading although
  its writer heard that it is recorded, against `append`'s "once it is on disk" (`journal.mjs:140`). An erasure
  whose new file was cut short takes the old one's place all the same.
* **Erasure.** A crash between `eraseContact` and the saved state brings the row of an erased person back. So
  does `leads-by-provider` (`api.mjs:404-431`) when it had asked about them before the erasure and enrols them
  after it; the next pass stops them, the one under way may write the first letter.
* **A word.** A person moved to another campaign while a pass is under way may get one letter more from it in
  the new campaign, decided on the copy it read before their "no"; so `AtMostOneAfterWord` says *once in a
  campaign*. It takes three campaigns, one deleted, and is beyond the run's two; the proof met it.
* **Day's limit.** A quick reply is journaled as `message.sending`, takes the room of a cold letter and asks
  for none itself (`api.mjs:893`), so a mailbox may pass its allowance; a test letter is not counted at all.
* **Inbox.** An auto-reply that is journaled before a crash never moves the person's letter.
* **Mailboxes.** A retired mailbox comes back when a status decided before its retirement is appended
  after it. A letter of `/send-one` that went and was journaled as failed does not count for the day. A
  pause whose append fails is still announced, and not tried again for a day.
* **Invitations.** An invitation moved to another account between the click and the report: the report
  is refused with 409, nothing is recorded, and the other account asks the person again. A request that
  the agent died over is found `already_pending` later and never counted, although
  `warmup/api.mjs:4225` has it counted before.
* **Runs.** A pause or a resume that read the run before it was stopped, or its account excluded, writes
  by the run's id and revives it. Two starts at once leave two live runs; a start whose
  `setAccountStatus` fails leaves a live run of an idle account.
* **Outbox.** A cancellation that read *waiting* before the report is written after it: a sent reply
  reads cancelled. A first message queued while a failed one is being reported sent stands twice.
* **Lease.** A failure reported between the cool-off check and the end of the read of approved messages
  does not stop the send-only session (`warmup/scheduler.mjs:393-397` says a cool-off does). A day's
  session that reports past its lease while a send-only lease of the same account is held is taken for
  the send-only one, and the account does not rest (`WARMUP_SCHEDULER_CONTRACT.md` says a late report
  counts); a send-only session whose lease is gone is taken for the day's, and it does.

* **Pings.** `triage/pings.mjs:405` says that all but *new* and *in_progress* is a person's and left alone:
  *no_response*, whoever set it, becomes *responded* on the next reconciliation where the last message is
  theirs, though nothing came since; and *in_progress* set by hand is taken over like *new*.
  A status a person sets while a reconciliation is under way is overwritten by it (responded and
  no_response are written over whatever it read before). A ping closed meanwhile is marked superseded
  by it and opened again later. `bad_timing` set after it read, with the open tasks read after it made
  the month-later ping, closes that ping too, and nobody opens it again. A ping set by hand while one is
  being created leaves two open.

## Proofs

Each of these holds for every value of the constants: any number of people, campaigns, mailboxes,
accounts, calls at once and faults. The sets need not be finite, but for `Workers` and `Senders`.

* `MailChainProofs!TypesOK`: `Spec => []TypeOK`. The invariant is `TypeOK /\ RowsOK`: a row that is not
  done has a letter to come, the rows a pass has yet to take are active ones, and a letter in hand
  belongs to one of them. Without it `Advanced` could leave the chain's length.
* `MailChainProofs!NeverTwice`: `Spec => []AtMostOnce`. The invariant says that a delivered letter is
  *covered*: the journal holds an attempt for it that no failure answers, or `contact.erased` of its
  person; and that the copies the running pass works with cover it as well. What keeps it: an
  attempt has a number of its own, has no outcome while it is at the gate or on the wire, and a
  refused one delivered nothing.
* `MailChainProofs!ErasedStaysOut`: `Spec => ForgottenStaysForgotten`. By action: what a step can do
  to a person who has no row (`StaysOut`). Only an enrolment and a restart write a row where there was
  none; a pass saves over rows that are there (`SaveRow` looks). A request that is still to write has read
  no line younger than the erasure of anybody it asked about (`AskedInv`), so that one that is begun after
  it never puts the person back.
* `MailChainProofs!InOneCampaign`: `Spec => []OneCampaignEach`. From the same lemmas
  (`OnlyEnrolmentsJoin`): an enrolment looks at every campaign, and since a restart may bring back any
  state that was saved, the invariant says it of `enr` and of `saved.enr`.
* `MailChainProofs!OneLetterInTheWire`: `Spec => []AtMostOneAfterStop`. While a
  letter is with the provider and the system is stopped, none was delivered since the stop; while a
  letter is in hand, from its first line on, and its campaign no longer runs, none of the campaign was.
  The next one must pass the gate, or the pass's look at its campaign.
* `MailChainProofs!AWordIsKept`: `Spec => AtMostOneAfterWord`. Three collections of lines matter: the
  journal, the copy a pass decides from (`known`) and the lines the pass wrote itself (`own`). `WordInv` relates
  them: a number is one line's (`Unique`); of a person's letters the journal and the pass agree until the
  person is erased (`Copies`); the copy has no holes (`KnownPrefix`); whom the pass has yet to come to in this
  campaign it has not written to (`Untouched`); what the decision on a letter looked at still stands in the copy
  when the line is written (`Decided`); and no row was picked up later than the rows a pass saves over it
  (`Helds`). A letter begun after a word is then decided on a copy without the word, and so without any
  letter after the word but the pass's own.
* `MailChainProofs!LettersGoInTurn`: `Spec => []InTurn`. `TurnInv`: a row, in memory, in the saved state or
  in the pass's hand, is past a letter only when it was delivered and the journal and the pass can tell
  (`Had`, `Walked`, `RowsWalked`); a letter said to be sent was delivered (`SentReached`); a letter is attempted
  when all before it were sent and none of its own attempts is open (`InOrder`); and the letter in hand has a
  line of the pass's own (`Hand`).
* `MailJournalProofs`: one invariant, `JInv`, carries all four theorems. `Shape`: a copy holds only lines that can
  be read, an erasure is of one person. `Turns`: unless two reads overlapped, a reader is alone and the operation at
  work holds the copy in memory. A file that does not end in a line break comes from a crash, which leaves no
  copies, so whoever writes behind it knows and the line is on one of its own, or from a write cut short
  (`LineBreaks`): then the line behind it is `Exposed`, as lines are numbered in the order they are
  begun (`Numbered`). The last line of a file that waits for its sync is the one nobody has heard of (`InSync`), so a crash costs nothing that was
  acknowledged. Facts about what can be read of a file (`WholeIs`, `WholeAppend`) are proved by the smallest
  counterexample. Then:
  * `WhatIsHeardIsKept`: `Spec => []AckedOnDisk`. An append only adds; an erasure writes the copy in its hand, and
    `Held` says that each copy in hand has every acknowledged line unless reads overlapped.
  * `TheJournalIsOneList`: `Spec => []OneTruth`. `Truth` and `Exact`: if nothing went wrong every copy in hand is the
    file, but for the line on its way and, after a short write, for the exposed lines; so the line a writer
    chains to is the last of the file unless that one is exposed (`LinkedAppend`), and a line less or a torn one
    leaves the rest chained.
  * `TheForgottenStayUnnamed`: `Spec => []Forgotten`. No copy in hand and no line of the file names whom an older
    erasure took out (`Held`, `NoNames`), and what an erasure has written names its person nowhere (`Erased`).
  * `TypesOK`: `Spec => []TypeOK`.
* `SendersProofs!OneLetterAfterStop`: `Spec => []OneAfterStop`. `Shape` keeps what is in hand well formed
  (`BaseInv`: the registry and the queue; `Works`: what each writer, check and review can hold); `LateInv`
  says a writer whose letter is with the provider has sent none from that mailbox since the stop.
* `SendersProofs!OneRampStepADay`: `Spec => []OneStepADay`. `StepInv`: the stage is at most one above the
  base, and at most the base while the mailbox has not moved today; a step that a review has listed,
  or has put into the queue, is at most one above the base. A line of a stage overtaken in the queue
  may land, but never above that.
* `SendersProofs!PauseStaysLifted`: `Spec => []LiftedStaysLifted`. `LiftInv` counts today's pauses of a
  mailbox together with the checks that may still pause it (`MayStop`): they are never more than the
  checks begun while another ran and the faults, and one more once a check is on it or its alarm is in
  the journal (`Spare`, `FewStops`). A check that has paused a mailbox owes the alarm and cannot pause it
  again; only a fault cuts it off between the two. Beside it, at most one more check runs than began
  while another did (`FewRun`), which is what a new day begins with.
* `SendersProofs!DayKeepsToItsAllowance`: `Spec => []DayAllowance`. Two balances. `Told`: what the
  provider took is at most what the journal counts and what went and was journaled as failed, less the
  attempts that count and have no end yet (`Hands`), of which there is one per writer. `Within`: what
  the journal counts is at most today's highest allowance and the attempts made blind; the line of an
  attempt that waits was written where its writer saw room (`Room`), so when it lands its writer's
  count is below the journal's, which is counted as blind, or there is room. For the domain the same of
  the sum over the mailboxes (`TotalBelow`, `TotalOneMore`), hence finitely many mailboxes
  (`DomainAssumption`).
* `InboxReaderProofs!NothingPassedOver`: `Spec => []CursorHonest`. `CursorInv` says of every cursor, in
  memory, in the file or in the hand of a pass, that whatever is before it and answers a known letter
  is journaled, on the pass's own list, or was left out by a catch-up; a pass's list only shrinks by
  what it journals.
* `InboxReaderProofs!ReadTwiceWrittenOnce`: `Spec => []OnceEach`. As long as no two passes ran at once, the
  one that works has a list of messages nobody told of but for the first, which it is about to act
  on; and what was acted on was told.
* `InvitationsProofs`: one invariant in seven parts carries all five theorems. `Shape`: what each kind of request
  can hold at each of its steps, and that a request about a row finds one that was written. `Turns`: of two requests that
  take turns one waits, and not the one that came first; attempts of one report agree in everything but their
  number; what the agent waits for is what it asked last. `Bounded`: every session and day ever noted is within
  the bounds. Then:
  * `QuotaHolds`: `Spec => []DayWithinQuota`. `Counted`: a request that was allowed and is not counted yet is the
    account's only one past its queue, so the allowance it read still stands (`Books`, `CommitCounts`).
  * `ReportsOnce`: `Spec => []ReportedOnce`. For the count, `Counted`: two requests that are about to count
    never hold the same row, since the update guarded by the status lets one of them through (`Commits`), and a
    row counted once is past the queue. For the failures, `Told`: a row's failures are in the order of their
    sessions, and a held report that is past its first look has heard of none of its own session (`Heard`).
  * `HeldReportsWhole`: `Spec => []HeldReportIsWhole`. `Whole`: an attempt that calls the pause somebody else's
    is right until it has written (`PausedBefore`), a row that is let go is the folder's and is deleted only
    with its marker, by this report or by a cancel that met it (`LettingGo`, `Gone`).
  * `ImplementsLedger`: `Spec => OnlyForward`, the refinement of `OutreachLedger` by the mapping `Ledger`.
    `Forward`: a person has one row at most, so the stage of the person is the status of that row (`StageIs`);
    then by the six steps that write the table (`StepForward`).
  * `TypesOK`: `Spec => []TypeOK`.
* `SellerProofs!OneCopy`: `Spec => []OneWaitingCopy`. `CopyInv`: where a call that queues found no copy of
  its words waiting, there is none when it inserts, because queueing calls take turns and nothing else
  makes a reply wait. `SellerProofs!TakenBackIsNotTyped`: `Spec => NotAfterTakenBack`. `BackInv`: what was
  taken back has a verdict and is not what the agent is typing; the portal hands out only what has none.
* `SellerProofs!DayIsKept`: `Spec => []DayLimit`. The limit is kept by what is handed out and not by what is
  reported, so the invariant bounds all that is `Due`: sent today, in the agent's plan, in its hand, or in a
  report under way. Only a visit adds to it, and it hands out no more than the day has room for (`VisitFits`);
  every other step moves a reply from one part to another or drops it (`DueShrinks`).
* `SellerProofs!SaidOnce`: `Spec => []NotTwiceInARow`, by the look at the conversation before typing.
* `SellerProofs!OneTaskOfAStep`: `PingsSpec => []OnePingPerStep`. `Claimed`: a key is a task's if the task
  has it or if the pass at work means to give or leave it to the task: to those it is about to supersede, to
  the one it is about to reopen, to the one yet to be made. `OneClaims`: no key is claimed for two. A plan looks for
  the key in the tasks it read, and people who change a task's key meanwhile give it one that carries a new
  number (`NoneAhead`: no key carries a later one), so the plan stays right though it is old.
* `SellerProofs!WhatPeopleDecide`: `PingsSpec => []DecisionsKept`. `ClosedStands`: what people closed while no pass had read
  it is in no plan, neither to be superseded (which would make it a ping of the system's own closing) nor to be
  opened. `OpenStands`: an open task is not marked superseded, so closing it is a decision. `StatusStands`: the
  status, and what a pass has read of it, is what people set or what a reconciliation may make of that (`Lifted`);
  who has written stays who has written (`WroteOnce`).
* `SellerProofs!OneJobOfAPerson`: `ResearchSpec => []OneJobEach`. `JobsInv` says everything of the state, of the
  file and of the picture on its way to it (`Held`), as a restart may take up any of them. Each has one live job
  a person (`AllAlone`).
* `SellerProofs!WhatARestartCosts`: `ResearchSpec => []RestartCost`. The number of stages paid again is not inductive: a picture
  written before a stage ended makes the next process pay for it although nothing was paid twice yet. So the balance is
  of what is *owed* (`Owed`): every payment but the first of a stage that is complete in that picture. It
  is at most the restarts and the failed writes, and one more while a stage is in flight (`NowOK`), and for the
  file one more at all times, which the restart that reads it adds (`PictureOK`). A stage begins only behind a
  write that ended, and a write that failed is counted; so the file, when a stage is about to be paid, is the
  state or a write behind it (`ToPay`). `InLine`: one writes at a time, who waits for a write waits once, and
  what is written of whoever waits is the latest. That an answered request is in the file is `InLine` again.
* `SellerProofs!TheFileGoesOn`: `ResearchSpec => FileNeverBack`. `InOrder`: the file is older than the picture on its way, and
  that than the state (`Newer`).
* `SellerProofs!PingsTypesOK`: `PingsSpec => []PingsTypeOK`, by `InTime`: a person's request that is yet to take a
  number came with one act, so there is room for it. `SellerProofs!ResearchTypesOK`: `ResearchSpec => []ResearchTypeOK`,
  a part of `JobsInv` (a live job was taken up no more often than it may be, a job that ended once more).
* `WarmupRunProofs!PausesAreKept`: `Spec => OnlyPeopleEndPauses`. `CallsInv`: which kinds of call come to
  which write of the run; the write that settles an old pause is made only where the row still reads
  that pause, and only after its last date.
* `WarmupRunProofs!PlanIsKept`: `Spec => []PlanKept`. `Good(r, S, t)` balances a run's dates against the dates
  `S` it has lived: on date `t` it owes no more than its pauses took out, less what a resume would give back; and if
  a pause holds it will owe no more when it ends. The balance holds of the rows and of every copy in hand, since a
  copy that is not paused while its row is belongs to a run that lived today (`CopyGood`): so it survives the write
  of any copy (`WarnedGood`, `ResumedGood`, `WriteKeeps`) and midnight (`NextDay`). For the counts: who is allowed
  one is at the head of the line until it is counted (`Holds`).
* `WarmupRunProofs!WeekIsKept`: `Spec => WeeklyLimitKept`. `Leaves`: the week had a place when the call was
  allowed, and nobody else counts or records before it has; one more of one date is one more in the sum of the
  week (`WeekOneMore`, from `SumOneMore`).
* `WarmupRunProofs!TypesOK`: `Spec => []TypeOK`.
* `WorkerLeaseProofs!OneAtATime`: `Spec => []OneLiveLease`. Everything but a grant takes leases or time
  away; a grant is made in a step that finds nothing live. The invariant adds only that a lease's
  time is a number.
* `WorkerLeaseProofs!NoWarmingInCoolOff`: `Spec => CoolOffKept`. The portal's cool-offs are the reported
  failures (`failed = coolingOff`), and the only step that takes a request off after the second or
  third read and adds a lease is the grant of that request, which looks at the cool-off.
* `WorkerLeaseProofs!OneBrowserInTime`: `Spec => []TwoBrowsersOnlyPastLease`. `BookInv` follows a session from
  the portal's book to the worker: ids under way differ and no report speaks of an open browser (`OwnIds`), so
  whoever works within its lease works under a lease in the book with as much time left (`UnderLease`), and the
  book has one in force. What is left open by sessions that ended is nobody's session and is excepted. A new id is in no lease, worker or late report because these are finitely many
  (`WorkersAssumption`).
* `WorkerLeaseProofs!TheRestIsKept`: `Spec => RestKept`. An account tired by its history rests in the book
  (`Rested`): of a day's session that nobody was given the account after, the book has the very lease or none
  (`Latest`), so its report counts, and a day's session is granted only to who does not rest in the book. A
  report that comes after the account was handed out once more is outside the theorem: the code may take it
  for the other session's.
* `WorkerLeaseProofs!TypesOK`: `Spec => []TypeOK`.

Assumed, and evaluated by TLC in every run of the module: `ConstantsAssumption` and
`InvitationsAssumption` (bounds are numbers; in `MailChain` somebody is enrolled in one campaign at most
to begin with), `TimesAssumption` (the times of `WorkerLease` are
positive; the proofs do not use their order), `WorkersAssumption` (there are finitely many workers),
`PingsAssumption` (bounds are numbers; the statuses people set are statuses of the CRM),
`ResearchAssumption` (bounds are numbers; there is a stage; a request of the desk is not a job),
`NobodyAssumption` (no account is nobody), `CallsAssumption` (the calls of `WarmupRun` are calls); of `Senders`, `AllowAssumption` (the ramp rises), `DomainAssumption` (finitely many mailboxes, and the
domain's limit is a number) and `ActorsAssumption` (one name is one actor).

`SellerProofs` extends three modules that share nothing, so the definitions every module has carry their
module's name in two of them: `Spec` is the outbox's, `PingsSpec` and `ResearchSpec` the others'.

Every safety property of the passing runs is proved. Only model-checked is what is out of the prover's reach:
everything under fairness (`ChainEnds`, `RowsCatchUp`, `AnswersRead`, `JobEnds`, `PingsSettle`). The prover and
the model checker read a `CASE` whose guards overlap differently, so the guards of every `CASE` here exclude
each other.

## Not modelled

* **Mailbox warm-up** (`esp/mail-warmup.mjs`): the team's own mailboxes writing to each other. Its letters
  pass the gate and the journal that are modelled and count apart from the cold ones; nothing it
  sends reaches anybody outside.
* **Rounds of reassignment and the share of each account** (`warmup/reassign.mjs`): which account a person
  is moved to is arithmetic over counts; the move of one row is in `Invitations`.
* **LinkedIn threads** (`warmup/inbox.mjs`, `storeThread`): what is read is copied into a table by the key of
  the conversation, and reading it again writes the same; what an answer does to an invitation is in
  `Invitations`.
* **Mailbox connection and OAuth, provider, secrets**: exchanges with Google, one read and one write each.
* **Letters** (templates, spintax, mime), **reports**, the **lists and the levelling of triage**: functions of what they are given.
* **The import of old open dialogs** (`acceptOpenDialogs` of `triage/open-dialogs.mjs`) also makes pings: it looks for an open
  ping of each contact and inserts one with a key of its own (`import:`), so two imports at once may make two.
  `OnePingPerStep` is about the keys of steps and of pings set by hand.
* **Contacts**: the CRM is read through a small cache with tests of its own; nothing is sent from it.
* **Knowledge base**: a library with a file behind it; single writes.
* **The rest of the workspace server** (users, CRM, AI, calendars): thousands of lines of routes, each
  reading or replacing one record of the same state; the research jobs and the state file, which have a
  life of their own, are in `Research`.
* **Front end, deployment**: render, and restart; restarts are in the models where they hit.

Most of the repository's lines are of the last kinds, so the map covers a small share of it; the share
of `esp/` and `warmup/` that sends is much larger.
