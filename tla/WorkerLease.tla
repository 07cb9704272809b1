---------------------------- MODULE WorkerLease ----------------------------
(* Which account runs, and on whose computer: warmup/scheduler.mjs hands an  *)
(* account to a worker (agent/worker.mjs) for LeaseTime, the worker runs a   *)
(* browser for at most RunTime and reports how it went. Leases, cool-offs    *)
(* and rests live in the portal's memory and go when it restarts. A session  *)
(* that dies may leave its browser open; the worker tries to close it after  *)
(* its next session, and no lease speaks of it any more.                     *)
(*                                                                           *)
(* A request for an account waits for the database three times (urgent,      *)
(* ready, duty); other requests and reports are served in between. Requests  *)
(* take seconds and the clock moves in steps of many minutes, so the clock   *)
(* stands still while one is served. A worker may ask for any account: the   *)
(* advice it asked for first (GET /agent/due) takes nothing. Who owes what   *)
(* is the database's answer and may be anything.                             *)
EXTENDS Naturals, FiniteSets

CONSTANTS Accounts, Workers,
    LeaseTime, RunTime, CoolOff, Rest, Gap,  \* in steps of the clock
    MaxReports,                              \* reports on their way at once
    MaxLeft,                                 \* browsers left open at once
    Nobody                                   \* no account

ASSUME TimesAssumption ==
    /\ {LeaseTime, RunTime, CoolOff, Rest, Gap, MaxReports, MaxLeft} \subseteq Nat \ {0}
    /\ LeaseTime < RunTime
ASSUME NobodyAssumption == Nobody \notin Accounts
ASSUME WorkersAssumption == IsFiniteSet(Workers)

VARIABLES
    leases,       \* the leases the portal remembers, expired ones among them
    coolingOff,   \* how long an account is kept back after a failure
    resting,      \* how long it rests after the day's session
    urgentEnded,  \* how long it is kept back after a send-only session
    asked,        \* the request of each worker the portal is serving
    worker,       \* what each worker is doing
    reports,      \* reports on their way
    leftOpen,     \* browsers that sessions which ended left open: worker and account
    failed,       \* history: how long ago a failure was reported, counting down
    tired         \* history: the same for a day's session that went well

book == <<leases, coolingOff, resting, urgentEnded>>
history == <<failed, tired>>
vars == <<book, asked, worker, reports, leftOpen, history>>

Stages == {"none", "urgent", "ready", "duty"}
Lease == [account : Accounts, id : Nat, light : BOOLEAN, left : 0..LeaseTime]
Report == [account : Accounts, id : Nat, ok : BOOLEAN, latest : BOOLEAN]
Doing == [pc : {"idle", "running", "reporting"}, account : Accounts \cup {Nobody}, id : Nat,
          age : 0..RunTime, stray : BOOLEAN, latest : BOOLEAN, ok : BOOLEAN, tries : 0..2]
NoRequest == [stage |-> "none", account |-> Nobody]
\* age counts since the lease was granted; stray: the portal forgot it since;
\* latest (history): a day's session that has not failed, and the account was
\* not handed out again
AtRest == [pc |-> "idle", account |-> Nobody, id |-> 0, age |-> 0, stray |-> FALSE,
           latest |-> FALSE, ok |-> FALSE, tries |-> 0]

\* The shapes of the variables.
TypeOK ==
    /\ leases \subseteq Lease
    /\ coolingOff \in [Accounts -> 0..CoolOff] /\ failed \in [Accounts -> 0..CoolOff]
    /\ resting \in [Accounts -> 0..Rest] /\ tired \in [Accounts -> 0..Rest]
    /\ urgentEnded \in [Accounts -> 0..Gap]
    /\ asked \in [Workers -> [stage : Stages, account : Accounts \cup {Nobody}]]
    /\ worker \in [Workers -> Doing]
    /\ reports \subseteq Report
    /\ leftOpen \subseteq Workers \X Accounts

Init ==
    /\ leases = {} /\ reports = {} /\ leftOpen = {}
    /\ coolingOff = [a \in Accounts |-> 0] /\ failed = [a \in Accounts |-> 0]
    /\ resting = [a \in Accounts |-> 0] /\ tired = [a \in Accounts |-> 0]
    /\ urgentEnded = [a \in Accounts |-> 0]
    /\ asked = [w \in Workers |-> NoRequest]
    /\ worker = [w \in Workers |-> AtRest]

-----------------------------------------------------------------------------
\* The scheduler's book

Live == {l \in leases : l.left > 0}
LeasesOf(a) == {l \in leases : l.account = a}
NobodyRuns == Live = {}

\* randomUUID(): an id that nothing refers to
Ids == {l.id : l \in leases} \cup {worker[w].id : w \in Workers} \cup {r.id : r \in reports}
NewId == CHOOSE i \in 1..(Cardinality(Ids) + 1) : i \notin Ids

\* Only the day's session counts as one: it ends the rest after the last.
\* slip: a send-only session counts as the day's
AnyStarts(a, light) == [resting EXCEPT ![a] = 0]

Starts(a, light) == IF light THEN resting ELSE [resting EXCEPT ![a] = 0]

grantLease(a, light) ==
    /\ leases' = (leases \ LeasesOf(a))
           \cup {[account |-> a, id |-> NewId, light |-> light, left |-> LeaseTime]}
    /\ resting' = Starts(a, light)
    /\ UNCHANGED <<coolingOff, urgentEnded>>

\* a report frees the account only with the lease's own id
\* slip: whatever is held
AnyLease(a, id) == LeasesOf(a)

releaseLease(a, id) == {l \in LeasesOf(a) : l.id = id}

\* slip: only for a report that freed the account
CoolsIfFreed(r) == IF ~r.ok /\ releaseLease(r.account, r.id) # {}
                   THEN [coolingOff EXCEPT ![r.account] = CoolOff] ELSE coolingOff

Cools(r) == IF r.ok THEN coolingOff ELSE [coolingOff EXCEPT ![r.account] = CoolOff]

\* A report is accepted whatever lease it is for. A rest begins with a session
\* that went well, unless somebody else's lease is held by now.
finishRun(r) ==
    LET held == LeasesOf(r.account)
        light == \E l \in held : l.light
        counts == r.ok /\ (held = {} \/ releaseLease(r.account, r.id) # {})
    IN  /\ leases' = leases \ releaseLease(r.account, r.id)
        /\ urgentEnded' = IF light THEN [urgentEnded EXCEPT ![r.account] = Gap] ELSE urgentEnded
        /\ resting' = IF ~light /\ counts THEN [resting EXCEPT ![r.account] = Rest] ELSE resting
        /\ coolingOff' = Cools(r)
        /\ failed' = IF r.ok THEN failed ELSE [failed EXCEPT ![r.account] = CoolOff]
        /\ tired' = IF r.latest THEN [tired EXCEPT ![r.account] = Rest] ELSE tired

\* The next question, the next request and the tick drop what has expired.
Sweep ==
    /\ leases # Live
    /\ leases' = Live
    /\ UNCHANGED <<coolingOff, resting, urgentEnded, asked, worker, reports, leftOpen, history>>

-----------------------------------------------------------------------------
\* POST /agent/lease

\* what an account may be handed out for, if the database says it owes it
HeldBack(a) == coolingOff[a] > 0 \/ \E l \in Live : l.account = a
Urgent(a) == ~HeldBack(a) /\ urgentEnded[a] = 0
Ready(a) == ~HeldBack(a) /\ resting[a] = 0
Duty(a) == ~HeldBack(a)

\* Nobody runs yet; the first read is for messages that are approved and goes
\* on (stage "urgent") with those of an account that is not held back.
LeaseAccount(w, a) ==
    /\ worker[w].pc = "idle" /\ asked[w].stage = "none"
    /\ NobodyRuns
    /\ leases' = Live
    /\ \E stage \in (IF Urgent(a) THEN {"urgent", "ready"} ELSE {"ready"}) :
           asked' = [asked EXCEPT ![w] = [stage |-> stage, account |-> a]]
    /\ UNCHANGED <<coolingOff, resting, urgentEnded, worker, reports, leftOpen, history>>

\* an earlier session of the account, or its report, from now on
Overtaken(a, x) == [x EXCEPT !.latest = @ /\ x.account # a]

\* The lease reaches the worker and the browser opens, or the answer is lost:
\* the pause is not settled, the event not logged, nobody waits any more.
Grant(w, light) ==
    LET a == asked[w].account
        others == [v \in Workers |-> Overtaken(a, worker[v])]
    IN  /\ grantLease(a, light)
        /\ asked' = [asked EXCEPT ![w] = NoRequest]
        /\ \/ worker' = others
           \/ worker' = [others EXCEPT ![w] = [@ EXCEPT !.pc = "running", !.account = a,
                                                        !.id = NewId, !.latest = ~light]]
        /\ reports' = {Overtaken(a, r) : r \in reports}
        /\ UNCHANGED <<leftOpen, history>>

NextRead(w, stage) ==
    /\ asked' = [asked EXCEPT ![w].stage = stage]
    /\ UNCHANGED <<book, worker, reports, leftOpen, history>>

\* A 409 or a 500.
Refuse(w) ==
    /\ asked' = [asked EXCEPT ![w] = NoRequest]
    /\ UNCHANGED <<book, worker, reports, leftOpen, history>>

\* The reads are back: asked again whether somebody runs by now, and granted
\* with no wait in between.
\* slip: not asked again
Unraced == TRUE

StillNobody == NobodyRuns

UrgentRead(w) ==
    /\ asked[w].stage = "urgent"
    /\ IF StillNobody THEN Grant(w, TRUE) ELSE NextRead(w, "ready") \/ Refuse(w)

ReadyRead(w) ==
    /\ asked[w].stage = "ready"
    /\ \/ StillNobody /\ Ready(asked[w].account) /\ Grant(w, FALSE)
       \/ StillNobody /\ NextRead(w, "duty")
       \/ Refuse(w)

DutyRead(w) ==
    /\ asked[w].stage = "duty"
    /\ \/ StillNobody /\ Duty(asked[w].account) /\ Grant(w, TRUE)
       \/ Refuse(w)

-----------------------------------------------------------------------------
\* The worker

\* The browser of a session on its computer, and those left open there.
Browser(w) == <<w, worker[w].account>>
LeftBy(w) == {b \in leftOpen : b[1] = w}

\* The visit ends by itself or by the watchdog; one whose profile was open
\* already has failed. Before it reports the worker tries to close whatever is
\* open on its computer, this session's browser too, and may fail.
EndRun(w) ==
    /\ worker[w].pc = "running"
    /\ \E ok \in BOOLEAN :
           /\ ok => Browser(w) \notin leftOpen
           /\ worker' = [worker EXCEPT ![w] = [worker[w] EXCEPT !.pc = "reporting", !.ok = ok,
                             !.tries = 2, !.latest = @ /\ ok, !.age = 0, !.stray = FALSE]]
    /\ \E left \in SUBSET (LeftBy(w) \cup {Browser(w)}) : leftOpen' = (leftOpen \ LeftBy(w)) \cup left
    /\ Cardinality(leftOpen') <= MaxLeft
    /\ UNCHANGED <<book, asked, reports, history>>

ReportOf(w) == [account |-> worker[w].account, id |-> worker[w].id,
                ok |-> worker[w].ok, latest |-> worker[w].latest]

\* The report may not arrive, or late. Whether an answer comes back decides
\* whether it is sent once more, and nothing else.
SendReport(w) ==
    /\ worker[w].pc = "reporting"
    /\ reports' \in {reports, reports \cup {ReportOf(w)}}
    /\ Cardinality(reports') <= MaxReports
    /\ \/ worker' = [worker EXCEPT ![w] = AtRest]
       \/ worker[w].tries = 2 /\ worker' = [worker EXCEPT ![w].tries = 1]
    /\ UNCHANGED <<book, asked, leftOpen, history>>

\* it dies, and its browser may stay
WorkerDies(w) ==
    /\ worker[w].pc # "idle"
    /\ worker' = [worker EXCEPT ![w] = AtRest]
    /\ \/ UNCHANGED leftOpen
       \/ worker[w].pc = "running" /\ leftOpen' = leftOpen \cup {Browser(w)}
    /\ Cardinality(leftOpen') <= MaxLeft
    /\ UNCHANGED <<book, asked, reports, history>>

\* POST run.finished
RunFinished(r) ==
    /\ finishRun(r)
    /\ reports' = reports \ {r}
    /\ UNCHANGED <<asked, worker, leftOpen>>

-----------------------------------------------------------------------------
\* The clock and the portal

Less(n) == IF n = 0 THEN 0 ELSE n - 1
Overdue(w) == worker[w].pc = "running" /\ worker[w].age = RunTime

Tick ==
    /\ \A w \in Workers : asked[w].stage = "none" /\ ~Overdue(w)
    /\ leases' = {[l EXCEPT !.left = Less(@)] : l \in leases}
    /\ coolingOff' = [a \in Accounts |-> Less(coolingOff[a])]
    /\ resting' = [a \in Accounts |-> Less(resting[a])]
    /\ urgentEnded' = [a \in Accounts |-> Less(urgentEnded[a])]
    /\ failed' = [a \in Accounts |-> Less(failed[a])]
    /\ tired' = [a \in Accounts |-> Less(tired[a])]
    /\ worker' = [w \in Workers |-> [worker[w] EXCEPT
                     !.age = IF worker[w].pc = "running" THEN @ + 1 ELSE @]]
    /\ UNCHANGED <<asked, reports, leftOpen>>

\* The portal restarts and remembers nothing; requests it was serving fail.
Restart ==
    /\ leases' = {}
    /\ coolingOff' = [a \in Accounts |-> 0] /\ failed' = [a \in Accounts |-> 0]
    /\ resting' = [a \in Accounts |-> 0] /\ tired' = [a \in Accounts |-> 0]
    /\ urgentEnded' = [a \in Accounts |-> 0]
    /\ asked' = [w \in Workers |-> NoRequest]
    /\ worker' = [w \in Workers |-> [worker[w] EXCEPT !.stray = (worker[w].pc = "running")]]
    /\ UNCHANGED <<reports, leftOpen>>

WorkerStep(w) ==
    \/ \E a \in Accounts : LeaseAccount(w, a)
    \/ UrgentRead(w) \/ ReadyRead(w) \/ DutyRead(w)
    \/ EndRun(w) \/ SendReport(w) \/ WorkerDies(w)

Next ==
    \/ \E w \in Workers : WorkerStep(w)
    \/ \E r \in reports : RunFinished(r)
    \/ Sweep \/ Tick \/ Restart

Spec == Init /\ [][Next]_vars

-----------------------------------------------------------------------------
\* Properties

\* Never two leases in force at once, over all accounts: of any number of
\* workers whose requests wait for the database side by side, one is granted.
OneLiveLease == \A l, m \in Live : l = m

\* the browsers open now, and those of them that no lease in force has to cover
OpenBrowsers == leftOpen \cup {Browser(w) : w \in {v \in Workers : worker[v].pc = "running"}}
PastLease(b) == b \in leftOpen \/ worker[b[1]].stray \/ worker[b[1]].age >= LeaseTime

\* Of two browsers that are open at once one has outrun its lease, was forgotten
\* by a portal that restarted, or was left open by a session that ended: no late,
\* lost or repeated report of another run lets a second session begin while one
\* is within its lease.
TwoBrowsersOnlyPastLease ==
    \A b, c \in OpenBrowsers : b # c => PastLease(b) \/ PastLease(c)

\* a step that hands it out, by which of the reads
HandsOut(a, stages) ==
    /\ \E w \in Workers : asked[w].stage \in stages /\ asked'[w].stage = "none"
    /\ \E l \in leases' \ leases : l.account = a

\* An account whose failure was reported, under whatever lease, is not opened
\* to warm it or to read its inbox before the cool-off is over.
CoolOffKept == [][\A a \in Accounts : HandsOut(a, {"ready", "duty"}) => failed[a] = 0]_vars

\* Between the report of a day's session that went well and the account's next
\* day's session lies the rest, also past the end of the lease and over
\* send-only sessions handed out after the report. A report that comes when the
\* account was handed out once more begins no rest here: the code takes it for
\* the other session's (scheduler.mjs:1115-1117).
RestKept == [][\A a \in Accounts : HandsOut(a, {"ready"}) => tired[a] = 0]_vars
=============================================================================
