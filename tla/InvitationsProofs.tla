-------------------------- MODULE InvitationsProofs --------------------------
(***************************************************************************)
(* What is proved of the connection requests, for every number of people,  *)
(* accounts, rows, requests in hand, sessions, days and failures.          *)
(***************************************************************************)
EXTENDS Invitations, WellFoundedInduction, TLAPS

-----------------------------------------------------------------------------
(* Shapes: what a row, an event, a job and a session can be.               *)

Outs == Outcomes \cup {"already_pending", "already_connected", None}
Agreed == {"go", "stop", "refused"}

RowShape == [status : Statuses, person : People \cup {None}, account : Accounts \cup {None},
             fed : BOOLEAN, replied : BOOLEAN]

JobShape == [kind : {"idle", "sent", "held", "byhand", "check", "reply", "feed", "cancel"},
             pc : {"idle", "queued", "read", "status", "move", "commit", "pause", "record",
                   "skip", "delete", "insert"},
             account : Accounts \cup {None}, row : Rows \cup {None}, person : People \cup {None},
             outcome : Outs, lease : Nat, try : Nat,
             seen : Statuses \cup {None}, to : Stages \cup {None},
             ok : BOOLEAN, release : BOOLEAN, skip : BOOLEAN, stop : BOOLEAN]

AgentShape == [at : {"home", "free", "visit", "clicked", "asked", "done"},
               account : Accounts \cup {None}, lease : Nat, row : Rows \cup {None},
               outcome : Outs, try : Nat, answer : Agreed \cup {None, "error"},
               done : SUBSET Rows]

EventShape == [type : {"failed", "moved", "row_gone"}, account : Accounts, lease : Nat,
               outcome : Outs, day : Nat, released : BOOLEAN, skipped : BOOLEAN,
               duringPause : BOOLEAN]

Shapes ==
    /\ row \in [Rows -> RowShape]
    /\ log \in [Rows -> Seq(EventShape)]
    /\ skipped \subseteq People /\ paused \subseteq Accounts
    /\ pausedBy \in [Accounts -> (Rows \cup {None}) \X Nat]
    /\ spent \in [Accounts -> Nat] /\ billed \in [Rows -> Nat]
    /\ day \in Nat
    /\ linkedin \in [Accounts \X People -> {"none", "pending", "connected", "gone"}]
    /\ agent \in AgentShape
    /\ job \in [Slots -> JobShape]

New(r) == row[r].status = "new"

\* Where a request of each kind can be, and what it is then about.
JobOK(j) ==
    /\ j.kind = "idle" <=> j.pc = "idle"
    /\ j.kind = "sent" => /\ j.pc \in {"queued", "read", "status", "move", "commit"}
                          /\ j.outcome \notin HeldOutcomes
    /\ j.kind = "held" => /\ j.pc \in {"queued", "read", "pause", "record", "skip", "delete"}
                          /\ j.outcome \in HeldOutcomes
    /\ j.kind \in {"sent", "held"} => j.lease > 0 /\ j.account \in Accounts /\ j.row \in Rows
    /\ j.kind \notin {"sent", "held"} => j.lease = 0
    /\ j.kind = "byhand" => /\ j.pc \in {"queued", "read", "status", "move", "insert", "commit"}
                            /\ j.account \in Accounts /\ j.person \in People
                            /\ j.pc \notin {"queued", "read"} => j.row \in Rows
    /\ j.kind \in {"check", "reply"} => j.pc \in {"status", "move"} /\ j.row \in Rows
    /\ j.kind = "feed" => j.pc = "insert" /\ j.account \in Accounts /\ j.person \in People
    /\ j.kind = "cancel" => j.pc \in {"skip", "delete"} /\ j.row \in Rows
    /\ j.pc \in {"status", "move"} => j.to \in Stages /\ (j.to = "connected" <=> j.kind = "reply")
    /\ j.pc = "move" => CanMove(j.seen, j.to)
    /\ j.kind \in {"sent", "byhand"} /\ j.ok => j.to = "pending" \/ j.pc \in {"insert", "commit"}
    /\ j.kind \in {"sent", "byhand"} /\ j.pc \in {"queued", "read"} => ~j.ok
    /\ j.pc = "pause" => j.outcome = "blocked"

\* It is about a row the table has had, but for one still to be inserted.
About(j) == \/ j.kind \in {"sent", "held", "check", "reply", "cancel"}
            \/ j.kind = "byhand" /\ j.pc \in {"status", "move", "commit"}
Rooted(j) == About(j) => ~New(j.row)

AgentOK ==
    /\ agent.at # "home" => agent.account \in Accounts /\ agent.lease > 0
    /\ agent.at \in {"visit", "clicked", "asked"} =>
         agent.row \in Rows /\ agent.row \in agent.done /\ ~New(agent.row)
    /\ agent.at # "asked" => agent.answer = None
    /\ agent.at \notin {"asked"} => agent.try = 0

RowsOK == \A r \in Rows : ~New(r) => row[r].person \in People /\ row[r].account \in Accounts

Shape == Shapes /\ AgentOK /\ RowsOK /\ \A s \in Slots : JobOK(job[s]) /\ Rooted(job[s])

-----------------------------------------------------------------------------
(* Turns: one report at a time, in the order in which they were made.      *)

Active(j) == j.pc \notin {"idle", "queued"}

\* Of two requests that take turns one waits, and not the one that came first.
InTurn(j, k) == SameTurn(j, k) => /\ ~(Active(j) /\ Active(k))
                                  /\ Active(j) => ~CameFirst(k, j)

\* The attempts of one report.
OneQuestion(j, k) ==
    j.lease > 0 /\ j.lease = k.lease =>
      /\ j.kind = k.kind /\ j.account = k.account /\ j.row = k.row /\ j.outcome = k.outcome
      /\ j.try # k.try

\* What the agent still waits for is what it asked last.
Asked(j) ==
    /\ j.lease <= agent.lease
    /\ j.lease > 0 /\ j.lease = agent.lease /\ agent.at # "home" =>
         /\ agent.at = "asked" /\ agent.answer \notin Agreed
         /\ j.row = agent.row /\ j.account = agent.account /\ j.outcome = agent.outcome
         /\ j.try <= agent.try

Turns ==
    /\ \A s, t \in Slots : s # t => InTurn(job[s], job[t]) /\ OneQuestion(job[s], job[t])
    /\ \A s \in Slots : Asked(job[s])

-----------------------------------------------------------------------------
(* The count.                                                              *)

Past(r) == row[r].status \notin {"new", "waiting"}
Committing(j) == j.pc = "commit" /\ j.ok

Counted ==
    /\ DayWithinQuota
    /\ \A s \in Slots : job[s].kind \in {"sent", "byhand"} /\ job[s].ok =>
         spent[job[s].account] < Quota
    /\ \A r \in Rows : billed[r] = 0 \/ (billed[r] = 1 /\ Past(r))
    /\ \A s \in Slots : Committing(job[s]) => billed[job[s].row] = 0 /\ Past(job[s].row)
    /\ \A s, t \in Slots : s # t /\ Committing(job[s]) /\ Committing(job[t]) =>
         job[s].row # job[t].row

-----------------------------------------------------------------------------
(* The failures.                                                           *)

Failures(r) == {i \in DOMAIN log[r] : IsFailure(log[r][i])}

InOrder == \A r \in Rows : \A i, k \in Failures(r) : i < k => log[r][i].lease < log[r][k].lease

Asking(r, e) ==
    /\ e.lease > 0 /\ e.lease <= agent.lease /\ ~New(r)
    /\ e.lease = agent.lease /\ agent.at # "home" =>
         /\ r \in agent.done
         /\ r = agent.row => agent.at \notin {"visit", "clicked"}
         /\ r = agent.row /\ agent.at = "asked" =>
              e.outcome = agent.outcome /\ e.account = agent.account

\* What a failure in the log says to a held report about its row.
Heard(e, j) ==
    /\ e.lease <= j.lease
    /\ j.pc \in {"pause", "record"} => e.lease < j.lease
    /\ e.lease = j.lease => e.account = j.account /\ e.outcome = j.outcome

Told ==
    /\ InOrder
    /\ \A r \in Rows : \A i \in Failures(r) : Asking(r, log[r][i])
    /\ \A s \in Slots : job[s].kind = "held" =>
         \A i \in Failures(job[s].row) : Heard(log[job[s].row][i], job[s])

-----------------------------------------------------------------------------
(* What a held report leaves behind.                                       *)

PausedBefore(j) ==
    j.kind = "held" /\ j.pc \in {"pause", "record"} /\ j.outcome = "blocked" /\ j.ok =>
      j.account \in paused /\ pausedBy[j.account] # <<j.row, j.lease>>

Marked(r) == row[r].person \in skipped

LettingGo(j) ==
    /\ j.kind = "held" /\ j.pc \in {"pause", "record"} /\ j.release =>
         row[j.row].fed /\ (~Exists(j.row) => Marked(j.row))
    /\ j.kind = "held" /\ j.pc = "delete" =>
         \A i \in Failures(j.row) :
           log[j.row][i].lease = j.lease /\ log[j.row][i].skipped => Marked(j.row)
    /\ j.kind = "cancel" /\ j.pc = "delete" /\ row[j.row].fed => Marked(j.row)

Gone ==
    \A r \in Rows : \A i \in Failures(r) :
      /\ log[r][i].released => row[r].fed
      /\ log[r][i].released /\ log[r][i].skipped /\ log[r][i].lease = agent.lease /\ ~Exists(r) =>
           Marked(r)

Whole ==
    /\ \A s \in Slots : PausedBefore(job[s]) /\ LettingGo(job[s])
    /\ Gone
    /\ HeldReportIsWhole

-----------------------------------------------------------------------------
(* The bounds of the sessions and of the days.                             *)

Bounded ==
    /\ agent.lease <= MaxSession /\ day \in 1 .. MaxDay
    /\ \A r \in Rows : \A i \in DOMAIN log[r] :
         log[r][i].lease <= MaxSession /\ log[r][i].day \in 1 .. MaxDay
    /\ \A a \in Accounts : pausedBy[a][2] <= MaxSession

-----------------------------------------------------------------------------
(* The ledger.                                                             *)

OnePerPerson == \A r, q \in Rows : Exists(r) /\ Exists(q) /\ row[r].person = row[q].person => r = q
AnswersKept == \A r \in Rows : row[r].replied => row[r].status = "connected"
Forward == OnePerPerson /\ AnswersKept

-----------------------------------------------------------------------------
(* Fields of a job after a step of it.                                     *)

\* The same request: nothing but how far it is.
SameAs(j, k) ==
    /\ k.kind = j.kind /\ k.account = j.account /\ k.lease = j.lease /\ k.try = j.try
    /\ k.outcome = j.outcome /\ k.person = j.person

LEMMA IdleJob ==
  /\ Idle \in JobShape /\ JobOK(Idle) /\ Rooted(Idle)
  /\ Idle.kind = "idle" /\ Idle.pc = "idle" /\ Idle.lease = 0 /\ Idle.ok = FALSE
<1>1. Idle \in JobShape
  BY DEF Idle, JobShape, Outs
<1>2. Idle.kind = "idle" /\ Idle.pc = "idle" /\ Idle.lease = 0 /\ Idle.ok = FALSE
  BY DEF Idle
<1>3. JobOK(Idle) /\ Rooted(Idle)
  BY <1>2 DEF JobOK, Rooted, About
<1> QED
  BY <1>1, <1>2, <1>3

LEMMA AtPC ==
  ASSUME NEW j \in JobShape,
         NEW x \in {"idle", "queued", "read", "status", "move", "commit", "pause", "record",
                    "skip", "delete", "insert"}
  PROVE  LET k == [j EXCEPT !.pc = x]
         IN  /\ k \in JobShape /\ k.pc = x /\ SameAs(j, k) /\ k.row = j.row /\ k.seen = j.seen
             /\ k.to = j.to /\ k.ok = j.ok /\ k.release = j.release /\ k.skip = j.skip
             /\ k.stop = j.stop
BY DEF JobShape, SameAs

LEMMA SeenAt ==
  ASSUME NEW j \in JobShape, NEW w \in Statuses
  PROVE  LET k == [j EXCEPT !.pc = "move", !.seen = w]
         IN  /\ k \in JobShape /\ k.pc = "move" /\ SameAs(j, k) /\ k.row = j.row /\ k.seen = w
             /\ k.to = j.to /\ k.ok = j.ok /\ k.release = j.release /\ k.skip = j.skip
             /\ k.stop = j.stop
BY DEF JobShape, SameAs

-----------------------------------------------------------------------------
(* What a step does to the requests in hand.                               *)

Others(s) == \A t \in Slots : t # s => job'[t] = job[t]
Fits(s) == job' \in [Slots -> JobShape] /\ JobOK(job'[s]) /\ Rooted(job[s])'

\* A request takes its next step.
Goes(s) ==
  /\ Active(job[s]) \/ (job[s].pc = "queued" /\ MyTurn(s))
  /\ Active(job'[s]) /\ SameAs(job[s], job'[s])
  /\ job'[s].row = job[s].row \/ job[s].kind = "byhand"
  /\ Others(s) /\ Fits(s) /\ agent' = agent

\* It ends, and the agent hears of it or not.
Ends(s, ans) ==
  /\ job[s].pc # "idle" /\ (Active(job[s]) \/ ans = "error")
  /\ job'[s] = Idle /\ Others(s) /\ Fits(s)
  /\ \/ agent' = agent
     \/ /\ agent.at = "asked" /\ agent.lease = job[s].lease /\ agent.try = job[s].try
        /\ agent' = [agent EXCEPT !.answer = ans]

\* A request that no session of the agent reports is taken up.
Takes(s) ==
  /\ job[s] = Idle
  /\ job'[s].kind \in {"feed", "cancel", "check", "reply", "byhand"}
  /\ job'[s].kind = "byhand" => job'[s].pc = "queued"
  /\ Others(s) /\ Fits(s) /\ agent' = agent

LEMMA OneJob ==
  ASSUME Shapes, NEW s \in Slots, NEW k \in JobShape, job' = [job EXCEPT ![s] = k]
  PROVE  job' \in [Slots -> JobShape] /\ job'[s] = k /\ Others(s)
BY DEF Shapes, Others

LEMMA IdleFits ==
  ASSUME Shapes, NEW s \in Slots, End(s)
  PROVE  job'[s] = Idle /\ Others(s) /\ Fits(s)
<1>1. job' \in [Slots -> JobShape] /\ job'[s] = Idle /\ Others(s)
  BY OneJob, IdleJob DEF End
<1>2. Rooted(job[s])'
  BY <1>1 DEF Rooted, About, Idle
<1> QED
  BY <1>1, <1>2, IdleJob DEF Fits

LEMMA Concluded ==
  ASSUME Shapes, NEW s \in Slots, NEW ans, job[s].pc # "idle", Active(job[s]) \/ ans = "error",
         Conclude(s, ans)
  PROVE  Ends(s, ans)
BY IdleFits DEF Conclude, Tell, Ends

LEMMA Dropped ==
  ASSUME Shapes, NEW s \in Slots, job[s].pc # "idle", End(s), agent' = agent
  PROVE  Ends(s, "error")
BY IdleFits DEF Ends

\* Where a request at each step comes from.
LEMMA WhereFrom ==
  ASSUME Shape, NEW s \in Slots
  PROVE  LET j == job[s] IN
         /\ j \in JobShape /\ JobOK(j) /\ Rooted(j)
         /\ j.pc \in {"status", "move"} => j.kind \in {"sent", "byhand", "check", "reply"}
         /\ j.pc = "commit" => j.kind \in {"sent", "byhand"}
         /\ j.pc \in {"pause", "record"} => j.kind = "held"
         /\ j.pc \in {"skip", "delete"} => j.kind \in {"held", "cancel"}
         /\ j.pc \in {"status", "move", "commit", "pause", "record", "skip", "delete"} =>
              j.row \in Rows /\ About(j) /\ ~New(j.row) /\ Active(j)
         /\ j.pc = "queued" => j.kind \in {"sent", "held", "byhand"}
<1> DEFINE j == job[s]
<1>1. j \in JobShape /\ JobOK(j) /\ Rooted(j)
  BY DEF Shape, Shapes
<1>2. /\ j.pc \in {"status", "move"} => j.kind \in {"sent", "byhand", "check", "reply"}
      /\ j.pc = "commit" => j.kind \in {"sent", "byhand"}
      /\ j.pc \in {"pause", "record"} => j.kind = "held"
      /\ j.pc \in {"skip", "delete"} => j.kind \in {"held", "cancel"}
      /\ j.pc = "queued" => j.kind \in {"sent", "held", "byhand"}
  <2>1. j.kind \in {"idle", "sent", "held", "byhand", "check", "reply", "feed", "cancel"}
    BY <1>1 DEF JobShape
  <2> HIDE DEF j
  <2> QED
    BY <1>1, <2>1 DEF JobOK
<1>3. j.pc \in {"status", "move", "commit", "pause", "record", "skip", "delete"} =>
        j.row \in Rows /\ About(j) /\ ~New(j.row) /\ Active(j)
  <2> HIDE DEF j
  <2> QED
    BY <1>1, <1>2 DEF JobOK, About, Rooted, Active
<1> QED
  BY <1>1, <1>2, <1>3

\* The next step of a request fits when it is about the same row.
LEMMA StepGoes ==
  ASSUME Shape, NEW s \in Slots, NEW j, j = job[s], NEW k \in JobShape,
         Become(s, k), agent' = agent, SameAs(j, k),
         Active(j) \/ (j.pc = "queued" /\ MyTurn(s)), k.row = j.row \/ j.kind = "byhand",
         JobOK(k), Active(k), About(k) => ~New(k.row)'
  PROVE  Goes(s) /\ job'[s] = k
<1>1. job' \in [Slots -> JobShape] /\ job'[s] = k /\ Others(s)
  BY OneJob DEF Shape, Become
<1>2. Rooted(job[s])'
  BY <1>1 DEF Rooted, New
<1> QED
  BY <1>1, <1>2 DEF Goes, Fits

-----------------------------------------------------------------------------
(* What a step does to the table.                                          *)

\* A row stays the same person's and the same folder's, and no row comes back
\* into the queue.
RowsKept ==
  \A r \in Rows :
    /\ ~New(r) => ~New(r)' /\ row'[r].person = row[r].person /\ row'[r].fed = row[r].fed
    /\ Past(r) => Past(r)'
    /\ Waiting(r)' => Waiting(r) \/ New(r)
    /\ Exists(r)' => Exists(r) \/ New(r)

RowsFit == row' \in [Rows -> RowShape] /\ RowsOK'

\* Nobody takes a row off the table.
RowsStand == \A r \in Rows : Exists(r) => Exists(r)'

LEMMA SameRows ==
  ASSUME Shape, row' = row
  PROVE  RowsKept /\ RowsFit /\ RowsStand
BY DEF Shape, Shapes, RowsKept, RowsFit, RowsStand, RowsOK, New, Past, Waiting, Exists

LEMMA OneRow ==
  ASSUME Shapes, NEW r \in Rows, NEW w \in RowShape, row' = [row EXCEPT ![r] = w]
  PROVE  row' \in [Rows -> RowShape] /\ row'[r] = w /\ \A q \in Rows : q # r => row'[q] = row[q]
BY DEF Shapes

\* A row is added.
LEMMA RowAdded ==
  ASSUME Shape, NEW r \in Rows, NEW p \in People, NEW a \in Accounts,
         NEW x \in {"waiting", "pending"}, NEW f \in BOOLEAN, row[r] = NewRow, Insert(r, p, a, x, f)
  PROVE  /\ RowsKept /\ RowsFit /\ RowsStand
         /\ row'[r].status = x /\ row'[r].person = p /\ row'[r].replied = FALSE
         /\ \A q \in Rows : q # r => row'[q] = row[q]
<1>1. PICK w : w = [status |-> x, person |-> p, account |-> a, fed |-> f, replied |-> FALSE]
  OBVIOUS
<1>2. /\ w \in RowShape /\ w.status = x /\ w.person = p /\ w.account = a /\ w.replied = FALSE
  BY <1>1 DEF RowShape, Statuses, Stages
<1>3. row' \in [Rows -> RowShape] /\ row'[r] = w /\ \A q \in Rows : q # r => row'[q] = row[q]
  BY <1>1, <1>2, OneRow DEF Shape, Insert
<1>4. New(r)
  BY DEF New, NewRow
<1>5. RowsOK'
  BY <1>2, <1>3 DEF Shape, RowsOK, New
<1>6. RowsKept /\ RowsStand
  BY <1>2, <1>3, <1>4 DEF RowsKept, RowsStand, New, Past, Waiting, Exists, Stages
<1> QED
  BY <1>2, <1>3, <1>5, <1>6 DEF RowsFit

\* A row changes its status, its account or what is known of an answer.
LEMMA RowChanged ==
  ASSUME Shape, NEW r \in Rows, NEW w \in RowShape, row' = [row EXCEPT ![r] = w],
         ~New(r), w.status \notin {"new", "waiting"} \/ (Waiting(r) /\ w.status = "waiting"),
         w.status \in Stages => Exists(r),
         w.person = row[r].person, w.fed = row[r].fed, w.account \in Accounts
  PROVE  /\ RowsKept /\ RowsFit
         /\ w.status \in Stages => RowsStand
         /\ row'[r] = w /\ \A q \in Rows : q # r => row'[q] = row[q]
<1>1. row' \in [Rows -> RowShape] /\ row'[r] = w /\ \A q \in Rows : q # r => row'[q] = row[q]
  BY OneRow DEF Shape
<1>2. RowsOK'
  BY <1>1 DEF Shape, RowsOK, New
<1>3. RowsKept
  BY <1>1 DEF RowsKept, New, Past, Waiting, Exists
<1>4. w.status \in Stages => RowsStand
  BY <1>1 DEF RowsStand, Exists
<1> QED
  BY <1>1, <1>2, <1>3, <1>4 DEF RowsFit

\* moveStatus: the row goes one step on.
LEMMA RowMoves ==
  ASSUME Shape, NEW s \in Slots, MoveRow(s), StillAsRead(job[s])
  PROVE  LET j == job[s]
             r == j.row
         IN  /\ RowsKept /\ RowsFit /\ RowsStand
             /\ r \in Rows /\ CanMove(row[r].status, j.to) /\ row'[r].status = j.to
             /\ row'[r].person = row[r].person
             /\ row'[r].replied = IF j.kind = "reply" THEN TRUE ELSE row[r].replied
             /\ \A q \in Rows : q # r => row'[q] = row[q]
<1> DEFINE j == job[s]
           r == j.row
<1>1. j \in JobShape /\ JobOK(j) /\ r \in Rows /\ ~New(r) /\ j.pc = "move"
  BY WhereFrom DEF MoveRow
<1>2. CanMove(row[r].status, j.to) /\ j.to \in Stages
  BY <1>1 DEF JobOK, StillAsRead
<1>3. row[r] \in RowShape /\ row[r].account \in Accounts
  BY <1>1 DEF Shape, Shapes, RowsOK
<1>4. PICK w : w = Patched(j)
  OBVIOUS
<1>5. j.kind = "byhand" => j.account \in Accounts
  BY <1>1 DEF JobOK
<1>6. /\ w \in RowShape /\ w.status = j.to /\ w.person = row[r].person /\ w.fed = row[r].fed
      /\ w.account \in Accounts
      /\ w.replied = IF j.kind = "reply" THEN TRUE ELSE row[r].replied
  <2>1. PICK v : v = [row[r] EXCEPT !.status = j.to]
    OBVIOUS
  <2>2. /\ v \in RowShape /\ v.status = j.to /\ v.person = row[r].person /\ v.fed = row[r].fed
        /\ v.account = row[r].account /\ v.replied = row[r].replied
    BY <1>2, <1>3, <2>1 DEF RowShape, Statuses
  <2>3. w = CASE j.kind = "byhand" -> [v EXCEPT !.account = j.account]
              [] j.kind = "reply"  -> [v EXCEPT !.replied = TRUE]
              [] OTHER             -> v
    BY <1>4, <2>1 DEF Patched
  <2> HIDE DEF j, r
  <2>4. CASE j.kind = "byhand"
    BY <1>3, <1>5, <2>2, <2>3, <2>4 DEF RowShape
  <2>5. CASE j.kind = "reply"
    BY <1>3, <2>2, <2>3, <2>5 DEF RowShape
  <2>6. CASE j.kind \notin {"byhand", "reply"}
    BY <1>3, <2>2, <2>3, <2>6
  <2> QED
    BY <2>4, <2>5, <2>6
<1>7. row' = [row EXCEPT ![r] = w]
  BY <1>1, <1>4 DEF MoveRow
<1>8. row[r].status \in Stages /\ j.to \notin {"new", "waiting"}
  BY <1>2 DEF CanMove, Moves, Stages
<1>9. Exists(r)
  BY <1>8 DEF Exists
<1> HIDE DEF j, r
<1>10. /\ RowsKept /\ RowsFit /\ RowsStand
       /\ row'[r] = w /\ \A q \in Rows : q # r => row'[q] = row[q]
  <2>1. w.status \notin {"new", "waiting"} /\ w.status \in Stages /\ (w.status \in Stages => Exists(r))
    BY <1>2, <1>6, <1>8, <1>9
  <2> QED
    BY <1>1, <1>6, <1>7, <2>1, RowChanged
<1> QED
  BY <1>1, <1>2, <1>6, <1>10 DEF j, r

\* The guarded delete.
LEMMA RowRemoved ==
  ASSUME Shape, NEW s \in Slots, DeleteRow(s), NEW r, r = job[s].row
  PROVE  /\ RowsKept /\ RowsFit /\ r \in Rows /\ ~Waiting(r)'
         /\ Exists(r)' => row' = row
         /\ \A q \in Rows : q # r => row'[q] = row[q]
         /\ row'[r].replied = row[r].replied
         /\ row' # row => Waiting(r) /\ row'[r].status = "removed"
<1>1. r \in Rows /\ ~New(r)
  BY WhereFrom DEF DeleteRow
<1>2. row[r] \in RowShape /\ row[r].account \in Accounts
  BY <1>1 DEF Shape, Shapes, RowsOK
<1>3. CASE Waiting(r)
  <2>1. PICK w : w = [row[r] EXCEPT !.status = "removed"]
    OBVIOUS
  <2>2. /\ w \in RowShape /\ w.status = "removed" /\ w.person = row[r].person /\ w.fed = row[r].fed
        /\ w.account = row[r].account /\ w.replied = row[r].replied
    BY <1>2, <2>1 DEF RowShape, Statuses
  <2>3. row' = [row EXCEPT ![r] = w]
    BY <1>3, <2>1 DEF DeleteRow
  <2>4. "removed" \notin Stages \cup {"new", "waiting"}
    BY DEF Stages
  <2>5. w.status \notin {"new", "waiting"} /\ w.status \notin Stages
    BY <2>2, <2>4
  <2>6. /\ RowsKept /\ RowsFit
        /\ row'[r] = w /\ \A q \in Rows : q # r => row'[q] = row[q]
    <3>1. w.person = row[r].person /\ w.fed = row[r].fed /\ w.account \in Accounts
      BY <1>2, <2>2
    <3> QED
      BY <1>1, <2>2, <2>3, <2>5, <3>1, RowChanged
  <2> QED
    BY <1>1, <1>3, <2>2, <2>5, <2>6 DEF Waiting, Exists
<1>4. CASE ~Waiting(r)
  <2>1. row' = row
    BY <1>4 DEF DeleteRow
  <2> QED
    BY <1>1, <1>4, <2>1, SameRows DEF Waiting
<1> QED
  BY <1>3, <1>4

LEMMA RowReassigned ==
  ASSUME Shape, NEW r \in Rows, NEW a \in Accounts, Reassign(r, a)
  PROVE  /\ RowsKept /\ RowsFit /\ RowsStand
         /\ \A q \in Rows : /\ row'[q].status = row[q].status /\ row'[q].person = row[q].person
                            /\ row'[q].replied = row[q].replied
<1>1. Waiting(r) /\ row' = [row EXCEPT ![r].account = a]
  BY DEF Reassign
<1>2. row[r] \in RowShape
  BY DEF Shape, Shapes
<1>3. PICK w : w = [row[r] EXCEPT !.account = a]
  OBVIOUS
<1>4. /\ w \in RowShape /\ w.status = "waiting" /\ w.person = row[r].person /\ w.fed = row[r].fed
      /\ w.account = a /\ w.replied = row[r].replied
  BY <1>1, <1>2, <1>3 DEF RowShape, Waiting
<1>5. row' = [row EXCEPT ![r] = w]
  BY <1>1, <1>3
<1>6. ~New(r) /\ Exists(r) /\ w.status \in Stages
  BY <1>1, <1>4 DEF New, Exists, Waiting, Stages
<1>7. /\ RowsKept /\ RowsFit /\ RowsStand
      /\ row'[r] = w /\ \A q \in Rows : q # r => row'[q] = row[q]
  BY <1>1, <1>4, <1>5, <1>6, RowChanged
<1> QED
  BY <1>1, <1>4, <1>7 DEF Waiting

-----------------------------------------------------------------------------
(* What a step does to the events.                                         *)

\* It adds no failure.
NothingFailed ==
  /\ log' \in [Rows -> Seq(EventShape)]
  /\ \A r \in Rows : Failures(r)' = Failures(r) /\ \A i \in Failures(r) : log'[r][i] = log[r][i]

LEMMA SameLog ==
  ASSUME Shapes, log' = log
  PROVE  NothingFailed
BY DEF Shapes, NothingFailed, Failures

LEMMA OneEvent ==
  ASSUME Shapes, NEW r \in Rows, NEW e \in EventShape, log' = [log EXCEPT ![r] = Append(@, e)]
  PROVE  /\ log' \in [Rows -> Seq(EventShape)]
         /\ \A q \in Rows : q # r => log'[q] = log[q]
         /\ Len(log[r]) \in Nat /\ DOMAIN log[r] = 1 .. Len(log[r])
         /\ DOMAIN log'[r] = 1 .. (Len(log[r]) + 1)
         /\ log'[r][Len(log[r]) + 1] = e
         /\ \A i \in 1 .. Len(log[r]) : log'[r][i] = log[r][i]
BY DEF Shapes

LEMMA OtherEvent ==
  ASSUME Shapes, NEW r \in Rows, NEW e \in EventShape, ~IsFailure(e),
         log' = [log EXCEPT ![r] = Append(@, e)]
  PROVE  NothingFailed
<1>1. /\ log' \in [Rows -> Seq(EventShape)]
      /\ \A q \in Rows : q # r => log'[q] = log[q]
      /\ Len(log[r]) \in Nat /\ DOMAIN log[r] = 1 .. Len(log[r])
      /\ DOMAIN log'[r] = 1 .. (Len(log[r]) + 1)
      /\ log'[r][Len(log[r]) + 1] = e
      /\ \A i \in 1 .. Len(log[r]) : log'[r][i] = log[r][i]
  BY OneEvent
<1>2. \A i \in 1 .. (Len(log[r]) + 1) : i \in 1 .. Len(log[r]) \/ i = Len(log[r]) + 1
  BY <1>1
<1>3. Failures(r)' = Failures(r) /\ \A i \in Failures(r) : log'[r][i] = log[r][i]
  BY <1>1, <1>2 DEF Failures
<1>4. \A q \in Rows : q # r => Failures(q)' = Failures(q) /\ \A i \in Failures(q) : log'[q][i] = log[q][i]
  BY <1>1 DEF Failures
<1> QED
  BY <1>1, <1>3, <1>4 DEF NothingFailed

\* recordFailed adds one, after all others.
LEMMA OneFailure ==
  ASSUME Shape, NEW s \in Slots, HeldRecord(s), NEW j, j = job[s]
  PROVE  /\ log' \in [Rows -> Seq(EventShape)] /\ j.row \in Rows
         /\ \A q \in Rows : q # j.row => log'[q] = log[q]
         /\ \E n \in Nat :
              /\ \A i \in Failures(j.row) : i \in Nat /\ i < n
              /\ Failures(j.row)' = Failures(j.row) \cup {n}
              /\ log'[j.row][n] = Failed(j.account, j.lease, j.outcome, j.release, j.skip, j.ok)
              /\ \A i \in Failures(j.row) : log'[j.row][i] = log[j.row][i]
<1>1. j.kind = "held" /\ j.row \in Rows /\ j \in JobShape /\ JobOK(j)
  BY WhereFrom DEF HeldRecord
<1>2. PICK r : r = j.row
  OBVIOUS
<1>3. PICK f : f = Failed(j.account, j.lease, j.outcome, j.release, j.skip, j.ok)
  OBVIOUS
<1>4. f \in EventShape /\ IsFailure(f)
  BY <1>1, <1>3 DEF Failed, EventShape, JobShape, JobOK, IsFailure, Shape, Shapes
<1>5. log' = [log EXCEPT ![r] = Append(@, f)]
  BY <1>2, <1>3 DEF HeldRecord
<1>6. /\ log' \in [Rows -> Seq(EventShape)]
      /\ \A q \in Rows : q # r => log'[q] = log[q]
      /\ Len(log[r]) \in Nat /\ DOMAIN log[r] = 1 .. Len(log[r])
      /\ DOMAIN log'[r] = 1 .. (Len(log[r]) + 1)
      /\ log'[r][Len(log[r]) + 1] = f
      /\ \A i \in 1 .. Len(log[r]) : log'[r][i] = log[r][i]
  <2>1. Shapes /\ r \in Rows
    BY <1>1, <1>2 DEF Shape
  <2> QED
    BY <1>4, <1>5, <2>1, OneEvent
<1>7. PICK n \in Nat : n = Len(log[r]) + 1
  BY <1>6
<1>8. \A i \in 1 .. n : i \in 1 .. Len(log[r]) \/ i = n
  BY <1>6, <1>7
<1>9. \A i \in 1 .. Len(log[r]) : i \in 1 .. n /\ i \in Nat /\ i < n
  BY <1>6, <1>7
<1>10. n \in 1 .. n
  BY <1>7, <1>6
<1>11. Failures(r)' = Failures(r) \cup {n}
  BY <1>4, <1>6, <1>7, <1>8, <1>9, <1>10 DEF Failures
<1>12. \A i \in Failures(r) : i \in Nat /\ i < n /\ log'[r][i] = log[r][i]
  BY <1>6, <1>9 DEF Failures
<1> QED
  BY <1>1, <1>2, <1>3, <1>6, <1>7, <1>11, <1>12

-----------------------------------------------------------------------------
(* The steps of a request.                                                 *)

LEMMA EnterDoes ==
  ASSUME Shape, NEW s \in Slots, Enter(s)
  PROVE  Goes(s) /\ job'[s].pc = "read" /\ job'[s].ok = job[s].ok
<1>1. PICK j : j = job[s]
  OBVIOUS
<1>2. j \in JobShape /\ JobOK(j) /\ Rooted(j) /\ j.pc = "queued" /\ j.kind \in {"sent", "held", "byhand"}
  BY <1>1, WhereFrom DEF Enter
<1>3. PICK k : k = [j EXCEPT !.pc = "read"]
  OBVIOUS
<1>4. k \in JobShape /\ k.pc = "read" /\ SameAs(j, k) /\ k.row = j.row /\ k.ok = j.ok
  BY <1>2, <1>3, AtPC
<1>5. JobOK(k) /\ Active(k)
  BY <1>2, <1>4 DEF JobOK, SameAs, Active
<1>6. About(k) => ~New(k.row)
  BY <1>2, <1>4 DEF About, Rooted, SameAs
<1>7. Goes(s) /\ job'[s] = k
  <2>1. Become(s, k) /\ agent' = agent /\ row' = row /\ MyTurn(s)
    BY <1>1, <1>3 DEF Enter, tables
  <2>2. About(k) => ~New(k.row)'
    BY <1>6, <2>1 DEF New
  <2> QED
    BY <1>1, <1>2, <1>4, <1>5, <2>1, <2>2, StepGoes
<1> QED
  BY <1>1, <1>4, <1>7

LEMMA ReadDoes ==
  ASSUME Shape, NEW s \in Slots, ReadStatus(s)
  PROVE  \/ Goes(s) /\ job'[s].pc = "move" /\ job'[s].ok = job[s].ok
         \/ Ends(s, "go")
<1>1. PICK j : j = job[s]
  OBVIOUS
<1>2. /\ j \in JobShape /\ JobOK(j) /\ Rooted(j) /\ j.pc = "status" /\ j.row \in Rows
      /\ About(j) /\ Active(j) /\ j.kind \in {"sent", "byhand", "check", "reply"}
  BY <1>1, WhereFrom DEF ReadStatus
<1>3. row[j.row].status \in Statuses
  BY <1>2 DEF Shape, Shapes, RowShape
<1>4. CASE CanMove(row[j.row].status, j.to)
  <2>1. PICK k : k = [j EXCEPT !.pc = "move", !.seen = row[j.row].status]
    OBVIOUS
  <2>2. /\ k \in JobShape /\ k.pc = "move" /\ SameAs(j, k) /\ k.row = j.row /\ k.ok = j.ok
        /\ k.to = j.to /\ k.seen = row[j.row].status
    BY <1>2, <1>3, <2>1, SeenAt
  <2>3. JobOK(k) /\ Active(k)
    BY <1>2, <1>4, <2>2 DEF JobOK, SameAs, Active
  <2>4. About(k) => ~New(k.row)
    BY <1>2, <2>2 DEF Rooted
  <2>5. Become(s, k) /\ agent' = agent /\ row' = row
    BY <1>1, <1>4, <2>1 DEF ReadStatus, tables
  <2>6. Goes(s) /\ job'[s] = k
    BY <1>1, <1>2, <2>2, <2>3, <2>4, <2>5, StepGoes DEF New
  <2> QED
    BY <1>1, <2>2, <2>6
<1>5. CASE ~CanMove(row[j.row].status, j.to)
  BY <1>1, <1>2, <1>5, Concluded DEF ReadStatus, Shape
<1> QED
  BY <1>4, <1>5

LEMMA MoveDoes ==
  ASSUME Shape, NEW s \in Slots, MoveRow(s)
  PROVE  \/ /\ Goes(s) /\ StillAsRead(job[s]) /\ job[s].kind \in {"sent", "byhand"}
            /\ job'[s].pc = "commit" /\ job'[s].ok = job[s].ok /\ job'[s].row = job[s].row
         \/ Ends(s, "go") /\ (~StillAsRead(job[s]) => row' = row)
<1>1. PICK j : j = job[s]
  OBVIOUS
<1>2. /\ j \in JobShape /\ JobOK(j) /\ Rooted(j) /\ j.pc = "move" /\ j.row \in Rows /\ ~New(j.row)
      /\ About(j) /\ Active(j) /\ j.kind \in {"sent", "byhand", "check", "reply"}
  BY <1>1, WhereFrom DEF MoveRow
<1>3. CASE StillAsRead(j) /\ j.kind \in Counting
  <2>1. PICK k : k = [j EXCEPT !.pc = "commit"]
    OBVIOUS
  <2>2. k \in JobShape /\ k.pc = "commit" /\ SameAs(j, k) /\ k.row = j.row /\ k.ok = j.ok
    BY <1>2, <2>1, AtPC
  <2>3. JobOK(k) /\ Active(k)
    BY <1>2, <1>3, <2>2 DEF JobOK, SameAs, Active, Counting
  <2>4. ~New(k.row)'
    <3>1. RowsKept
      BY <1>1, <1>3, RowMoves
    <3> QED
      BY <1>2, <2>2, <3>1 DEF RowsKept
  <2>5. Become(s, k) /\ agent' = agent
    BY <1>1, <1>3, <2>1 DEF MoveRow
  <2>6. Goes(s) /\ job'[s] = k
    BY <1>1, <1>2, <2>2, <2>3, <2>4, <2>5, StepGoes
  <2> QED
    BY <1>1, <1>2, <1>3, <2>2, <2>6 DEF Counting
<1>4. CASE ~(StillAsRead(j) /\ j.kind \in Counting)
  <2>1. Conclude(s, "go") /\ (~StillAsRead(j) => row' = row)
    BY <1>1, <1>4 DEF MoveRow
  <2> QED
    BY <1>1, <1>2, <2>1, Concluded DEF Shape
<1> QED
  BY <1>3, <1>4

LEMMA CommitDoes ==
  ASSUME Shape, NEW s \in Slots, Commit(s)
  PROVE  \E ans \in {"go", "stop"} : Ends(s, ans)
BY WhereFrom, Concluded DEF Commit, Onward, Shape

LEMMA SentReadDoes ==
  ASSUME Shape, NEW s \in Slots, SentRead(s)
  PROVE  /\ NothingFailed
         /\ \/ Ends(s, "refused")
            \/ /\ Goes(s) /\ job'[s].pc = "status"
               /\ job'[s].ok => Allowed(job[s].account)
<1>1. PICK j : j = job[s]
  OBVIOUS
<1>2. /\ j \in JobShape /\ JobOK(j) /\ Rooted(j) /\ j.pc = "read" /\ j.kind = "sent"
      /\ j.row \in Rows /\ Active(j)
  BY <1>1, WhereFrom DEF SentRead, JobOK, Active
<1>3. CASE ~Exists(j.row)
  <2>1. PICK e : e = RowGone(j.account, j.lease, j.outcome)
    OBVIOUS
  <2>2. e \in EventShape /\ ~IsFailure(e)
    BY <1>2, <2>1 DEF RowGone, EventShape, IsFailure, JobShape, JobOK, Outs, Shape, Shapes
  <2>3. Conclude(s, "refused") /\ log' = [log EXCEPT ![j.row] = Append(@, e)]
    BY <1>1, <1>3, <2>1 DEF SentRead
  <2> QED
    BY <1>1, <1>2, <2>2, <2>3, OtherEvent, Concluded DEF Shape
<1>4. CASE Exists(j.row) /\ row[j.row].account # j.account
  <2>1. Conclude(s, "refused") /\ log' = log
    BY <1>1, <1>4 DEF SentRead
  <2> QED
    BY <1>1, <1>2, <2>1, SameLog, Concluded DEF Shape
<1>5. CASE Exists(j.row) /\ row[j.row].account = j.account
  <2>1. PICK t : t = IF j.outcome = "already_connected" THEN "accepted" ELSE "pending"
    OBVIOUS
  <2>2. PICK b \in BOOLEAN : b = (Spends(j) /\ Allowed(j.account))
    OBVIOUS
  <2>3. PICK d \in BOOLEAN : d = (Spends(j) /\ ~Allowed(j.account))
    OBVIOUS
  <2>4. PICK k : k = [j EXCEPT !.pc = "status", !.to = t, !.ok = b, !.stop = d]
    OBVIOUS
  <2>5. t \in Stages /\ t # "connected" /\ (b => t = "pending")
    BY <2>1, <2>2 DEF Stages, Spends
  <2>6. k \in JobShape /\ k.pc = "status" /\ SameAs(j, k) /\ k.row = j.row /\ k.to = t /\ k.ok = b
    BY <1>2, <2>4, <2>5 DEF JobShape, SameAs
  <2>7. JobOK(k) /\ Active(k)
    BY <1>2, <2>5, <2>6 DEF JobOK, SameAs, Active
  <2>8. Become(s, k) /\ agent' = agent /\ log' = log /\ row' = row
    BY <1>1, <1>2, <1>5, <2>1, <2>2, <2>3, <2>4 DEF SentRead
  <2>9. About(k) => ~New(k.row)
    BY <1>2, <2>6 DEF Rooted, About
  <2>10. Goes(s) /\ job'[s] = k
    BY <1>1, <1>2, <2>6, <2>7, <2>8, <2>9, StepGoes DEF New
  <2> QED
    BY <1>1, <2>2, <2>6, <2>8, <2>10, SameLog DEF Shape
<1> QED
  BY <1>3, <1>4, <1>5

-----------------------------------------------------------------------------
(* The steps of a held report.                                             *)

LEMMA FailureShape ==
  ASSUME Shape, NEW r \in Rows, NEW i \in Failures(r)
  PROVE  i \in Nat /\ log[r][i] \in EventShape /\ log[r][i].lease \in Nat
<1>1. log[r] \in Seq(EventShape) /\ i \in DOMAIN log[r]
  BY DEF Shape, Shapes, Failures
<1>2. i \in Nat /\ log[r][i] \in EventShape
  BY <1>1
<1> QED
  BY <1>2 DEF EventShape

LEMMA Smallest ==
  ASSUME NEW T \in SUBSET Nat, T # {}
  PROVE  \E x \in T : \A y \in T : ~(y < x)
<1> DEFINE R == OpToRel(<, Nat)
<1>1. \A x, y \in Nat : <<x, y>> \in R <=> x < y
  BY DEF OpToRel
<1>2. IsWellFoundedOn(R, Nat)
  BY NatLessThanWellFounded
<1> HIDE DEF R
<1>3. PICK x \in T : \A y \in T : ~(<<y, x>> \in R)
  BY <1>2, WFMin
<1> QED
  BY <1>1, <1>3

LEMMA Latest ==
  ASSUME NEW n \in Nat, NEW S \in SUBSET (1 .. n), S # {}
  PROVE  Newest(S) \in S /\ \A k \in S : k <= Newest(S)
<1> DEFINE T == {n - i : i \in S}
<1>1. T \in SUBSET Nat /\ T # {}
  <2>1. T # {}
    OBVIOUS
  <2>2. ASSUME NEW i \in S PROVE n - i \in Nat
    OBVIOUS
  <2> QED
    BY <2>1, <2>2
<1>2. PICK x \in T : \A y \in T : ~(y < x)
  <2> HIDE DEF T
  <2> QED
    BY <1>1, Smallest
<1>3. PICK i \in S : x = n - i
  OBVIOUS
<1>4. \A k \in S : k <= i
  <2> SUFFICES ASSUME NEW k \in S PROVE k <= i
    OBVIOUS
  <2>1. n - k \in T
    OBVIOUS
  <2>2. ~(n - k < x)
    BY <1>2, <2>1
  <2>3. i \in 1 .. n /\ k \in 1 .. n
    OBVIOUS
  <2> HIDE DEF T
  <2> QED
    BY <1>3, <2>2, <2>3
<1> QED
  BY <1>4 DEF Newest

\* The answer a retry is given is one of the row's failures.
LEMMA Given ==
  ASSUME Shape, NEW r \in Rows, NEW a, Answers(r, a) # {}
  PROVE  /\ Newest(Answers(r, a)) \in Failures(r)
         /\ log[r][Newest(Answers(r, a))].account = a
         /\ \A i \in Answers(r, a) : i <= Newest(Answers(r, a))
<1>1. PICK n \in Nat : n = Len(log[r]) /\ DOMAIN log[r] = 1 .. n
  BY DEF Shape, Shapes
<1>2. Answers(r, a) \in SUBSET (1 .. n)
  BY <1>1 DEF Answers
<1>3. Newest(Answers(r, a)) \in Answers(r, a) /\ \A i \in Answers(r, a) : i <= Newest(Answers(r, a))
  BY <1>2, Latest
<1> QED
  BY <1>3 DEF Answers, Failures

\* Without an answer to this very report there is no failure of its lease.
LEMMA NoneGiven ==
  ASSUME Shape, Told, NEW s \in Slots, NEW j, j = job[s], j.kind = "held",
         ~GivenBefore(j.row, j.account, j.outcome, j.lease), NEW i \in Failures(j.row)
  PROVE  log[j.row][i].lease < j.lease
<1> DEFINE e == log[j.row][i]
<1>1. j \in JobShape /\ JobOK(j) /\ j.row \in Rows /\ j.lease \in Nat
  BY WhereFrom DEF JobOK, JobShape
<1>2. Heard(e, j)
  BY DEF Told
<1>3. e \in EventShape /\ e.lease \in Nat /\ i \in Nat
  BY <1>1, FailureShape
<1>4. CASE e.lease = j.lease
  <2>1. e.account = j.account /\ e.outcome = j.outcome
    BY <1>2, <1>4 DEF Heard
  <2>2. i \in Answers(j.row, j.account)
    BY <2>1 DEF Answers, Failures
  <2>3. PICK m : m = Newest(Answers(j.row, j.account))
    OBVIOUS
  <2>4. m \in Failures(j.row) /\ log[j.row][m].account = j.account /\ i <= m
    BY <1>1, <2>2, <2>3, Given
  <2>5. Heard(log[j.row][m], j)
    BY <2>4 DEF Told
  <2>6. m \in Nat /\ log[j.row][m].lease \in Nat
    BY <1>1, <2>4, FailureShape
  <2>7. m = i
    <3>1. i < m => e.lease < log[j.row][m].lease
      BY <1>1, <2>4 DEF Told, InOrder
    <3>2. log[j.row][m].lease <= j.lease
      BY <2>5 DEF Heard
    <3> HIDE DEF e
    <3> QED
      BY <1>1, <1>3, <1>4, <2>4, <2>6, <3>1, <3>2
  <2>8. GivenBefore(j.row, j.account, j.outcome, j.lease)
    BY <1>4, <2>1, <2>2, <2>3, <2>7 DEF GivenBefore
  <2> QED
    BY <2>8
<1>5. CASE e.lease # j.lease
  <2>1. e.lease <= j.lease
    BY <1>2 DEF Heard
  <2> HIDE DEF e
  <2>2. e.lease < j.lease
    BY <1>1, <1>3, <1>5, <2>1
  <2> QED
    BY <2>2 DEF e
<1> QED
  BY <1>4, <1>5

\* The first look of a held report: it is refused, answered as before, taken up
\* where an earlier attempt left it, or begun.
LEMMA HeldReadDoes ==
  ASSUME Shape, NEW s \in Slots, HeldRead(s), NEW j, j = job[s]
  PROVE  /\ NothingFailed /\ j.kind = "held" /\ j.row \in Rows /\ Active(j)
         /\ \/ Ends(s, "refused")
            \/ ~Exists(j.row) /\ \E ans \in {"go", "stop"} : Ends(s, ans)
            \/ \E i \in Failures(j.row) :
                 /\ log[j.row][i].lease = j.lease
                 /\ \/ /\ \E ans \in {"go", "stop"} : Ends(s, ans)
                       /\ log[j.row][i].released => ~(row[j.row].fed /\ Waiting(j.row))
                    \/ /\ Goes(s) /\ job'[s].pc \in {"skip", "delete"}
                       /\ job'[s].pc = "delete" => ~log[j.row][i].skipped
            \/ /\ Goes(s) /\ Exists(j.row)
               /\ ~GivenBefore(j.row, j.account, j.outcome, j.lease)
               /\ job'[s].pc \in {"pause", "record"}
               /\ job'[s].ok => DuringPause(j)
               /\ job'[s].release => row[j.row].fed
<1>1. /\ j \in JobShape /\ JobOK(j) /\ Rooted(j) /\ j.kind = "held" /\ j.pc = "read"
      /\ j.row \in Rows /\ j.account \in Accounts /\ Active(j) /\ ~New(j.row) /\ row' = row
  <2>1. j \in JobShape /\ JobOK(j) /\ Rooted(j) /\ j.kind = "held" /\ j.pc = "read" /\ row' = row
    BY WhereFrom DEF HeldRead
  <2> QED
    BY <2>1 DEF JobOK, Rooted, About, Active
<1> DEFINE r == j.row
           a == j.account
           before == log[r][Newest(Answers(r, a))]
           let_go == row[r].fed /\ Waiting(r)
           given == [j EXCEPT !.stop = Stops(before)]
<1>2. CASE ~Exists(r) /\ LetGo(r, a) # {}
  <2>1. Conclude(s, Onward(Stops(log[r][Newest(LetGo(r, a))]))) /\ log' = log
    BY <1>2 DEF HeldRead
  <2>2. \E ans \in {"go", "stop"} : Conclude(s, ans)
    BY <2>1 DEF Onward
  <2> QED
    BY <1>1, <1>2, <2>1, <2>2, SameLog, Concluded DEF Shape
<1>3. CASE ~Exists(r) /\ LetGo(r, a) = {}
  <2>1. PICK e : e = RowGone(a, j.lease, j.outcome)
    OBVIOUS
  <2>2. e \in EventShape /\ ~IsFailure(e)
    BY <1>1, <2>1 DEF RowGone, EventShape, IsFailure, JobShape, Outs, Shape, Shapes
  <2>3. Conclude(s, "refused") /\ log' = [log EXCEPT ![r] = Append(@, e)]
    BY <1>3, <2>1 DEF HeldRead
  <2> QED
    BY <1>1, <2>2, <2>3, OtherEvent, Concluded DEF Shape
<1>4. CASE Exists(r) /\ row[r].account # a
  <2>1. Conclude(s, "refused") /\ log' = log
    BY <1>4 DEF HeldRead
  <2> QED
    BY <1>1, <2>1, SameLog, Concluded DEF Shape
<1>5. CASE Exists(r) /\ row[r].account = a /\ GivenBefore(r, a, j.outcome, j.lease)
  <2>1. PICK i : i = Newest(Answers(r, a))
    OBVIOUS
  <2>2. i \in Failures(r) /\ log[r][i].lease = j.lease
    BY <1>1, <1>5, <2>1, Given DEF GivenBefore
  <2>3. log' = log /\ NothingFailed
    BY <1>5, SameLog DEF HeldRead, Shape
  <2>4. CASE HalfDone(j, before)
    <3>1. PICK x \in {"skip", "delete"} : x = IF before.skipped THEN "skip" ELSE "delete"
      OBVIOUS
    <3>2. PICK b \in BOOLEAN : b = Stops(before)
      <4>1. Stops(before) \in BOOLEAN
        BY DEF Stops
      <4> QED
        BY <4>1
    <3>3. PICK k : k = [[j EXCEPT !.stop = b] EXCEPT !.pc = x]
      OBVIOUS
    <3>4. k \in JobShape /\ k.pc = x /\ SameAs(j, k) /\ k.row = j.row
      <4>1. PICK m : m = [j EXCEPT !.stop = b]
        OBVIOUS
      <4>2. m \in JobShape /\ SameAs(j, m) /\ m.row = j.row
        BY <1>1, <4>1 DEF JobShape, SameAs
      <4>3. k = [m EXCEPT !.pc = x]
        BY <3>3, <4>1
      <4>4. k \in JobShape /\ k.pc = x /\ SameAs(m, k) /\ k.row = m.row
        BY <4>2, <4>3 DEF JobShape, SameAs
      <4> QED
        BY <4>2, <4>4 DEF SameAs
    <3>5. JobOK(k) /\ Active(k)
      BY <1>1, <3>4 DEF JobOK, SameAs, Active
    <3>6. Become(s, k) /\ agent' = agent
      BY <1>5, <2>4, <3>1, <3>2, <3>3 DEF HeldRead
    <3>7. About(k) => ~New(k.row)'
      BY <1>1, <3>4 DEF New
    <3>8. Goes(s) /\ job'[s] = k
      BY <1>1, <3>4, <3>5, <3>6, <3>7, StepGoes
    <3> QED
      BY <1>1, <2>1, <2>2, <2>3, <3>1, <3>4, <3>8
  <2>5. CASE ~HalfDone(j, before)
    <3>1. Conclude(s, Onward(given.stop))
      BY <1>5, <2>5 DEF HeldRead
    <3>2. \E ans \in {"go", "stop"} : Conclude(s, ans)
      BY <3>1 DEF Onward
    <3>3. \E ans \in {"go", "stop"} : Ends(s, ans)
      BY <1>1, <3>2, Concluded DEF Shape
    <3>4. log[r][i].released => ~(row[r].fed /\ Waiting(r))
      BY <2>1, <2>5 DEF HalfDone
    <3> QED
      BY <1>1, <2>2, <2>3, <3>3, <3>4
  <2> QED
    BY <2>4, <2>5
<1>6. CASE Exists(r) /\ row[r].account = a /\ ~GivenBefore(r, a, j.outcome, j.lease)
  <2>1. PICK x \in {"pause", "record"} : x = IF j.outcome = "blocked" THEN "pause" ELSE "record"
    OBVIOUS
  <2>2. PICK b \in BOOLEAN : b = DuringPause(j)
    BY DEF DuringPause
  <2>3. PICK d \in BOOLEAN : d = let_go
    <3>1. let_go \in BOOLEAN
      BY <1>1 DEF Shape, Shapes, RowShape, Waiting
    <3> QED
      BY <3>1
  <2>4. PICK f \in BOOLEAN : f = (let_go /\ ~DuringPause(j) /\ j.outcome \in PersonOutcomes)
    <3>1. (let_go /\ ~DuringPause(j) /\ j.outcome \in PersonOutcomes) \in BOOLEAN
      OBVIOUS
    <3> QED
      BY <3>1
  <2>5. PICK g \in BOOLEAN : g = (DuringPause(j) \/ j.outcome = "blocked")
    <3>1. (DuringPause(j) \/ j.outcome = "blocked") \in BOOLEAN
      OBVIOUS
    <3> QED
      BY <3>1
  <2>6. PICK k : k = [j EXCEPT !.pc = x, !.ok = b, !.release = d, !.skip = f, !.stop = g]
    OBVIOUS
  <2>7. /\ k \in JobShape /\ k.pc = x /\ SameAs(j, k) /\ k.row = j.row /\ k.ok = b /\ k.release = d
    <3>1. PICK i : i = [j EXCEPT !.pc = x, !.ok = b, !.release = d]
      OBVIOUS
    <3>2. i \in JobShape /\ i.pc = x /\ i.ok = b /\ i.release = d /\ SameAs(j, i) /\ i.row = j.row
      BY <1>1, <3>1 DEF JobShape, SameAs
    <3>3. k = [i EXCEPT !.skip = f, !.stop = g]
      BY <2>6, <3>1
    <3>4. /\ k \in JobShape /\ k.pc = i.pc /\ k.ok = i.ok /\ k.release = i.release
          /\ SameAs(i, k) /\ k.row = i.row
      BY <3>2, <3>3 DEF JobShape, SameAs
    <3> QED
      BY <3>2, <3>4 DEF SameAs
  <2>8. JobOK(k) /\ Active(k)
    BY <1>1, <2>1, <2>7 DEF JobOK, SameAs, Active
  <2>9. Become(s, k) /\ agent' = agent /\ log' = log
    BY <1>6, <2>1, <2>2, <2>3, <2>4, <2>5, <2>6 DEF HeldRead
  <2>10. About(k) => ~New(k.row)'
    BY <1>1, <2>7 DEF New
  <2>11. Goes(s) /\ job'[s] = k
    BY <1>1, <2>7, <2>8, <2>9, <2>10, StepGoes
  <2>12. NothingFailed
    BY <2>9, SameLog DEF Shape
  <2> QED
    BY <1>1, <1>6, <2>2, <2>3, <2>7, <2>11, <2>12
<1> QED
  BY <1>2, <1>3, <1>4, <1>5, <1>6

LEMMA PauseDoes ==
  ASSUME Shape, NEW s \in Slots, HeldPause(s), NEW j, j = job[s]
  PROVE  /\ Goes(s) /\ j.kind = "held" /\ j.pc = "pause" /\ j.row \in Rows /\ j.account \in Accounts
         /\ job'[s].pc = "record" /\ job'[s].ok = j.ok /\ job'[s].release = j.release
<1>1. /\ j \in JobShape /\ JobOK(j) /\ j.kind = "held" /\ j.pc = "pause" /\ j.row \in Rows
      /\ ~New(j.row) /\ Active(j)
  BY WhereFrom DEF HeldPause
<1>2. PICK k : k = [j EXCEPT !.pc = "record"]
  OBVIOUS
<1>3. /\ k \in JobShape /\ k.pc = "record" /\ SameAs(j, k) /\ k.row = j.row /\ k.ok = j.ok
      /\ k.release = j.release
  BY <1>1, <1>2, AtPC
<1>4. JobOK(k) /\ Active(k)
  BY <1>1, <1>3 DEF JobOK, SameAs, Active
<1>5. Become(s, k) /\ agent' = agent /\ row' = row
  BY <1>2 DEF HeldPause
<1>6. About(k) => ~New(k.row)'
  BY <1>1, <1>3, <1>5 DEF New
<1>7. Goes(s) /\ job'[s] = k
  BY <1>1, <1>3, <1>4, <1>5, <1>6, StepGoes
<1> QED
  BY <1>1, <1>3, <1>7 DEF JobOK

LEMMA RecordDoes ==
  ASSUME Shape, NEW s \in Slots, HeldRecord(s), NEW j, j = job[s]
  PROVE  /\ j.kind = "held" /\ j.pc = "record" /\ j.row \in Rows
         /\ \/ /\ j.release /\ Goes(s) /\ job'[s].pc \in {"skip", "delete"}
               /\ job'[s].pc = "delete" => ~j.skip
            \/ ~j.release /\ \E ans \in {"go", "stop"} : Ends(s, ans)
<1>1. /\ j \in JobShape /\ JobOK(j) /\ j.kind = "held" /\ j.pc = "record" /\ j.row \in Rows
      /\ ~New(j.row) /\ Active(j)
  BY WhereFrom DEF HeldRecord
<1>2. CASE j.release
  <2>1. PICK x \in {"skip", "delete"} : x = IF j.skip THEN "skip" ELSE "delete"
    OBVIOUS
  <2>2. PICK k : k = [j EXCEPT !.pc = x]
    OBVIOUS
  <2>3. k \in JobShape /\ k.pc = x /\ SameAs(j, k) /\ k.row = j.row
    BY <1>1, <2>2 DEF JobShape, SameAs
  <2>4. JobOK(k) /\ Active(k)
    BY <1>1, <2>3 DEF JobOK, SameAs, Active
  <2>5. Become(s, k) /\ agent' = agent /\ row' = row
    BY <1>2, <2>1, <2>2 DEF HeldRecord
  <2>6. About(k) => ~New(k.row)'
    BY <1>1, <2>3, <2>5 DEF New
  <2>7. Goes(s) /\ job'[s] = k
    BY <1>1, <2>3, <2>4, <2>5, <2>6, StepGoes
  <2> QED
    BY <1>1, <1>2, <2>1, <2>3, <2>7
<1>3. CASE ~j.release
  <2>1. \E ans \in {"go", "stop"} : Conclude(s, ans)
    BY <1>3 DEF HeldRecord, Onward
  <2> QED
    BY <1>1, <1>3, <2>1, Concluded DEF Shape
<1> QED
  BY <1>2, <1>3

LEMMA MarkDoes ==
  ASSUME Shape, NEW s \in Slots, MarkSkipped(s), NEW j, j = job[s]
  PROVE  /\ Goes(s) /\ j.kind \in {"held", "cancel"} /\ j.row \in Rows /\ ~New(j.row)
         /\ job'[s].pc = "delete"
<1>1. /\ j \in JobShape /\ JobOK(j) /\ j.kind \in {"held", "cancel"} /\ j.pc = "skip" /\ j.row \in Rows
      /\ ~New(j.row) /\ Active(j)
  BY WhereFrom DEF MarkSkipped
<1>2. PICK k : k = [j EXCEPT !.pc = "delete"]
  OBVIOUS
<1>3. k \in JobShape /\ k.pc = "delete" /\ SameAs(j, k) /\ k.row = j.row
  BY <1>1, <1>2, AtPC
<1>4. JobOK(k) /\ Active(k)
  BY <1>1, <1>3 DEF JobOK, SameAs, Active
<1>5. Become(s, k) /\ agent' = agent /\ row' = row
  BY <1>2 DEF MarkSkipped
<1>6. About(k) => ~New(k.row)'
  BY <1>1, <1>3, <1>5 DEF New
<1>7. Goes(s) /\ job'[s] = k
  BY <1>1, <1>3, <1>4, <1>5, <1>6, StepGoes
<1> QED
  BY <1>1, <1>3, <1>7

LEMMA DeleteDoes ==
  ASSUME Shape, NEW s \in Slots, DeleteRow(s)
  PROVE  \E ans \in {"go", "stop"} : Ends(s, ans)
<1>1. \E ans \in {"go", "stop"} : Conclude(s, ans)
  BY DEF DeleteRow, Onward
<1>2. Active(job[s]) /\ job[s].pc # "idle"
  BY WhereFrom DEF DeleteRow
<1> QED
  BY <1>1, <1>2, Concluded DEF Shape

LEMMA FailDoes ==
  ASSUME Shape, NEW s \in Slots, Fail(s)
  PROVE  Ends(s, "error")
BY Concluded DEF Fail, Shape

-----------------------------------------------------------------------------
(* The steps of the folder and of a request sent by hand.                  *)

LEMMA FeedDoes ==
  ASSUME Shape, NEW s \in Slots, NEW r \in Rows, FeedInsert(s, r)
  PROVE  /\ Ends(s, "error")
         /\ \/ row' = row
            \/ \E p \in People, a \in Accounts, f \in BOOLEAN :
                 RowOf(p) = {} /\ row[r] = NewRow /\ Insert(r, p, a, "waiting", f)
<1>1. JobOK(job[s]) /\ job[s].kind = "feed" /\ job[s].pc = "insert"
  BY WhereFrom DEF FeedInsert
<1>2. job[s].person \in People /\ job[s].account \in Accounts
  BY <1>1 DEF JobOK
<1>3. \A noted \in {TRUE, ~Faults} : noted \in BOOLEAN
  OBVIOUS
<1>4. Ends(s, "error")
  BY <1>1, Dropped DEF FeedInsert, Shape
<1> QED
  BY <1>2, <1>3, <1>4 DEF FeedInsert

LEMMA ByHandReadDoes ==
  ASSUME Shape, NEW s \in Slots, NEW r \in Rows, ByHandRead(s, r)
  PROVE  \/ Ends(s, "error")
         \/ /\ Goes(s) /\ job[s].kind = "byhand" /\ job'[s].pc \in {"insert", "status"}
            /\ job'[s].ok => Allowed(job[s].account)
<1>1. PICK j : j = job[s]
  OBVIOUS
<1>2. j \in JobShape /\ JobOK(j) /\ j.kind = "byhand" /\ j.pc = "read" /\ Active(j)
  BY <1>1, WhereFrom DEF ByHandRead, Active
<1>3. PICK b \in BOOLEAN : b = Allowed(j.account)
  BY DEF Allowed
<1>4. PICK i : i = [j EXCEPT !.ok = b, !.to = "pending"]
  OBVIOUS
<1>5. ASSUME NEW x \in {"insert", "status"}, NEW k, k = [i EXCEPT !.pc = x, !.row = r],
             Become(s, k), x = "status" => ~New(r)
      PROVE  Goes(s) /\ job'[s].pc = x /\ job'[s].ok = b
  <2>1. i \in JobShape /\ i.to = "pending" /\ i.ok = b /\ SameAs(j, i)
    BY <1>2, <1>3, <1>4 DEF JobShape, SameAs, Stages
  <2>2. k \in JobShape /\ k.pc = x /\ SameAs(i, k) /\ k.row = r /\ k.to = i.to /\ k.ok = i.ok
    BY <1>5, <2>1 DEF JobShape, SameAs
  <2>3. SameAs(j, k) /\ k.to = "pending" /\ k.ok = b
    BY <2>1, <2>2 DEF SameAs
  <2>4. JobOK(k) /\ Active(k)
    BY <1>2, <2>2, <2>3 DEF JobOK, SameAs, Active, Stages
  <2>5. agent' = agent /\ row' = row
    BY DEF ByHandRead, tables
  <2>6. About(k) => ~New(k.row)'
    BY <1>2, <1>5, <2>2, <2>3, <2>5 DEF About, New, SameAs
  <2>7. Goes(s) /\ job'[s] = k
    BY <1>1, <1>2, <1>5, <2>2, <2>3, <2>4, <2>5, <2>6, StepGoes
  <2> QED
    BY <2>2, <2>3, <2>7
<1>6. i.person = j.person
  BY <1>2, <1>4 DEF JobShape
<1>7. CASE RowOf(j.person) = {} /\ row[r] = NewRow
  <2>1. PICK k : k = [i EXCEPT !.pc = "insert", !.row = r]
    OBVIOUS
  <2>2. Become(s, k)
    BY <1>1, <1>3, <1>4, <1>6, <1>7, <2>1 DEF ByHandRead
  <2> QED
    BY <1>1, <1>2, <1>3, <1>5, <2>1, <2>2
<1>8. CASE r \in RowOf(j.person) /\ Waiting(r)
  <2>1. PICK k : k = [i EXCEPT !.pc = "status", !.row = r]
    OBVIOUS
  <2>2. Become(s, k)
    BY <1>1, <1>3, <1>4, <1>6, <1>8, <2>1 DEF ByHandRead
  <2>3. ~New(r)
    BY <1>8 DEF Waiting, New
  <2> QED
    BY <1>1, <1>2, <1>3, <1>5, <2>1, <2>2, <2>3
<1>9. CASE r \in RowOf(j.person) /\ ~Waiting(r)
  <2>1. End(s) /\ agent' = agent
    BY <1>1, <1>3, <1>4, <1>6, <1>9 DEF ByHandRead
  <2> QED
    BY <1>1, <1>2, <2>1, Dropped DEF Shape
<1>10. \/ RowOf(j.person) = {} /\ row[r] = NewRow
       \/ r \in RowOf(j.person) /\ Waiting(r)
       \/ r \in RowOf(j.person) /\ ~Waiting(r)
  BY <1>1, <1>3, <1>4, <1>6 DEF ByHandRead
<1> QED
  BY <1>7, <1>8, <1>9, <1>10

LEMMA ByHandInsertDoes ==
  ASSUME Shape, NEW s \in Slots, ByHandInsert(s), NEW j, j = job[s]
  PROVE  /\ j.kind = "byhand"
         /\ \/ Ends(s, "error") /\ row' = row
            \/ /\ Goes(s) /\ job'[s].pc = "commit" /\ job'[s].ok = j.ok /\ job'[s].row = j.row
               /\ j.row \in Rows /\ row[j.row] = NewRow
               /\ \E p \in People, a \in Accounts :
                    RowOf(p) = {} /\ Insert(j.row, p, a, "pending", FALSE)
<1>1. /\ j \in JobShape /\ JobOK(j) /\ j.kind = "byhand" /\ j.pc = "insert" /\ Active(j)
      /\ j.row \in Rows /\ j.person \in People /\ j.account \in Accounts
  <2>1. j \in JobShape /\ JobOK(j) /\ j.kind = "byhand" /\ j.pc = "insert"
    BY WhereFrom DEF ByHandInsert
  <2> QED
    BY <2>1 DEF JobOK, Active
<1>2. CASE RowOf(j.person) = {} /\ row[j.row] = NewRow
  <2>1. PICK k : k = [j EXCEPT !.pc = "commit"]
    OBVIOUS
  <2>2. k \in JobShape /\ k.pc = "commit" /\ SameAs(j, k) /\ k.row = j.row /\ k.ok = j.ok
    BY <1>1, <2>1, AtPC
  <2>3. JobOK(k) /\ Active(k)
    BY <1>1, <2>2 DEF JobOK, SameAs, Active
  <2>4. Insert(j.row, j.person, j.account, "pending", FALSE) /\ Become(s, k) /\ agent' = agent
    BY <1>2, <2>1 DEF ByHandInsert
  <2>5. ~New(k.row)'
    <3>1. row'[j.row].status = "pending"
      BY <1>1, <1>2, <2>4, RowAdded
    <3> QED
      BY <2>2, <3>1 DEF New
  <2>6. Goes(s) /\ job'[s] = k
    BY <1>1, <2>2, <2>3, <2>4, <2>5, StepGoes
  <2> QED
    BY <1>1, <1>2, <2>2, <2>4, <2>6
<1>3. CASE ~(RowOf(j.person) = {} /\ row[j.row] = NewRow)
  <2>1. End(s) /\ agent' = agent /\ row' = row
    BY <1>3 DEF ByHandInsert
  <2> QED
    BY <1>1, <2>1, Dropped DEF Shape
<1> QED
  BY <1>2, <1>3

-----------------------------------------------------------------------------
(* Requests taken up.                                                      *)

LEMMA JobTaken ==
  ASSUME Shape, NEW s \in Slots, NEW k \in JobShape, Start(s, k), agent' = agent, JobOK(k),
         k.kind \in {"feed", "cancel", "check", "reply", "byhand"},
         k.kind = "byhand" => k.pc = "queued", About(k) => ~New(k.row)'
  PROVE  Takes(s) /\ job'[s] = k
<1>1. job' \in [Slots -> JobShape] /\ job'[s] = k /\ Others(s) /\ job[s] = Idle
  BY OneJob DEF Shape, Start
<1>2. Rooted(job[s])'
  BY <1>1 DEF Rooted, New
<1> QED
  BY <1>1, <1>2 DEF Takes, Fits

LEMMA FeedWalkDoes ==
  ASSUME Shape, NEW s \in Slots, NEW p \in People, FeedWalk(s, p)
  PROVE  Takes(s) /\ job'[s].kind = "feed"
<1>1. PICK k : k = [Idle EXCEPT !.kind = "feed", !.pc = "insert", !.account = agent.account, !.person = p]
  OBVIOUS
<1>2. agent.account \in Accounts
  BY DEF FeedWalk, Shape, AgentOK
<1>3. /\ k \in JobShape /\ k.kind = "feed" /\ k.pc = "insert" /\ k.account = agent.account
      /\ k.person = p /\ k.lease = 0 /\ k.ok = FALSE
  BY <1>1, <1>2 DEF Idle, JobShape, Outs
<1>4. JobOK(k) /\ ~About(k)
  BY <1>2, <1>3 DEF JobOK, About
<1>5. Start(s, k) /\ agent' = agent
  BY <1>1 DEF FeedWalk
<1> QED
  BY <1>3, <1>4, <1>5, JobTaken

LEMMA CancelDoes ==
  ASSUME Shape, NEW s \in Slots, NEW r \in Rows, CancelCall(s, r)
  PROVE  /\ Takes(s) /\ job'[s].kind = "cancel" /\ job'[s].row = r
         /\ job'[s].pc = "delete" => ~row[r].fed
<1>1. PICK x \in {"skip", "delete"} : x = IF row[r].fed THEN "skip" ELSE "delete"
  OBVIOUS
<1>2. PICK k : k = [Idle EXCEPT !.kind = "cancel", !.row = r, !.pc = x]
  OBVIOUS
<1>3. /\ k \in JobShape /\ k.kind = "cancel" /\ k.pc = x /\ k.row = r /\ k.lease = 0 /\ k.ok = FALSE
  BY <1>2 DEF Idle, JobShape, Outs
<1>4. JobOK(k)
  BY <1>3 DEF JobOK
<1>5. Start(s, k) /\ agent' = agent /\ row' = row /\ Waiting(r)
  BY <1>1, <1>2 DEF CancelCall, tables
<1>6. About(k) => ~New(k.row)'
  BY <1>3, <1>5 DEF New, Waiting
<1>7. Takes(s) /\ job'[s] = k
  BY <1>3, <1>4, <1>5, <1>6, JobTaken
<1> QED
  BY <1>1, <1>3, <1>7

LEMMA ByHandDoes ==
  ASSUME Shape, NEW s \in Slots, NEW p \in People, NEW a \in Accounts, ByHandCall(s, p, a)
  PROVE  Takes(s) /\ job'[s].kind = "byhand"
<1>1. PICK k : k = [Idle EXCEPT !.kind = "byhand", !.pc = "queued", !.account = a, !.person = p]
  OBVIOUS
<1>2. /\ k \in JobShape /\ k.kind = "byhand" /\ k.pc = "queued" /\ k.account = a
      /\ k.person = p /\ k.lease = 0 /\ k.ok = FALSE
  BY <1>1 DEF Idle, JobShape, Outs
<1>3. JobOK(k) /\ ~About(k)
  BY <1>2 DEF JobOK, About
<1>4. Start(s, k) /\ agent' = agent
  BY <1>1 DEF ByHandCall
<1> QED
  BY <1>2, <1>3, <1>4, JobTaken

LEMMA SawDoes ==
  ASSUME Shape, NEW s \in Slots, NEW r \in Rows, NEW c \in {"check", "reply"}, Saw(s, r, c)
  PROVE  Takes(s) /\ job'[s].kind = c
<1>1. PICK to : /\ to \in {"accepted", "withdrawn", "connected"} /\ (to = "connected" <=> c = "reply")
                /\ Start(s, [Idle EXCEPT !.kind = c, !.pc = "status", !.row = r, !.to = to])
  <2> DEFINE now == linkedin[<<agent.account, row[r].person>>]
             to == CASE c = "check" /\ now = "connected" -> "accepted"
                     [] c = "check" /\ now = "gone"      -> "withdrawn"
                     [] c = "reply" /\ now = "connected" -> "connected"
                     [] OTHER                            -> None
  <2>1. to # None /\ Start(s, [Idle EXCEPT !.kind = c, !.pc = "status", !.row = r, !.to = to])
    BY DEF Saw
  <2>2. to \in {"accepted", "withdrawn", "connected"} /\ (to = "connected" <=> c = "reply")
    BY <2>1 DEF None
  <2> QED
    BY <2>1, <2>2
<1>2. PICK k : k = [Idle EXCEPT !.kind = c, !.pc = "status", !.row = r, !.to = to]
  OBVIOUS
<1>3. /\ k \in JobShape /\ k.kind = c /\ k.pc = "status" /\ k.row = r /\ k.to = to /\ k.lease = 0
      /\ k.ok = FALSE
  BY <1>1, <1>2 DEF Idle, JobShape, Outs, Stages
<1>4. JobOK(k)
  BY <1>1, <1>3 DEF JobOK, Stages
<1>5. Start(s, k) /\ agent' = agent /\ row' = row /\ Exists(r)
  BY <1>1, <1>2 DEF Saw, tables
<1>6. About(k) => ~New(k.row)'
  BY <1>3, <1>5 DEF New, Exists, Stages
<1>7. Takes(s) /\ job'[s] = k
  BY <1>3, <1>4, <1>5, <1>6, JobTaken
<1> QED
  BY <1>3, <1>7

-----------------------------------------------------------------------------
(* The steps of the agent.                                                 *)

\* The session asks the portal, for the first or the second time.
Asks(s) ==
  /\ job[s] = Idle
  /\ agent.at = "clicked" \/ (agent.at = "asked" /\ agent.answer \notin Agreed)
  /\ agent' \in AgentShape /\ agent'.at = "asked" /\ agent'.answer = None
  /\ agent'.try = agent.try + 1 /\ agent'.lease = agent.lease /\ agent'.account = agent.account
  /\ agent'.row = agent.row /\ agent'.outcome = agent.outcome /\ agent'.done = agent.done
  /\ job'[s].kind = (IF agent.outcome \in HeldOutcomes THEN "held" ELSE "sent")
  /\ job'[s].pc = "queued" /\ job'[s].lease = agent.lease /\ job'[s].try = agent.try + 1
  /\ job'[s].account = agent.account /\ job'[s].row = agent.row
  /\ job'[s].outcome = agent.outcome /\ job'[s].ok = FALSE
  /\ Others(s) /\ Fits(s)

\* It goes on by itself, and never waits for an answer it did not ask for.
Walks ==
  /\ job' = job /\ agent' \in AgentShape /\ AgentOK' /\ agent'.at # "asked"
  /\ \/ agent.at = "home" /\ agent.lease < MaxSession /\ agent'.lease = agent.lease + 1
     \/ agent'.at = "home" /\ agent'.lease = agent.lease
     \/ /\ agent'.lease = agent.lease /\ agent.done \subseteq agent'.done
        /\ agent.at \in {"free", "visit"} \/ (agent.at = "asked" /\ agent.answer \in Agreed)
        /\ agent'.at \in {"visit", "clicked"} =>
             \/ agent.at = "visit" /\ agent'.row = agent.row
             \/ agent'.row \notin agent.done

LEMMA AsksDoes ==
  ASSUME Shape, NEW s \in Slots, Report(s)
  PROVE  Asks(s)
<1>1. /\ agent \in AgentShape /\ agent.account \in Accounts /\ agent.lease \in Nat /\ agent.lease > 0
      /\ agent.row \in Rows /\ ~New(agent.row) /\ agent.try \in Nat
      /\ agent.at = "clicked" \/ (agent.at = "asked" /\ agent.answer \notin Agreed)
  <2>1. agent \in AgentShape /\ AgentOK
    BY DEF Shape, Shapes
  <2>2. agent.at = "clicked" \/ (agent.at = "asked" /\ agent.answer \in {None, "error"})
    BY DEF Report
  <2>3. None \notin Agreed /\ "error" \notin Agreed
    BY DEF None, Agreed
  <2> QED
    BY <2>1, <2>2, <2>3 DEF AgentShape, AgentOK
<1>2. PICK n : n = agent.try + 1
  OBVIOUS
<1>3. PICK h \in {"held", "sent"} : h = IF agent.outcome \in HeldOutcomes THEN "held" ELSE "sent"
  OBVIOUS
<1>4. PICK g : g = [agent EXCEPT !.at = "asked", !.try = n, !.answer = None]
  OBVIOUS
<1>5. /\ g \in AgentShape /\ g.at = "asked" /\ g.answer = None /\ g.try = n
      /\ g.lease = agent.lease /\ g.account = agent.account
      /\ g.row = agent.row /\ g.outcome = agent.outcome /\ g.done = agent.done
  <2>1. n \in Nat
    BY <1>1, <1>2
  <2>2. g \in AgentShape
    BY <1>1, <1>4, <2>1 DEF AgentShape
  <2>3. /\ g.at = "asked" /\ g.answer = None /\ g.try = n
        /\ g.lease = agent.lease /\ g.account = agent.account
    BY <1>1, <1>4 DEF AgentShape
  <2>4. g.row = agent.row /\ g.outcome = agent.outcome /\ g.done = agent.done
    BY <1>1, <1>4 DEF AgentShape
  <2> QED
    BY <2>2, <2>3, <2>4
<1>6. PICK i : i = [Idle EXCEPT !.kind = h, !.pc = "queued", !.account = agent.account, !.row = agent.row]
  OBVIOUS
<1>7. agent' = g /\ row' = row
  BY <1>2, <1>4 DEF Report, tables
<1>8. PICK k : k = [i EXCEPT !.outcome = agent.outcome, !.lease = agent.lease, !.try = n]
  OBVIOUS
<1>9. /\ k \in JobShape /\ k.kind = h /\ k.pc = "queued" /\ k.account = agent.account
      /\ k.row = agent.row /\ k.outcome = agent.outcome /\ k.lease = agent.lease /\ k.try = n
      /\ k.ok = FALSE
  <2>1. agent.outcome \in Outs /\ n \in Nat
    BY <1>1, <1>2 DEF AgentShape
  <2>2. /\ i \in JobShape /\ i.kind = h /\ i.pc = "queued" /\ i.account = agent.account
        /\ i.row = agent.row /\ i.ok = FALSE
    BY <1>1, <1>6, IdleJob DEF JobShape
  <2>3. k \in JobShape
    BY <1>1, <1>8, <2>1, <2>2 DEF JobShape
  <2>4. /\ k.kind = i.kind /\ k.pc = i.pc /\ k.account = i.account /\ k.row = i.row /\ k.ok = i.ok
        /\ k.outcome = agent.outcome /\ k.lease = agent.lease /\ k.try = n
    BY <1>8, <2>2 DEF JobShape
  <2> QED
    BY <2>2, <2>3, <2>4
<1>13. Start(s, k)
  <2>1. k = [Idle EXCEPT !.kind = h, !.pc = "queued", !.account = agent.account, !.row = agent.row,
                         !.outcome = agent.outcome, !.lease = agent.lease, !.try = n]
    BY <1>6, <1>8
  <2> QED
    BY <1>2, <1>3, <2>1 DEF Report
<1>10. JobOK(k)
  BY <1>1, <1>3, <1>9 DEF JobOK
<1>11. job' \in [Slots -> JobShape] /\ job'[s] = k /\ Others(s) /\ job[s] = Idle
  BY <1>9, <1>13, OneJob DEF Start, Shape
<1>12. Rooted(job[s])'
  BY <1>1, <1>7, <1>9, <1>11 DEF Rooted, New
<1> QED
  BY <1>1, <1>2, <1>3, <1>5, <1>7, <1>9, <1>10, <1>11, <1>12 DEF Asks, Fits

\* Home keeps the number of the session.
LEMMA AtHome ==
  ASSUME Shape, job' = job, agent' = Home
  PROVE  Walks
<1>1. agent.lease \in Nat
  BY DEF Shape, Shapes, AgentShape
<1>2. PICK g : g = Home
  OBVIOUS
<1>3. g \in AgentShape /\ g.at = "home" /\ g.lease = agent.lease /\ g.answer = None /\ g.try = 0
  BY <1>1, <1>2 DEF Home, NoSession, AgentShape, Outs
<1> QED
  BY <1>2, <1>3 DEF Walks, AgentOK

LEMMA BeginDoes ==
  ASSUME Shape, NEW a \in Accounts, Begin(a)
  PROVE  Walks
<1>1. agent.lease \in Nat
  BY DEF Shape, Shapes, AgentShape
<1>2. PICK g : g = [NoSession EXCEPT !.at = "free", !.account = a, !.lease = agent.lease + 1]
  OBVIOUS
<1>3. /\ g \in AgentShape /\ g.at = "free" /\ g.account = a /\ g.lease = agent.lease + 1
      /\ g.answer = None /\ g.try = 0
  <2>1. g = [at |-> "free", account |-> a, lease |-> agent.lease + 1, row |-> None,
             outcome |-> None, try |-> 0, answer |-> None, done |-> {}]
    BY <1>2 DEF NoSession
  <2>2. agent.lease + 1 \in Nat
    BY <1>1
  <2> QED
    BY <2>1, <2>2 DEF AgentShape, Outs
<1>4. agent' = g /\ agent.at = "home" /\ agent.lease < MaxSession /\ job' = job
  BY <1>2 DEF Begin
<1>5. g.lease > 0
  BY <1>1, <1>3
<1> QED
  BY <1>3, <1>4, <1>5 DEF Walks, AgentOK

LEMMA PrepareDoes ==
  ASSUME Shape, NEW r \in Rows, Prepare(r)
  PROVE  Walks
<1>1. agent \in AgentShape /\ AgentOK /\ agent.at = "free" /\ r \notin agent.done
  BY DEF Shape, Shapes, Prepare
<1>2. PICK g : g = [agent EXCEPT !.at = "visit", !.row = r, !.done = agent.done \cup {r}]
  OBVIOUS
<1>3. /\ g \in AgentShape /\ g.at = "visit" /\ g.row = r /\ g.done = agent.done \cup {r}
      /\ g.account = agent.account /\ g.lease = agent.lease /\ g.answer = agent.answer
      /\ g.try = agent.try
  BY <1>1, <1>2 DEF AgentShape
<1>4. agent' = g /\ job' = job /\ row' = row /\ Waiting(r)
  BY <1>2 DEF Prepare, tables, ToSend
<1>5. AgentOK'
  BY <1>1, <1>3, <1>4 DEF AgentOK, New, Waiting
<1> QED
  BY <1>1, <1>3, <1>4, <1>5 DEF Walks

LEMMA VisitDoes ==
  ASSUME Shape, NEW o \in Outcomes \cup {"already_pending", "already_connected"}, Visit(o)
  PROVE  Walks
<1>1. agent \in AgentShape /\ AgentOK /\ agent.at = "visit"
  BY DEF Shape, Shapes, Visit
<1>2. PICK g : g = [agent EXCEPT !.at = "clicked", !.outcome = o]
  OBVIOUS
<1>3. /\ g \in AgentShape /\ g.at = "clicked" /\ g.row = agent.row /\ g.done = agent.done
      /\ g.account = agent.account /\ g.lease = agent.lease /\ g.answer = agent.answer
      /\ g.try = agent.try
  BY <1>1, <1>2 DEF AgentShape, Outs
<1>4. agent' = g /\ job' = job /\ row' = row
  BY <1>2 DEF Visit, tables
<1>5. AgentOK'
  BY <1>1, <1>3, <1>4 DEF AgentOK, New
<1> QED
  BY <1>1, <1>3, <1>4, <1>5 DEF Walks

LEMMA HearDoes ==
  ASSUME Shape, Hear
  PROVE  Walks
<1>1. agent \in AgentShape /\ AgentOK /\ agent.at = "asked" /\ agent.answer \in Agreed
  BY DEF Shape, Shapes, Hear, Agreed
<1>2. job' = job /\ row' = row
  BY DEF Hear, tables
<1>3. CASE agent.answer = "refused"
  BY <1>2, <1>3, AtHome DEF Hear
<1>4. CASE agent.answer # "refused"
  <2>1. PICK x \in {"free", "done"} :
          agent' = [agent EXCEPT !.at = x, !.row = None, !.outcome = None, !.try = 0, !.answer = None]
    BY <1>4 DEF Hear
  <2>2. PICK h : h = [agent EXCEPT !.at = x, !.row = None, !.outcome = None]
    OBVIOUS
  <2>3. /\ h \in AgentShape /\ h.at = x /\ h.done = agent.done
        /\ h.account = agent.account /\ h.lease = agent.lease
    BY <1>1, <2>2 DEF AgentShape, Outs
  <2>4. PICK g : g = [h EXCEPT !.try = 0, !.answer = None]
    OBVIOUS
  <2>5. /\ g \in AgentShape /\ g.at = x /\ g.done = agent.done /\ g.account = agent.account
        /\ g.lease = agent.lease /\ g.try = 0 /\ g.answer = None
    BY <2>3, <2>4 DEF AgentShape
  <2>6. agent' = g
    BY <2>1, <2>2, <2>4
  <2>7. AgentOK'
    BY <1>1, <2>5, <2>6 DEF AgentOK
  <2> QED
    BY <1>1, <1>2, <2>5, <2>6, <2>7 DEF Walks
<1> QED
  BY <1>3, <1>4

-----------------------------------------------------------------------------
(* The shapes are kept.                                                    *)

Sundry ==
  /\ skipped \subseteq People /\ paused \subseteq Accounts
  /\ pausedBy \in [Accounts -> (Rows \cup {None}) \X Nat]
  /\ spent \in [Accounts -> Nat] /\ billed \in [Rows -> Nat]
  /\ day \in Nat
  /\ linkedin \in [Accounts \X People -> {"none", "pending", "connected", "gone"}]

\* A request is served, or given up.
Serves(s) == Goes(s) \/ Takes(s) \/ \E ans \in Agreed \cup {"error"} : Ends(s, ans)

LEMMA AgentStays ==
  ASSUME Shape, RowsKept, agent' = agent
  PROVE  agent' \in AgentShape /\ AgentOK'
BY DEF Shape, Shapes, AgentOK, RowsKept, New

LEMMA AgentTold ==
  ASSUME Shape, RowsKept, NEW ans \in Agreed \cup {"error"}, agent.at = "asked",
         agent' = [agent EXCEPT !.answer = ans]
  PROVE  /\ agent' \in AgentShape /\ AgentOK'
         /\ agent'.at = agent.at /\ agent'.lease = agent.lease /\ agent'.account = agent.account
         /\ agent'.row = agent.row /\ agent'.outcome = agent.outcome /\ agent'.try = agent.try
         /\ agent'.done = agent.done /\ agent'.answer = ans
<1>1. agent \in AgentShape /\ AgentOK
  BY DEF Shape, Shapes
<1>2. /\ agent' \in AgentShape
      /\ agent'.at = agent.at /\ agent'.lease = agent.lease /\ agent'.account = agent.account
      /\ agent'.row = agent.row /\ agent'.outcome = agent.outcome /\ agent'.try = agent.try
      /\ agent'.done = agent.done /\ agent'.answer = ans
  BY <1>1 DEF AgentShape
<1>3. AgentOK'
  BY <1>1, <1>2 DEF AgentOK, RowsKept, New
<1> QED
  BY <1>2, <1>3

LEMMA RootedStay ==
  ASSUME Shape, RowsKept, NEW t \in Slots, job'[t] = job[t]
  PROVE  JobOK(job'[t]) /\ Rooted(job[t])'
<1>1. PICK j : j = job[t]
  OBVIOUS
<1>2. JobOK(j) /\ Rooted(j)
  BY <1>1 DEF Shape
<1>3. About(j) => j.row \in Rows
  BY <1>2 DEF About, JobOK
<1>4. About(j) => ~New(j.row)'
  BY <1>2, <1>3 DEF Rooted, RowsKept
<1> QED
  BY <1>1, <1>2, <1>4 DEF Rooted, New

LEMMA ShapeKept ==
  ASSUME Shape, RowsKept, RowsFit, log' \in [Rows -> Seq(EventShape)], Sundry',
         agent' \in AgentShape, AgentOK', job' \in [Slots -> JobShape],
         \A t \in Slots : job'[t] = job[t] \/ (JobOK(job'[t]) /\ Rooted(job[t])')
  PROVE  Shape'
<1>1. \A t \in Slots : JobOK(job'[t]) /\ Rooted(job[t])'
  BY RootedStay
<1>2. Shapes'
  BY DEF Shapes, Sundry, RowsFit
<1>3. RowsOK'
  BY DEF RowsFit
<1> QED
  BY <1>1, <1>2, <1>3 DEF Shape

LEMMA ServesShape ==
  ASSUME Shape, NEW s \in Slots, Serves(s), RowsKept, RowsFit,
         log' \in [Rows -> Seq(EventShape)], Sundry'
  PROVE  Shape'
<1>1. Others(s) /\ Fits(s)
  BY DEF Serves, Goes, Takes, Ends
<1>2. agent' \in AgentShape /\ AgentOK'
  BY AgentStays, AgentTold DEF Serves, Goes, Takes, Ends
<1>3. \A t \in Slots : job'[t] = job[t] \/ (JobOK(job'[t]) /\ Rooted(job[t])')
  BY <1>1 DEF Others, Fits
<1> QED
  BY <1>1, <1>2, <1>3, ShapeKept DEF Fits

LEMMA WalksShape ==
  ASSUME Shape, Walks \/ (job' = job /\ agent' = agent), RowsKept, RowsFit,
         log' \in [Rows -> Seq(EventShape)], Sundry'
  PROVE  Shape'
<1>1. job' \in [Slots -> JobShape] /\ \A t \in Slots : job'[t] = job[t]
  BY DEF Walks, Shape, Shapes
<1>2. agent' \in AgentShape /\ AgentOK'
  BY AgentStays DEF Walks
<1> QED
  BY <1>1, <1>2, ShapeKept

LEMMA AsksShape ==
  ASSUME Shape, NEW s \in Slots, Asks(s), row' = row, log' = log, Sundry'
  PROVE  Shape'
<1>1. RowsKept /\ RowsFit /\ log' \in [Rows -> Seq(EventShape)]
  BY SameRows DEF Shape, Shapes
<1>2. AgentOK'
  BY DEF Asks, AgentOK, Shape, New
<1>3. \A t \in Slots : job'[t] = job[t] \/ (JobOK(job'[t]) /\ Rooted(job[t])')
  BY DEF Asks, Others, Fits
<1> QED
  BY <1>1, <1>2, <1>3, ShapeKept DEF Asks, Fits

-----------------------------------------------------------------------------
(* Every step is one of these.                                             *)

LEMMA StepCases ==
  ASSUME [Next]_vars
  PROVE  \/ \E s \in Slots :
              \/ Enter(s) \/ ReadStatus(s) \/ MoveRow(s) \/ Commit(s) \/ SentRead(s)
              \/ HeldRead(s) \/ HeldPause(s) \/ HeldRecord(s) \/ MarkSkipped(s)
              \/ DeleteRow(s) \/ ByHandInsert(s) \/ Fail(s) \/ Report(s)
         \/ \E s \in Slots, r \in Rows : FeedInsert(s, r) \/ ByHandRead(s, r)
         \/ \E s \in Slots, r \in Rows : CancelCall(s, r)
         \/ \E s \in Slots, r \in Rows, c \in {"check", "reply"} : Saw(s, r, c)
         \/ \E s \in Slots, p \in People : FeedWalk(s, p)
         \/ \E s \in Slots, p \in People, a \in Accounts : ByHandCall(s, p, a)
         \/ \E p \in People, a \in Accounts, r \in Rows : Request(p, a, r)
         \/ \E r \in Rows, a \in Accounts : Reassign(r, a)
         \/ \E r \in Rows : Prepare(r)
         \/ \E o \in Outcomes \cup {"already_pending", "already_connected"} : Visit(o)
         \/ \E a \in Accounts : Begin(a) \/ Warn(a)
         \/ \E x \in Accounts \X People : Respond(x)
         \/ Finish \/ Die \/ Hear \/ NewDay \/ UNCHANGED vars
BY Zenon DEF Next, Steps

\* What becomes of the requests and of the agent.
LEMMA StepKinds ==
  ASSUME Shape, [Next]_vars
  PROVE  \/ \E s \in Slots : Serves(s) \/ (Asks(s) /\ row' = row /\ log' = log)
         \/ Walks \/ (job' = job /\ agent' = agent)
<1>1. ASSUME NEW s \in Slots, Enter(s) PROVE Serves(s)
  BY <1>1, EnterDoes DEF Serves
<1>2. ASSUME NEW s \in Slots, ReadStatus(s) PROVE Serves(s)
  BY <1>2, ReadDoes DEF Serves, Agreed
<1>3. ASSUME NEW s \in Slots, MoveRow(s) PROVE Serves(s)
  BY <1>3, MoveDoes DEF Serves, Agreed
<1>4. ASSUME NEW s \in Slots, Commit(s) PROVE Serves(s)
  BY <1>4, CommitDoes DEF Serves, Agreed
<1>5. ASSUME NEW s \in Slots, SentRead(s) PROVE Serves(s)
  BY <1>5, SentReadDoes DEF Serves, Agreed
<1>6. ASSUME NEW s \in Slots, HeldRead(s) PROVE Serves(s)
  BY <1>6, HeldReadDoes DEF Serves, Agreed
<1>7. ASSUME NEW s \in Slots, HeldPause(s) PROVE Serves(s)
  BY <1>7, PauseDoes DEF Serves
<1>8. ASSUME NEW s \in Slots, HeldRecord(s) PROVE Serves(s)
  BY <1>8, RecordDoes DEF Serves, Agreed
<1>9. ASSUME NEW s \in Slots, MarkSkipped(s) PROVE Serves(s)
  BY <1>9, MarkDoes DEF Serves
<1>10. ASSUME NEW s \in Slots, DeleteRow(s) PROVE Serves(s)
  BY <1>10, DeleteDoes DEF Serves, Agreed
<1>11. ASSUME NEW s \in Slots, ByHandInsert(s) PROVE Serves(s)
  BY <1>11, ByHandInsertDoes DEF Serves
<1>12. ASSUME NEW s \in Slots, Fail(s) PROVE Serves(s)
  BY <1>12, FailDoes DEF Serves
<1>13. ASSUME NEW s \in Slots, Report(s) PROVE Asks(s) /\ row' = row /\ log' = log
  BY <1>13, AsksDoes DEF Report, tables
<1>14. ASSUME NEW s \in Slots, NEW r \in Rows, FeedInsert(s, r) PROVE Serves(s)
  BY <1>14, FeedDoes DEF Serves
<1>15. ASSUME NEW s \in Slots, NEW r \in Rows, ByHandRead(s, r) PROVE Serves(s)
  BY <1>15, ByHandReadDoes DEF Serves
<1>16. ASSUME NEW s \in Slots, NEW r \in Rows, CancelCall(s, r) PROVE Serves(s)
  BY <1>16, CancelDoes DEF Serves
<1>17. ASSUME NEW s \in Slots, NEW r \in Rows, NEW c \in {"check", "reply"}, Saw(s, r, c)
       PROVE  Serves(s)
  BY <1>17, SawDoes DEF Serves
<1>18. ASSUME NEW s \in Slots, NEW p \in People, FeedWalk(s, p) PROVE Serves(s)
  BY <1>18, FeedWalkDoes DEF Serves
<1>19. ASSUME NEW s \in Slots, NEW p \in People, NEW a \in Accounts, ByHandCall(s, p, a)
       PROVE  Serves(s)
  BY <1>19, ByHandDoes DEF Serves
<1>20. ASSUME NEW r \in Rows, Prepare(r) PROVE Walks
  BY <1>20, PrepareDoes
<1>21. ASSUME NEW o \in Outcomes \cup {"already_pending", "already_connected"}, Visit(o) PROVE Walks
  BY <1>21, VisitDoes
<1>22. ASSUME NEW a \in Accounts, Begin(a) PROVE Walks
  BY <1>22, BeginDoes
<1>23. ASSUME Finish \/ Die PROVE Walks
  BY <1>23, AtHome DEF Finish, Die
<1>24. ASSUME Hear PROVE Walks
  BY <1>24, HearDoes
<1>25. ASSUME NEW p \in People, NEW a \in Accounts, NEW r \in Rows, Request(p, a, r)
       PROVE  job' = job /\ agent' = agent
  BY <1>25 DEF Request
<1>26. ASSUME NEW r \in Rows, NEW a \in Accounts, Reassign(r, a) PROVE job' = job /\ agent' = agent
  BY <1>26 DEF Reassign
<1>27. ASSUME NEW a \in Accounts, Warn(a) PROVE job' = job /\ agent' = agent
  BY <1>27 DEF Warn
<1>28. ASSUME NEW x \in Accounts \X People, Respond(x) PROVE job' = job /\ agent' = agent
  BY <1>28 DEF Respond
<1>29. ASSUME NewDay \/ UNCHANGED vars PROVE job' = job /\ agent' = agent
  BY <1>29 DEF NewDay, vars
<1> QED
  BY StepCases, <1>1, <1>2, <1>3, <1>4, <1>5, <1>6, <1>7, <1>8, <1>9, <1>10, <1>11, <1>12, <1>13,
     <1>14, <1>15, <1>16, <1>17, <1>18, <1>19, <1>20, <1>21, <1>22, <1>23, <1>24, <1>25, <1>26,
     <1>27, <1>28, <1>29

\* Which steps write the table.
LEMMA RowWriters ==
  ASSUME [Next]_vars
  PROVE  \/ row' = row
         \/ \E s \in Slots : MoveRow(s) \/ DeleteRow(s) \/ ByHandInsert(s)
         \/ \E s \in Slots, r \in Rows : FeedInsert(s, r)
         \/ \E p \in People, a \in Accounts, r \in Rows : Request(p, a, r)
         \/ \E r \in Rows, a \in Accounts : Reassign(r, a)
<1>1. ASSUME NEW s \in Slots,
             \/ Enter(s) \/ ReadStatus(s) \/ Commit(s) \/ SentRead(s) \/ HeldRead(s)
             \/ HeldPause(s) \/ HeldRecord(s) \/ MarkSkipped(s) \/ Fail(s) \/ Report(s)
      PROVE  row' = row
  BY <1>1 DEF Enter, ReadStatus, Commit, SentRead, HeldRead, HeldPause, HeldRecord, MarkSkipped,
              Fail, Report, tables
<1>2. ASSUME NEW s \in Slots, NEW r \in Rows, ByHandRead(s, r) \/ CancelCall(s, r) PROVE row' = row
  BY <1>2 DEF ByHandRead, CancelCall, tables
<1>3. ASSUME NEW s \in Slots, NEW r \in Rows, NEW c, Saw(s, r, c) PROVE row' = row
  BY <1>3 DEF Saw, tables
<1>4. ASSUME NEW s \in Slots, NEW p \in People, NEW a, FeedWalk(s, p) \/ ByHandCall(s, p, a)
      PROVE  row' = row
  BY <1>4 DEF FeedWalk, ByHandCall, tables
<1>5. ASSUME NEW r \in Rows, Prepare(r) PROVE row' = row
  BY <1>5 DEF Prepare, tables
<1>6. ASSUME NEW x, Visit(x) \/ Begin(x) \/ Warn(x) \/ Respond(x) PROVE row' = row
  BY <1>6 DEF Visit, Begin, Warn, Respond, tables
<1>7. ASSUME Finish \/ Die \/ Hear \/ NewDay \/ UNCHANGED vars PROVE row' = row
  BY <1>7 DEF Finish, Die, Hear, NewDay, tables, vars
<1> QED
  BY StepCases, <1>1, <1>2, <1>3, <1>4, <1>5, <1>6, <1>7

LEMMA StepRows ==
  ASSUME Shape, [Next]_vars
  PROVE  RowsKept /\ RowsFit
<1>1. CASE row' = row
  BY <1>1, SameRows
<1>2. ASSUME NEW s \in Slots, MoveRow(s) PROVE RowsKept /\ RowsFit
  <2>1. CASE StillAsRead(job[s])
    BY <1>2, <2>1, RowMoves
  <2>2. CASE ~StillAsRead(job[s])
    BY <1>2, <2>2, SameRows DEF MoveRow
  <2> QED
    BY <2>1, <2>2
<1>3. ASSUME NEW s \in Slots, DeleteRow(s) PROVE RowsKept /\ RowsFit
  BY <1>3, RowRemoved
<1>4. ASSUME NEW s \in Slots, ByHandInsert(s) PROVE RowsKept /\ RowsFit
  <2>1. CASE row' = row
    BY <2>1, SameRows
  <2>2. CASE row' # row
    BY <1>4, <2>2, ByHandInsertDoes, RowAdded
  <2> QED
    BY <2>1, <2>2
<1>5. ASSUME NEW s \in Slots, NEW r \in Rows, FeedInsert(s, r) PROVE RowsKept /\ RowsFit
  <2>1. CASE row' = row
    BY <2>1, SameRows
  <2>2. CASE row' # row
    BY <1>5, <2>2, FeedDoes, RowAdded
  <2> QED
    BY <2>1, <2>2
<1>6. ASSUME NEW p \in People, NEW a \in Accounts, NEW r \in Rows, Request(p, a, r)
      PROVE  RowsKept /\ RowsFit
  BY <1>6, RowAdded DEF Request
<1>7. ASSUME NEW r \in Rows, NEW a \in Accounts, Reassign(r, a) PROVE RowsKept /\ RowsFit
  BY <1>7, RowReassigned
<1> QED
  BY RowWriters, <1>1, <1>2, <1>3, <1>4, <1>5, <1>6, <1>7

\* Which steps write the events, and that only recordFailed writes a failure.
LEMMA LogTouched ==
  ASSUME [Next]_vars
  PROVE  \/ log' = log
         \/ \E s \in Slots : SentRead(s) \/ HeldRead(s) \/ HeldRecord(s)
         \/ \E r \in Rows, a \in Accounts : Reassign(r, a)
<1>1. ASSUME NEW s \in Slots,
             \/ Enter(s) \/ ReadStatus(s) \/ MoveRow(s) \/ Commit(s) \/ HeldPause(s) \/ MarkSkipped(s)
             \/ DeleteRow(s) \/ ByHandInsert(s) \/ Fail(s) \/ Report(s)
      PROVE  log' = log
  BY <1>1 DEF Enter, ReadStatus, MoveRow, Commit, HeldPause, MarkSkipped, DeleteRow, ByHandInsert,
              Fail, Report, tables
<1>2. ASSUME NEW s \in Slots, NEW r \in Rows, FeedInsert(s, r) \/ ByHandRead(s, r) \/ CancelCall(s, r)
      PROVE  log' = log
  BY <1>2 DEF FeedInsert, ByHandRead, CancelCall, tables
<1>3. ASSUME NEW s \in Slots, NEW r \in Rows, NEW c, Saw(s, r, c) PROVE log' = log
  BY <1>3 DEF Saw, tables
<1>4. ASSUME NEW s \in Slots, NEW p \in People, NEW a, FeedWalk(s, p) \/ ByHandCall(s, p, a)
      PROVE  log' = log
  BY <1>4 DEF FeedWalk, ByHandCall, tables
<1>5. ASSUME NEW p \in People, NEW a \in Accounts, NEW r \in Rows, Request(p, a, r) PROVE log' = log
  BY <1>5 DEF Request
<1>6. ASSUME NEW r \in Rows, Prepare(r) PROVE log' = log
  BY <1>6 DEF Prepare, tables
<1>7. ASSUME NEW x, Visit(x) \/ Begin(x) \/ Warn(x) \/ Respond(x) PROVE log' = log
  BY <1>7 DEF Visit, Begin, Warn, Respond, tables
<1>8. ASSUME Finish \/ Die \/ Hear \/ NewDay \/ UNCHANGED vars PROVE log' = log
  BY <1>8 DEF Finish, Die, Hear, NewDay, tables, vars
<1> QED
  BY StepCases, <1>1, <1>2, <1>3, <1>4, <1>5, <1>6, <1>7, <1>8

LEMMA LogWriters ==
  ASSUME Shape, [Next]_vars
  PROVE  NothingFailed \/ \E s \in Slots : HeldRecord(s)
<1>1. ASSUME NEW s \in Slots, SentRead(s) PROVE NothingFailed
  BY <1>1, SentReadDoes
<1>2. ASSUME NEW s \in Slots, HeldRead(s) PROVE NothingFailed
  BY <1>2, HeldReadDoes
<1>3. ASSUME NEW r \in Rows, NEW a \in Accounts, Reassign(r, a) PROVE NothingFailed
  <2>1. PICK e : e = Moved(a)
    OBVIOUS
  <2>2. e \in EventShape /\ ~IsFailure(e)
    BY <2>1 DEF Moved, EventShape, IsFailure, Outs, Shape, Shapes
  <2>3. log' = log \/ log' = [log EXCEPT ![r] = Append(@, e)]
    BY <1>3, <2>1 DEF Reassign
  <2> QED
    BY <2>2, <2>3, SameLog, OtherEvent DEF Shape
<1>4. log' = log => NothingFailed
  BY SameLog DEF Shape
<1> QED
  BY LogTouched, <1>1, <1>2, <1>3, <1>4

\* Which steps write what else there is.
LEMMA PauseWriters ==
  ASSUME [Next]_vars
  PROVE  \/ paused' = paused /\ pausedBy' = pausedBy
         \/ \E s \in Slots : HeldPause(s)
         \/ \E a \in Accounts : Warn(a)
         \/ NewDay
<1>1. ASSUME NEW s \in Slots,
             \/ Enter(s) \/ ReadStatus(s) \/ MoveRow(s) \/ Commit(s) \/ SentRead(s) \/ HeldRead(s)
             \/ HeldRecord(s) \/ MarkSkipped(s) \/ DeleteRow(s) \/ ByHandInsert(s) \/ Fail(s)
             \/ Report(s)
      PROVE  paused' = paused /\ pausedBy' = pausedBy
  BY <1>1 DEF Enter, ReadStatus, MoveRow, Commit, SentRead, HeldRead, HeldRecord, MarkSkipped,
              DeleteRow, ByHandInsert, Fail, Report, tables
<1>2. ASSUME NEW s \in Slots, NEW r \in Rows, FeedInsert(s, r) \/ ByHandRead(s, r) \/ CancelCall(s, r)
      PROVE  paused' = paused /\ pausedBy' = pausedBy
  BY <1>2 DEF FeedInsert, ByHandRead, CancelCall, tables
<1>3. ASSUME NEW s \in Slots, NEW r \in Rows, NEW c, Saw(s, r, c)
      PROVE  paused' = paused /\ pausedBy' = pausedBy
  BY <1>3 DEF Saw, tables
<1>4. ASSUME NEW s \in Slots, NEW p \in People, NEW a, FeedWalk(s, p) \/ ByHandCall(s, p, a)
      PROVE  paused' = paused /\ pausedBy' = pausedBy
  BY <1>4 DEF FeedWalk, ByHandCall, tables
<1>5. ASSUME NEW p \in People, NEW a \in Accounts, NEW r \in Rows, Request(p, a, r) \/ Reassign(r, a)
      PROVE  paused' = paused /\ pausedBy' = pausedBy
  BY <1>5 DEF Request, Reassign
<1>6. ASSUME NEW r \in Rows, Prepare(r) PROVE paused' = paused /\ pausedBy' = pausedBy
  BY <1>6 DEF Prepare, tables
<1>7. ASSUME NEW x, Visit(x) \/ Begin(x) \/ Respond(x) PROVE paused' = paused /\ pausedBy' = pausedBy
  BY <1>7 DEF Visit, Begin, Respond, tables
<1>8. ASSUME Finish \/ Die \/ Hear \/ UNCHANGED vars PROVE paused' = paused /\ pausedBy' = pausedBy
  BY <1>8 DEF Finish, Die, Hear, tables, vars
<1>9. ASSUME NEW r \in Rows, NEW a \in Accounts, Reassign(r, a)
      PROVE  paused' = paused /\ pausedBy' = pausedBy
  BY <1>9 DEF Reassign
<1> QED
  BY StepCases, <1>1, <1>2, <1>3, <1>4, <1>5, <1>6, <1>7, <1>8, <1>9

\* Which steps count.
LEMMA CountWriters ==
  ASSUME [Next]_vars
  PROVE  \/ spent' = spent /\ billed' = billed
         \/ \E s \in Slots : Commit(s)
         \/ NewDay
<1>1. ASSUME NEW s \in Slots,
             \/ Enter(s) \/ ReadStatus(s) \/ MoveRow(s) \/ SentRead(s) \/ HeldRead(s)
             \/ HeldPause(s) \/ HeldRecord(s) \/ MarkSkipped(s) \/ DeleteRow(s)
             \/ ByHandInsert(s) \/ Fail(s) \/ Report(s)
      PROVE  spent' = spent /\ billed' = billed
  BY <1>1 DEF Enter, ReadStatus, MoveRow, SentRead, HeldRead, HeldPause, HeldRecord,
              MarkSkipped, DeleteRow, ByHandInsert, Fail, Report, tables
<1>2. ASSUME NEW s \in Slots, NEW r \in Rows,
             \/ FeedInsert(s, r) \/ ByHandRead(s, r) \/ CancelCall(s, r)
      PROVE  spent' = spent /\ billed' = billed
  BY <1>2 DEF FeedInsert, ByHandRead, CancelCall, tables
<1>3. ASSUME NEW s \in Slots, NEW r \in Rows, NEW c, Saw(s, r, c)
      PROVE  spent' = spent /\ billed' = billed
  BY <1>3 DEF Saw, tables
<1>4. ASSUME NEW s \in Slots, NEW p \in People, FeedWalk(s, p)
      PROVE  spent' = spent /\ billed' = billed
  BY <1>4 DEF FeedWalk, tables
<1>5. ASSUME NEW s \in Slots, NEW p \in People, NEW a, ByHandCall(s, p, a)
      PROVE  spent' = spent /\ billed' = billed
  BY <1>5 DEF ByHandCall, tables
<1>6. ASSUME NEW p \in People, NEW a \in Accounts, NEW r \in Rows, Request(p, a, r)
      PROVE  spent' = spent /\ billed' = billed
  BY <1>6 DEF Request, tables
<1>7. ASSUME NEW r \in Rows, NEW a \in Accounts, Reassign(r, a)
      PROVE  spent' = spent /\ billed' = billed
  BY <1>7 DEF Reassign, tables
<1>8. ASSUME NEW r \in Rows, Prepare(r) PROVE spent' = spent /\ billed' = billed
  BY <1>8 DEF Prepare, tables
<1>9. ASSUME NEW x, Visit(x) \/ Begin(x) \/ Warn(x) \/ Respond(x)
      PROVE  spent' = spent /\ billed' = billed
  BY <1>9 DEF Visit, Begin, Warn, Respond, tables
<1>10. ASSUME Finish \/ Die \/ Hear \/ UNCHANGED vars PROVE spent' = spent /\ billed' = billed
  BY <1>10 DEF Finish, Die, Hear, vars, tables
<1> QED
  BY StepCases, <1>1, <1>2, <1>3, <1>4, <1>5, <1>6, <1>7, <1>8, <1>9, <1>10

\* Which steps mark a person of the folder.
LEMMA SkippedWriters ==
  ASSUME [Next]_vars
  PROVE  \/ skipped' = skipped
         \/ \E s \in Slots : MarkSkipped(s)
<1>1. ASSUME NEW s \in Slots,
             \/ Enter(s) \/ ReadStatus(s) \/ MoveRow(s) \/ Commit(s) \/ SentRead(s)
             \/ HeldRead(s) \/ HeldPause(s) \/ HeldRecord(s) \/ DeleteRow(s) \/ ByHandInsert(s)
             \/ Fail(s) \/ Report(s)
      PROVE  skipped' = skipped
  BY <1>1 DEF Enter, ReadStatus, MoveRow, Commit, SentRead, HeldRead, HeldPause,
              HeldRecord, DeleteRow, ByHandInsert, Fail, Report, tables
<1>2. ASSUME NEW s \in Slots, NEW r \in Rows,
             \/ FeedInsert(s, r) \/ ByHandRead(s, r) \/ CancelCall(s, r)
      PROVE  skipped' = skipped
  BY <1>2 DEF FeedInsert, ByHandRead, CancelCall, tables
<1>3. ASSUME NEW s \in Slots, NEW r \in Rows, NEW c, Saw(s, r, c) PROVE skipped' = skipped
  BY <1>3 DEF Saw, tables
<1>4. ASSUME NEW s \in Slots, NEW p \in People, FeedWalk(s, p) PROVE skipped' = skipped
  BY <1>4 DEF FeedWalk, tables
<1>5. ASSUME NEW s \in Slots, NEW p \in People, NEW a, ByHandCall(s, p, a)
      PROVE  skipped' = skipped
  BY <1>5 DEF ByHandCall, tables
<1>6. ASSUME NEW p \in People, NEW a \in Accounts, NEW r \in Rows, Request(p, a, r)
      PROVE  skipped' = skipped
  BY <1>6 DEF Request, tables
<1>7. ASSUME NEW r \in Rows, NEW a \in Accounts, Reassign(r, a) PROVE skipped' = skipped
  BY <1>7 DEF Reassign, tables
<1>8. ASSUME NEW r \in Rows, Prepare(r) PROVE skipped' = skipped
  BY <1>8 DEF Prepare, tables
<1>9. ASSUME NEW x, Visit(x) \/ Begin(x) \/ Warn(x) \/ Respond(x) PROVE skipped' = skipped
  BY <1>9 DEF Visit, Begin, Warn, Respond, tables
<1>10. ASSUME Finish \/ Die \/ Hear \/ NewDay \/ UNCHANGED vars PROVE skipped' = skipped
  BY <1>10 DEF Finish, Die, Hear, NewDay, vars, tables
<1> QED
  BY StepCases, <1>1, <1>2, <1>3, <1>4, <1>5, <1>6, <1>7, <1>8, <1>9, <1>10

\* The day passes by itself.
LEMMA DayWriters ==
  ASSUME [Next]_vars
  PROVE  \/ day' = day
         \/ NewDay
<1>1. ASSUME NEW s \in Slots,
             \/ Enter(s) \/ ReadStatus(s) \/ MoveRow(s) \/ Commit(s) \/ SentRead(s)
             \/ HeldRead(s) \/ HeldPause(s) \/ HeldRecord(s) \/ MarkSkipped(s) \/ DeleteRow(s)
             \/ ByHandInsert(s) \/ Fail(s) \/ Report(s)
      PROVE  day' = day
  BY <1>1 DEF Enter, ReadStatus, MoveRow, Commit, SentRead, HeldRead, HeldPause,
              HeldRecord, MarkSkipped, DeleteRow, ByHandInsert, Fail, Report, tables
<1>2. ASSUME NEW s \in Slots, NEW r \in Rows,
             \/ FeedInsert(s, r) \/ ByHandRead(s, r) \/ CancelCall(s, r)
      PROVE  day' = day
  BY <1>2 DEF FeedInsert, ByHandRead, CancelCall, tables
<1>3. ASSUME NEW s \in Slots, NEW r \in Rows, NEW c, Saw(s, r, c) PROVE day' = day
  BY <1>3 DEF Saw, tables
<1>4. ASSUME NEW s \in Slots, NEW p \in People, FeedWalk(s, p) PROVE day' = day
  BY <1>4 DEF FeedWalk, tables
<1>5. ASSUME NEW s \in Slots, NEW p \in People, NEW a, ByHandCall(s, p, a) PROVE day' = day
  BY <1>5 DEF ByHandCall, tables
<1>6. ASSUME NEW p \in People, NEW a \in Accounts, NEW r \in Rows, Request(p, a, r)
      PROVE  day' = day
  BY <1>6 DEF Request, tables
<1>7. ASSUME NEW r \in Rows, NEW a \in Accounts, Reassign(r, a) PROVE day' = day
  BY <1>7 DEF Reassign, tables
<1>8. ASSUME NEW r \in Rows, Prepare(r) PROVE day' = day
  BY <1>8 DEF Prepare, tables
<1>9. ASSUME NEW x, Visit(x) \/ Begin(x) \/ Warn(x) \/ Respond(x) PROVE day' = day
  BY <1>9 DEF Visit, Begin, Warn, Respond, tables
<1>10. ASSUME Finish \/ Die \/ Hear \/ UNCHANGED vars PROVE day' = day
  BY <1>10 DEF Finish, Die, Hear, vars, tables
<1> QED
  BY StepCases, <1>1, <1>2, <1>3, <1>4, <1>5, <1>6, <1>7, <1>8, <1>9, <1>10

\* What LinkedIn shows changes by a visit, by a seller's click and by itself.
LEMMA LinkedinWriters ==
  ASSUME [Next]_vars
  PROVE  \/ linkedin' = linkedin
         \/ \E s \in Slots, p \in People, a \in Accounts : ByHandCall(s, p, a)
         \/ \E o \in Outcomes \cup {"already_pending", "already_connected"} : Visit(o)
         \/ \E x \in Accounts \X People : Respond(x)
<1>1. ASSUME NEW s \in Slots,
             \/ Enter(s) \/ ReadStatus(s) \/ MoveRow(s) \/ Commit(s) \/ SentRead(s)
             \/ HeldRead(s) \/ HeldPause(s) \/ HeldRecord(s) \/ MarkSkipped(s) \/ DeleteRow(s)
             \/ ByHandInsert(s) \/ Fail(s) \/ Report(s)
      PROVE  linkedin' = linkedin
  BY <1>1 DEF Enter, ReadStatus, MoveRow, Commit, SentRead, HeldRead, HeldPause,
              HeldRecord, MarkSkipped, DeleteRow, ByHandInsert, Fail, Report, tables
<1>2. ASSUME NEW s \in Slots, NEW r \in Rows,
             \/ FeedInsert(s, r) \/ ByHandRead(s, r) \/ CancelCall(s, r)
      PROVE  linkedin' = linkedin
  BY <1>2 DEF FeedInsert, ByHandRead, CancelCall, tables
<1>3. ASSUME NEW s \in Slots, NEW r \in Rows, NEW c, Saw(s, r, c) PROVE linkedin' = linkedin
  BY <1>3 DEF Saw, tables
<1>4. ASSUME NEW s \in Slots, NEW p \in People, FeedWalk(s, p) PROVE linkedin' = linkedin
  BY <1>4 DEF FeedWalk, tables
<1>5. ASSUME NEW p \in People, NEW a \in Accounts, NEW r \in Rows, Request(p, a, r)
      PROVE  linkedin' = linkedin
  BY <1>5 DEF Request, tables
<1>6. ASSUME NEW r \in Rows, NEW a \in Accounts, Reassign(r, a) PROVE linkedin' = linkedin
  BY <1>6 DEF Reassign, tables
<1>7. ASSUME NEW r \in Rows, Prepare(r) PROVE linkedin' = linkedin
  BY <1>7 DEF Prepare, tables
<1>8. ASSUME NEW x, Begin(x) \/ Warn(x) PROVE linkedin' = linkedin
  BY <1>8 DEF Begin, Warn, tables
<1>9. ASSUME Finish \/ Die \/ Hear \/ NewDay \/ UNCHANGED vars PROVE linkedin' = linkedin
  BY <1>9 DEF Finish, Die, Hear, NewDay, vars, tables
<1> QED
  BY StepCases, <1>1, <1>2, <1>3, <1>4, <1>5, <1>6, <1>7, <1>8, <1>9

LEMMA StepSundry ==
  ASSUME Shape, [Next]_vars
  PROVE  Sundry' /\ log' \in [Rows -> Seq(EventShape)]
<1>1. Sundry
  BY DEF Shape, Shapes, Sundry
<1>2. log' \in [Rows -> Seq(EventShape)]
  BY LogWriters, OneFailure DEF NothingFailed
<1>3. skipped' \subseteq People
  <2>1. ASSUME NEW s \in Slots, MarkSkipped(s) PROVE skipped' \subseteq People
    <3>1. job[s].row \in Rows /\ ~New(job[s].row)
      BY <2>1, MarkDoes
    <3>2. row[job[s].row].person \in People
      BY <3>1 DEF Shape, RowsOK
    <3> QED
      BY <1>1, <2>1, <3>2 DEF MarkSkipped, Sundry
  <2> QED
    BY <1>1, <2>1, SkippedWriters DEF Sundry
<1>4. paused' \subseteq Accounts /\ pausedBy' \in [Accounts -> (Rows \cup {None}) \X Nat]
  <2>1. ASSUME NEW s \in Slots, HeldPause(s)
        PROVE  paused' \subseteq Accounts /\ pausedBy' \in [Accounts -> (Rows \cup {None}) \X Nat]
    <3>1. PICK j : j = job[s]
      OBVIOUS
    <3>2. j.row \in Rows /\ j.account \in Accounts /\ j.lease \in Nat
      BY <2>1, <3>1, PauseDoes, WhereFrom DEF JobShape
    <3> QED
      BY <1>1, <2>1, <3>1, <3>2 DEF HeldPause, Sundry
  <2>2. ASSUME NEW a \in Accounts, Warn(a)
        PROVE  paused' \subseteq Accounts /\ pausedBy' \in [Accounts -> (Rows \cup {None}) \X Nat]
    BY <1>1, <2>2 DEF Warn, Sundry
  <2>3. ASSUME NewDay
        PROVE  paused' \subseteq Accounts /\ pausedBy' \in [Accounts -> (Rows \cup {None}) \X Nat]
    BY <1>1, <2>3 DEF NewDay, Sundry
  <2> QED
    BY <1>1, <2>1, <2>2, <2>3, PauseWriters DEF Sundry
<1>5. spent' \in [Accounts -> Nat] /\ billed' \in [Rows -> Nat]
  <2>1. ASSUME NEW s \in Slots, Commit(s)
        PROVE  spent' \in [Accounts -> Nat] /\ billed' \in [Rows -> Nat]
    BY <1>1, <2>1 DEF Commit, Sundry
  <2>2. ASSUME NewDay PROVE spent' \in [Accounts -> Nat] /\ billed' \in [Rows -> Nat]
    BY <1>1, <2>2 DEF NewDay, Sundry
  <2> QED
    BY <1>1, <2>1, <2>2, CountWriters DEF Sundry
<1>6. day' \in Nat
  BY <1>1, DayWriters DEF NewDay, Sundry
<1>7. linkedin' \in [Accounts \X People -> {"none", "pending", "connected", "gone"}]
  <2>1. ASSUME NEW s \in Slots, NEW p \in People, NEW a \in Accounts, ByHandCall(s, p, a)
        PROVE  linkedin' \in [Accounts \X People -> {"none", "pending", "connected", "gone"}]
    BY <1>1, <2>1 DEF ByHandCall, Sundry
  <2>2. ASSUME NEW o \in Outcomes \cup {"already_pending", "already_connected"}, Visit(o)
        PROVE  linkedin' \in [Accounts \X People -> {"none", "pending", "connected", "gone"}]
    BY <1>1, <2>2 DEF Visit, Sundry
  <2>3. ASSUME NEW x \in Accounts \X People, Respond(x)
        PROVE  linkedin' \in [Accounts \X People -> {"none", "pending", "connected", "gone"}]
    BY <1>1, <2>3 DEF Respond, Sundry
  <2> QED
    BY <1>1, <2>1, <2>2, <2>3, LinkedinWriters DEF Sundry
<1> QED
  BY <1>2, <1>3, <1>4, <1>5, <1>6, <1>7 DEF Sundry

LEMMA InitShape ==
  ASSUME Init
  PROVE  Shape
<1>1. NewRow \in RowShape /\ NewRow.status = "new"
  BY DEF NewRow, RowShape, Statuses
<1>2. NoSession \in AgentShape /\ NoSession.at = "home" /\ NoSession.answer = None /\ NoSession.try = 0
  BY DEF NoSession, AgentShape, Outs
<1>3. Shapes
  <2>1. row \in [Rows -> RowShape] /\ agent \in AgentShape /\ job \in [Slots -> JobShape]
    BY <1>1, <1>2, IdleJob DEF Init
  <2>2. log \in [Rows -> Seq(EventShape)]
    BY DEF Init
  <2>3. pausedBy \in [Accounts -> (Rows \cup {None}) \X Nat]
    BY DEF Init
  <2> QED
    BY <2>1, <2>2, <2>3 DEF Init, Shapes
<1>4. AgentOK
  BY <1>2 DEF Init, AgentOK
<1>5. RowsOK
  BY <1>1 DEF Init, RowsOK, New
<1> QED
  BY <1>3, <1>4, <1>5, IdleJob DEF Init, Shape

LEMMA StepShape ==
  ASSUME Shape, [Next]_vars
  PROVE  Shape'
<1>1. RowsKept /\ RowsFit /\ Sundry' /\ log' \in [Rows -> Seq(EventShape)]
  BY StepRows, StepSundry
<1> QED
  BY <1>1, StepKinds, ServesShape, AsksShape, WalksShape

-----------------------------------------------------------------------------
(* The turns are kept.                                                     *)

\* A pair of requests neither of which is the one that moves, or one of which is.
LEMMA TurnsByPairs ==
  ASSUME Turns, NEW s \in Slots, Others(s),
         \A t \in Slots : t # s =>
           /\ InTurn(job'[s], job[t]) /\ InTurn(job[t], job'[s])
           /\ OneQuestion(job'[s], job[t]) /\ OneQuestion(job[t], job'[s]),
         \A t \in Slots : Asked(job[t])'
  PROVE  Turns'
<1>1. ASSUME NEW t \in Slots, NEW u \in Slots, t # u
      PROVE  InTurn(job'[t], job'[u]) /\ OneQuestion(job'[t], job'[u])
  <2>1. CASE t = s
    BY <1>1, <2>1 DEF Others
  <2>2. CASE u = s
    BY <1>1, <2>2 DEF Others
  <2>3. CASE t # s /\ u # s
    BY <1>1, <2>3 DEF Others, Turns
  <2> QED
    BY <2>1, <2>2, <2>3
<1> QED
  BY <1>1 DEF Turns, InTurn, OneQuestion, SameTurn, CameFirst, Active

LEMMA TurnFields ==
  ASSUME Shape, NEW s \in Slots
  PROVE  LET j == job[s] IN
         /\ j.lease \in Nat /\ j.try \in Nat
         /\ j.lease > 0 <=> j.kind \in {"sent", "held"}
         /\ j.kind = "sent" => j.outcome \notin HeldOutcomes
         /\ j.kind = "held" => j.outcome \in HeldOutcomes
<1> DEFINE j == job[s]
<1>1. j \in JobShape /\ JobOK(j)
  BY WhereFrom
<1>2. j.lease \in Nat /\ j.try \in Nat
  BY <1>1 DEF JobShape
<1> HIDE DEF j
<1>3. /\ j.lease > 0 <=> j.kind \in {"sent", "held"}
      /\ j.kind = "sent" => j.outcome \notin HeldOutcomes
      /\ j.kind = "held" => j.outcome \in HeldOutcomes
  BY <1>1, <1>2 DEF JobOK
<1> QED
  BY <1>2, <1>3 DEF j

\* A request that steps keeps the turn that is its own.
LEMMA GoesTurns ==
  ASSUME Shape, Turns, NEW s \in Slots, Goes(s)
  PROVE  Turns'
<1>1. PICK j : j = job[s]
  OBVIOUS
<1>2. PICK k : k = job'[s]
  OBVIOUS
<1>3. /\ SameAs(j, k) /\ Active(k) /\ Others(s) /\ agent' = agent
      /\ Active(j) \/ (j.pc = "queued" /\ MyTurn(s))
  BY <1>1, <1>2 DEF Goes
<1>4. k.row = j.row \/ j.kind = "byhand"
  BY <1>1, <1>2 DEF Goes
<1>5. ASSUME NEW t \in Slots, t # s
      PROVE  /\ InTurn(k, job[t]) /\ InTurn(job[t], k)
             /\ OneQuestion(k, job[t]) /\ OneQuestion(job[t], k)
  <2>1. PICK i : i = job[t]
    OBVIOUS
  <2>2. InTurn(j, i) /\ InTurn(i, j) /\ OneQuestion(j, i) /\ OneQuestion(i, j)
    BY <1>1, <1>5, <2>1 DEF Turns
  <2>3. /\ SameTurn(k, i) => SameTurn(j, i)
        /\ SameTurn(i, k) => SameTurn(i, j) /\ SameTurn(j, i)
    BY <1>3, <1>4 DEF SameAs, SameTurn
  <2>4. CameFirst(i, k) = CameFirst(i, j) /\ CameFirst(k, i) = CameFirst(j, i)
    BY <1>3 DEF SameAs, CameFirst
  <2>5. SameTurn(j, i) => ~Active(i) /\ ~CameFirst(i, j)
    <3>1. CASE Active(j)
      BY <2>2, <3>1 DEF InTurn
    <3>2. CASE ~Active(j)
      <4>1. j.pc = "queued" /\ MyTurn(s)
        BY <1>3, <3>2
      <4>2. SameTurn(i, j) => i.pc = "queued" /\ ~CameFirst(i, j)
        BY <1>1, <1>5, <2>1, <4>1 DEF MyTurn
      <4>3. SameTurn(j, i) => SameTurn(i, j)
        BY DEF SameTurn
      <4> QED
        BY <4>2, <4>3 DEF Active
    <3> QED
      BY <3>1, <3>2
  <2>6. InTurn(k, i) /\ InTurn(i, k)
    BY <2>3, <2>4, <2>5 DEF InTurn
  <2>7. OneQuestion(k, i) /\ OneQuestion(i, k)
    <3>1. j.lease > 0 => j.kind # "byhand"
      BY <1>1, TurnFields
    <3> QED
      BY <1>3, <1>4, <2>2, <3>1 DEF OneQuestion, SameAs
  <2> QED
    BY <2>1, <2>6, <2>7
<1>6. ASSUME NEW t \in Slots PROVE Asked(job[t])'
  <2>1. CASE t # s
    BY <1>3, <2>1 DEF Turns, Asked, Others
  <2>2. CASE t = s
    <3>1. Asked(j)
      BY <1>1 DEF Turns
    <3>2. j.lease > 0 => j.kind # "byhand"
      BY <1>1, TurnFields
    <3> QED
      BY <1>2, <1>3, <1>4, <2>2, <3>1, <3>2 DEF Asked, SameAs
  <2> QED
    BY <2>1, <2>2
<1> QED
  BY <1>2, <1>3, <1>5, <1>6, TurnsByPairs

LEMMA IdleTurns ==
  ASSUME NEW i
  PROVE  InTurn(Idle, i) /\ InTurn(i, Idle) /\ OneQuestion(Idle, i)
         /\ (i.lease \in Nat => OneQuestion(i, Idle))
BY DEF Idle, InTurn, OneQuestion, SameTurn, Counting

\* An answer that ends the question leaves no other attempt at it in hand.
LEMMA EndsTurns ==
  ASSUME Shape, Turns, NEW s \in Slots, NEW ans \in Agreed \cup {"error"}, Ends(s, ans), RowsKept
  PROVE  Turns'
<1>1. PICK j : j = job[s]
  OBVIOUS
<1>2. job'[s] = Idle /\ Others(s) /\ (Active(j) \/ ans = "error")
  BY <1>1 DEF Ends
<1>3. ASSUME NEW t \in Slots, t # s
      PROVE  /\ InTurn(job'[s], job[t]) /\ InTurn(job[t], job'[s])
             /\ OneQuestion(job'[s], job[t]) /\ OneQuestion(job[t], job'[s])
  BY <1>2, IdleTurns, TurnFields
<1>4. agent.lease \in Nat /\ agent.try \in Nat
  BY DEF Shape, Shapes, AgentShape
<1>5. ASSUME NEW t \in Slots PROVE Asked(job[t])'
  <2>1. PICK i : i = job'[t]
    OBVIOUS
  <2>2. CASE t = s
    <3>1. i.lease = 0
      BY <1>2, <2>1, <2>2 DEF Idle
    <3>2. agent'.lease = agent.lease
      BY AgentTold DEF Ends
    <3> QED
      BY <1>4, <2>1, <3>1, <3>2 DEF Asked
  <2>3. CASE t # s /\ agent' = agent
    BY <1>2, <2>3 DEF Turns, Asked, Others
  <2>4. CASE t # s /\ agent' # agent
    <3>1. /\ agent.at = "asked" /\ agent.lease = j.lease /\ agent.try = j.try
          /\ agent'.at = agent.at /\ agent'.lease = agent.lease /\ agent'.account = agent.account
          /\ agent'.row = agent.row /\ agent'.outcome = agent.outcome /\ agent'.try = agent.try
          /\ agent'.answer = ans
      BY <1>1, <2>4, AgentTold DEF Ends
    <3>2. i = job[t] /\ Asked(i)
      BY <1>2, <2>1, <2>4 DEF Others, Turns
    <3>3. i.lease > 0 /\ i.lease = agent.lease => ans = "error"
      <4> SUFFICES ASSUME i.lease > 0, i.lease = agent.lease, ans # "error" PROVE FALSE
        OBVIOUS
      <4>1. OneQuestion(j, i) /\ InTurn(j, i)
        BY <1>1, <2>4, <3>2 DEF Turns
      <4>2. i.lease = j.lease /\ j.lease > 0
        BY <3>1
      <4>3. i.kind = j.kind /\ i.account = j.account /\ i.row = j.row /\ i.try # j.try
        BY <4>1, <4>2 DEF OneQuestion
      <4>4. j.kind \in {"sent", "held"}
        BY <1>1, <4>2, TurnFields
      <4>5. SameTurn(j, i)
        BY <4>3, <4>4 DEF SameTurn, Counting
      <4>6. ~CameFirst(i, j)
        BY <1>2, <4>1, <4>5 DEF InTurn
      <4>7. i.try <= j.try
        BY <3>1, <3>2 DEF Asked
      <4>8. i.try \in Nat /\ j.try \in Nat
        BY <1>1, <3>2, TurnFields
      <4> QED
        BY <4>2, <4>3, <4>6, <4>7, <4>8 DEF CameFirst
    <3>4. "error" \notin Agreed
      BY DEF Agreed
    <3> QED
      BY <2>1, <3>1, <3>2, <3>3, <3>4 DEF Asked
  <2> QED
    BY <2>2, <2>3, <2>4
<1> QED
  BY <1>2, <1>3, <1>5, TurnsByPairs

LEMMA TakesTurns ==
  ASSUME Shape, Turns, NEW s \in Slots, Takes(s)
  PROVE  Turns'
<1>1. PICK k : k = job'[s]
  OBVIOUS
<1>2. /\ k.kind \in {"feed", "cancel", "check", "reply", "byhand"} /\ JobOK(k)
      /\ k.kind = "byhand" => k.pc = "queued"
  BY <1>1 DEF Takes, Fits
<1>3. k.lease = 0
  BY <1>2 DEF JobOK
<1>4. Others(s) /\ agent' = agent
  BY DEF Takes
<1>5. ASSUME NEW t \in Slots, t # s
      PROVE  /\ InTurn(k, job[t]) /\ InTurn(job[t], k)
             /\ OneQuestion(k, job[t]) /\ OneQuestion(job[t], k)
  <2>1. PICK i : i = job[t]
    OBVIOUS
  <2>2. i.lease \in Nat
    BY <2>1, TurnFields
  <2>3. SameTurn(k, i) \/ SameTurn(i, k) => ~Active(k)
    BY <1>2 DEF SameTurn, Active, Counting
  <2>4. ~CameFirst(k, i)
    BY <1>3 DEF CameFirst
  <2> QED
    BY <1>3, <2>1, <2>2, <2>3, <2>4 DEF InTurn, OneQuestion
<1>6. ASSUME NEW t \in Slots PROVE Asked(job[t])'
  <2>1. agent.lease \in Nat
    BY DEF Shape, Shapes, AgentShape
  <2>2. CASE t = s
    BY <1>1, <1>3, <1>4, <2>1, <2>2 DEF Asked
  <2>3. CASE t # s
    BY <1>4, <2>3 DEF Turns, Asked, Others
  <2> QED
    BY <2>2, <2>3
<1> QED
  BY <1>1, <1>4, <1>5, <1>6, TurnsByPairs

\* A new attempt comes after every other.
LEMMA AsksTurns ==
  ASSUME Shape, Turns, NEW s \in Slots, Asks(s)
  PROVE  Turns'
<1>1. PICK k : k = job'[s]
  OBVIOUS
<1>2. /\ k.kind = (IF agent.outcome \in HeldOutcomes THEN "held" ELSE "sent")
      /\ k.pc = "queued" /\ k.lease = agent.lease /\ k.try = agent.try + 1
      /\ k.account = agent.account /\ k.row = agent.row /\ k.outcome = agent.outcome
  BY <1>1 DEF Asks
<1>3. /\ Others(s) /\ agent'.at = "asked" /\ agent'.answer = None
      /\ agent'.try = agent.try + 1 /\ agent'.lease = agent.lease /\ agent'.account = agent.account
      /\ agent'.row = agent.row /\ agent'.outcome = agent.outcome
      /\ agent.at = "clicked" \/ (agent.at = "asked" /\ agent.answer \notin Agreed)
  BY DEF Asks
<1>4. agent.lease \in Nat /\ agent.try \in Nat
  BY DEF Shape, Shapes, AgentShape
<1>5. ASSUME NEW t \in Slots, t # s
      PROVE  /\ InTurn(k, job[t]) /\ InTurn(job[t], k)
             /\ OneQuestion(k, job[t]) /\ OneQuestion(job[t], k)
  <2>1. PICK i : i = job[t]
    OBVIOUS
  <2>2. /\ i.lease \in Nat /\ i.try \in Nat /\ (i.lease > 0 <=> i.kind \in {"sent", "held"})
        /\ (i.kind = "sent" => i.outcome \notin HeldOutcomes)
        /\ (i.kind = "held" => i.outcome \in HeldOutcomes)
    BY <2>1, TurnFields
  <2>3. Asked(i)
    BY <2>1 DEF Turns
  <2>4. i.lease <= agent.lease
    BY <2>3 DEF Asked
  <2>5. i.lease > 0 /\ i.lease = agent.lease =>
          i.row = k.row /\ i.account = k.account /\ i.outcome = k.outcome /\ i.try < k.try
    BY <1>2, <1>3, <1>4, <2>2, <2>3 DEF Asked
  <2>6. ~CameFirst(k, i)
    BY <1>2, <1>4, <2>2, <2>4, <2>5 DEF CameFirst
  <2>7. ~Active(k)
    BY <1>2 DEF Active
  <2>8. i.lease > 0 /\ i.lease = agent.lease => i.kind = k.kind /\ i.try # k.try
    BY <1>2, <1>4, <2>2, <2>5
  <2> QED
    BY <1>2, <2>1, <2>5, <2>6, <2>7, <2>8 DEF InTurn, OneQuestion
<1>6. ASSUME NEW t \in Slots PROVE Asked(job[t])'
  <2>1. None \notin Agreed
    BY DEF None, Agreed
  <2>2. CASE t = s
    BY <1>1, <1>2, <1>3, <1>4, <2>1, <2>2 DEF Asked
  <2>3. CASE t # s
    <3>1. PICK i : i = job[t]
      OBVIOUS
    <3>2. Asked(i) /\ i = job'[t] /\ i.try \in Nat
      BY <1>3, <2>3, <3>1, TurnFields DEF Turns, Others
    <3> QED
      BY <1>3, <1>4, <2>1, <3>2 DEF Asked
  <2> QED
    BY <2>2, <2>3
<1> QED
  BY <1>1, <1>3, <1>5, <1>6, TurnsByPairs

\* The session goes on when nothing it asked is in hand any more.
LEMMA WalksTurns ==
  ASSUME Shape, Turns, Walks
  PROVE  Turns'
<1>1. ASSUME NEW t \in Slots PROVE Asked(job[t])'
  <2>1. Asked(job[t]) /\ job' = job
    BY DEF Turns, Walks
  <2>2. job[t].lease \in Nat /\ agent.lease \in Nat
    BY TurnFields DEF Shape, Shapes, AgentShape
  <2> QED
    BY <2>1, <2>2 DEF Asked, Walks
<1> QED
  BY <1>1 DEF Turns, Walks

LEMMA InitTurns ==
  ASSUME Init
  PROVE  Turns
<1>1. \A s \in Slots : job[s] = Idle
  BY DEF Init
<1>2. agent.lease = 0
  BY DEF Init, NoSession
<1>3. Idle.lease = 0
  BY DEF Idle
<1>4. Asked(Idle)
  BY <1>2, <1>3 DEF Asked
<1> QED
  BY <1>1, <1>3, <1>4, IdleTurns DEF Turns

LEMMA StepTurns ==
  ASSUME Shape, Turns, [Next]_vars
  PROVE  Turns'
<1>1. RowsKept
  BY StepRows
<1>2. job' = job /\ agent' = agent => Turns'
  BY DEF Turns, Asked
<1> QED
  BY <1>1, <1>2, StepKinds, GoesTurns, EndsTurns, TakesTurns, AsksTurns, WalksTurns DEF Serves

-----------------------------------------------------------------------------
(* The ledger: one row per person, and the row only goes forward.          *)

LEMMA HeldBy ==
  ASSUME NEW r \in Rows, NEW p
  PROVE  r \in RowOf(p) <=> Exists(r) /\ row[r].person = p
BY DEF RowOf

\* The stage of a person is the status of the one row about them.
LEMMA StageIs ==
  ASSUME OnePerPerson, NEW r \in Rows, Exists(r), NEW p, p = row[r].person
  PROVE  RowOf(p) = {r} /\ StageOf(p) = row[r].status
<1>1. RowOf(p) = {r}
  BY DEF OnePerPerson, RowOf
<1> QED
  BY <1>1 DEF StageOf

LEMMA StageIsThen ==
  ASSUME OnePerPerson', NEW r \in Rows, Exists(r)', NEW p, p = row'[r].person
  PROVE  RowOf(p)' = {r} /\ StageOf(p)' = row'[r].status
<1>1. RowOf(p)' = {r}
  BY DEF OnePerPerson, RowOf
<1> QED
  BY <1>1 DEF StageOf

LEMMA StageFree ==
  ASSUME NEW p, RowOf(p) = {}
  PROVE  StageOf(p) = "free"
BY DEF StageOf

\* Rows that keep their status, person and answer keep the ledger.
LEMMA LedgerStays ==
  ASSUME Forward, Forward',
         \A q \in Rows : /\ row'[q].status = row[q].status /\ row'[q].person = row[q].person
                         /\ row'[q].replied = row[q].replied
  PROVE  UNCHANGED Ledger!vars
<1>1. \A r \in Rows : Exists(r)' = Exists(r)
  BY DEF Exists
<1>2. \A p \in People : RowOf(p)' = RowOf(p)
  BY <1>1 DEF RowOf
<1>3. ASSUME NEW p \in People PROVE StageOf(p)' = StageOf(p)
  <2>1. CASE RowOf(p) = {}
    BY <1>2, <2>1 DEF StageOf
  <2>2. CASE RowOf(p) # {}
    <3>1. PICK r \in Rows : r \in RowOf(p)
      BY <2>2 DEF RowOf
    <3>2. Exists(r) /\ row[r].person = p
      BY <3>1, HeldBy
    <3>3. Exists(r)' /\ row'[r].person = p
      BY <1>1, <3>2
    <3>4. StageOf(p) = row[r].status
      BY <3>2, StageIs DEF Forward
    <3>5. StageOf(p)' = row'[r].status
      BY <3>3, StageIsThen DEF Forward
    <3> QED
      BY <3>4, <3>5
  <2> QED
    BY <2>1, <2>2
<1>4. Answered' = Answered
  BY <1>2 DEF Answered, RowOf
<1> QED
  BY <1>3, <1>4 DEF Ledger!vars

\* One row added, moved on or let go is one step of the ledger.
LEMMA LedgerMoves ==
  ASSUME Forward, Forward', NEW r \in Rows, NEW p \in People, NEW x \in Ledger!Stages,
         \A q \in Rows : q # r => row'[q] = row[q],
         RowOf(p) = {} \/ (Exists(r) /\ row[r].person = p),
         Exists(r) => row[r].person = p,
         row'[r].person = p, x \in Ledger!After[StageOf(p)],
         IF x = "free" THEN ~Exists(r)' ELSE Exists(r)' /\ row'[r].status = x,
         Exists(r)' => (row'[r].replied <=> (x = "connected" \/ (Exists(r) /\ row[r].replied))),
         x = "free" => ~row[r].replied \/ ~Exists(r)
  PROVE  Ledger!Next
<1>1. \A q \in Rows : q # r => Exists(q)' = Exists(q)
  BY DEF Exists
<1>2. ASSUME NEW u \in People, u # p PROVE RowOf(u)' = RowOf(u) /\ StageOf(u)' = StageOf(u)
  <2>1. RowOf(u)' = RowOf(u)
    BY <1>1, <1>2 DEF RowOf
  <2>2. CASE RowOf(u) = {}
    BY <2>1, <2>2 DEF StageOf
  <2>3. CASE RowOf(u) # {}
    <3>1. PICK q \in Rows : q \in RowOf(u)
      BY <2>3 DEF RowOf
    <3>2. Exists(q) /\ row[q].person = u
      BY <3>1, HeldBy
    <3>3. q # r
      BY <1>2, <3>2
    <3>4. Exists(q)' /\ row'[q].person = u
      BY <1>1, <3>2, <3>3
    <3>5. StageOf(u) = row[q].status
      BY <3>2, StageIs DEF Forward
    <3>6. StageOf(u)' = row'[q].status
      BY <3>4, StageIsThen DEF Forward
    <3> QED
      BY <2>1, <3>3, <3>5, <3>6
  <2> QED
    BY <2>1, <2>2, <2>3
<1>3. StageOf(p)' = x
  <2>1. CASE x = "free"
    <3>1. \A q \in Rows : q # r => ~(Exists(q) /\ row[q].person = p)
      BY DEF RowOf, Forward, OnePerPerson
    <3>2. RowOf(p)' = {}
      BY <1>1, <2>1, <3>1 DEF RowOf
    <3> QED
      BY <2>1, <3>2 DEF StageOf
  <2>2. CASE x # "free"
    BY <2>2, StageIsThen DEF Forward
  <2> QED
    BY <2>1, <2>2
<1>4. Answered' = IF x = "connected" THEN Answered \cup {p} ELSE Answered
  <2>1. ASSUME NEW u \in People, u # p PROVE u \in Answered' <=> u \in Answered
    <3>1. RowOf(u)' = RowOf(u) /\ r \notin RowOf(u)
      BY <1>2, <2>1 DEF RowOf
    <3> QED
      BY <3>1 DEF Answered, RowOf
  <2>2. p \in Answered <=> Exists(r) /\ row[r].replied
    <3>1. CASE RowOf(p) = {}
      BY <3>1 DEF Answered, RowOf
    <3>2. CASE Exists(r) /\ row[r].person = p
      BY <3>2, StageIs DEF Answered, Forward
    <3> QED
      BY <3>1, <3>2
  <2>3. p \in Answered' <=> Exists(r)' /\ row'[r].replied
    <3>1. CASE Exists(r)'
      BY <3>1, StageIsThen DEF Answered, Forward
    <3>2. CASE ~Exists(r)'
      <4>1. \A q \in Rows : q # r => ~(Exists(q) /\ row[q].person = p)
        BY DEF RowOf, Forward, OnePerPerson
      <4> QED
        BY <1>1, <3>2, <4>1 DEF RowOf, Answered
    <3> QED
      BY <3>1, <3>2
  <2>4. p \in Answered' <=> x = "connected" \/ p \in Answered
    BY <2>2, <2>3
  <2>5. Answered \subseteq People /\ Answered' \subseteq People
    BY DEF Answered
  <2> QED
    BY <2>1, <2>4, <2>5
<1>5. [u \in People |-> StageOf(u)]' = [[u \in People |-> StageOf(u)] EXCEPT ![p] = x]
  BY <1>2, <1>3
<1>6. x \in Ledger!After[[u \in People |-> StageOf(u)][p]]
  OBVIOUS
<1> QED
  BY <1>4, <1>5, <1>6 DEF Ledger!Next, Ledger!Move

LEMMA OneEach ==
  ASSUME Forward, NEW r \in Rows, \A q \in Rows : q # r => row'[q] = row[q],
         Exists(r)' => \/ Exists(r) /\ row'[r].person = row[r].person
                       \/ RowOf(row'[r].person) = {},
         row'[r].replied => row'[r].status = "connected"
  PROVE  Forward'
<1>1. \A q \in Rows : q # r => Exists(q)' = Exists(q)
  BY DEF Exists
<1>2. ASSUME NEW q \in Rows, q # r, Exists(q)', Exists(r)' PROVE row'[q].person # row'[r].person
  <2>1. Exists(q) /\ row'[q].person = row[q].person
    BY <1>1, <1>2
  <2>2. CASE Exists(r) /\ row'[r].person = row[r].person
    BY <1>2, <2>1, <2>2 DEF Forward, OnePerPerson
  <2>3. CASE RowOf(row'[r].person) = {}
    BY <2>1, <2>3, HeldBy
  <2> QED
    BY <1>2, <2>2, <2>3
<1>3. ASSUME NEW q \in Rows, NEW t \in Rows, Exists(q)', Exists(t)', row'[q].person = row'[t].person
      PROVE  q = t
  <2>1. CASE q = r
    BY <1>2, <1>3, <2>1
  <2>2. CASE t = r
    BY <1>2, <1>3, <2>2
  <2>3. CASE q # r /\ t # r
    BY <1>1, <1>3, <2>3 DEF Forward, OnePerPerson
  <2> QED
    BY <2>1, <2>2, <2>3
<1>4. OnePerPerson'
  BY <1>3 DEF OnePerPerson
<1>5. AnswersKept'
  BY DEF Forward, AnswersKept
<1> QED
  BY <1>4, <1>5 DEF Forward

\* A step that writes no row, or only whose row it is, leaves the ledger alone.
LEMMA ForwardSame ==
  ASSUME Shape, Forward,
         \A q \in Rows : /\ row'[q].status = row[q].status /\ row'[q].person = row[q].person
                         /\ row'[q].replied = row[q].replied
  PROVE  Forward' /\ UNCHANGED Ledger!vars
<1>1. Forward'
  BY DEF Forward, OnePerPerson, AnswersKept, Exists
<1> QED
  BY <1>1, LedgerStays

LEMMA ForwardAdded ==
  ASSUME Shape, Forward, NEW r \in Rows, NEW p \in People, NEW a \in Accounts,
         NEW x \in {"waiting", "pending"}, NEW f \in BOOLEAN, row[r] = NewRow, RowOf(p) = {},
         Insert(r, p, a, x, f)
  PROVE  Forward' /\ Ledger!Next
<1>1. /\ RowsKept /\ RowsFit /\ RowsStand
      /\ row'[r].status = x /\ row'[r].person = p /\ row'[r].replied = FALSE
      /\ \A q \in Rows : q # r => row'[q] = row[q]
  BY RowAdded, Zenon
<1>2. Forward'
  BY <1>1, OneEach
<1>3. ~Exists(r) /\ Exists(r)'
  BY <1>1 DEF Exists, Stages, NewRow
<1>4. x \in Ledger!Stages /\ x # "free" /\ x # "connected" /\ x \in Ledger!After[StageOf(p)]
  BY StageFree DEF Ledger!Stages, Ledger!After
<1> QED
  BY <1>1, <1>2, <1>3, <1>4, LedgerMoves

\* moveStatus goes along ALLOWED_MOVES, and only an answer makes a row connected.
LEMMA ForwardMoves ==
  ASSUME Shape, Forward, NEW s \in Slots, MoveRow(s), StillAsRead(job[s])
  PROVE  Forward' /\ Ledger!Next
<1>1. PICK j : j = job[s]
  OBVIOUS
<1>2. PICK r : r = j.row
  OBVIOUS
<1>3. /\ RowsKept /\ RowsFit /\ RowsStand
      /\ r \in Rows /\ CanMove(row[r].status, j.to) /\ row'[r].status = j.to
      /\ row'[r].person = row[r].person
      /\ row'[r].replied = IF j.kind = "reply" THEN TRUE ELSE row[r].replied
      /\ \A q \in Rows : q # r => row'[q] = row[q]
  BY <1>1, <1>2, RowMoves
<1>4. j.to \in Stages /\ (j.to = "connected" <=> j.kind = "reply")
  BY <1>1, WhereFrom DEF JobOK, MoveRow
<1>5. row[r].status \in Stages /\ j.to \in Moves[row[r].status] /\ row[r].status # "connected"
  BY <1>3, <1>4 DEF CanMove, Moves, Stages
<1>6. Exists(r) /\ Exists(r)' /\ ~row[r].replied
  BY <1>3, <1>4, <1>5 DEF Exists, Forward, AnswersKept
<1>7. PICK p : p = row[r].person
  OBVIOUS
<1>8. p \in People
  BY <1>3, <1>5, <1>7 DEF Shape, RowsOK, New, Stages
<1>9. row'[r].replied => row'[r].status = "connected"
  BY <1>3, <1>4, <1>6
<1>10. Forward'
  BY <1>3, <1>6, <1>9, OneEach
<1>11. StageOf(p) = row[r].status
  BY <1>3, <1>6, <1>7, StageIs DEF Forward
<1>12. j.to \in Ledger!Stages /\ j.to # "free" /\ j.to \in Ledger!After[StageOf(p)]
  BY <1>4, <1>5, <1>11 DEF Ledger!Stages, Ledger!After, Stages, Moves
<1>13. row'[r].replied <=> (j.to = "connected" \/ (Exists(r) /\ row[r].replied))
  BY <1>3, <1>4, <1>6
<1> QED
  BY <1>3, <1>6, <1>7, <1>8, <1>10, <1>12, <1>13, LedgerMoves

\* Only a row still waiting is let go.
LEMMA ForwardRemoved ==
  ASSUME Shape, Forward, NEW s \in Slots, DeleteRow(s)
  PROVE  Forward' /\ (Ledger!Next \/ UNCHANGED Ledger!vars)
<1>1. PICK r : r = job[s].row
  OBVIOUS
<1>2. /\ RowsKept /\ r \in Rows /\ (Exists(r)' => row' = row)
      /\ \A q \in Rows : q # r => row'[q] = row[q]
      /\ row'[r].replied = row[r].replied
      /\ row' # row => Waiting(r) /\ row'[r].status = "removed"
  BY <1>1, RowRemoved
<1>3. CASE row' = row
  BY <1>3, ForwardSame
<1>4. CASE row' # row
  <2>1. Waiting(r) /\ row'[r].status = "removed" /\ Exists(r) /\ ~Exists(r)'
    BY <1>2, <1>4 DEF Waiting, Exists, Stages
  <2>2. ~row[r].replied /\ ~row'[r].replied
    BY <1>2, <2>1 DEF Forward, AnswersKept, Waiting
  <2>3. Forward'
    BY <1>2, <2>1, <2>2, OneEach
  <2>4. PICK p : p = row[r].person
    OBVIOUS
  <2>5. p \in People /\ row'[r].person = p
    BY <1>2, <2>1, <2>4 DEF Shape, RowsOK, New, Waiting, RowsKept
  <2>6. StageOf(p) = "waiting"
    BY <1>2, <2>1, <2>4, StageIs DEF Forward, Waiting
  <2>7. "free" \in Ledger!Stages /\ "free" \in Ledger!After[StageOf(p)]
    BY <2>6 DEF Ledger!Stages, Ledger!After
  <2> QED
    BY <1>2, <2>1, <2>2, <2>3, <2>4, <2>5, <2>7, LedgerMoves
<1> QED
  BY <1>3, <1>4

LEMMA InitForward ==
  ASSUME Init
  PROVE  Forward /\ Ledger!Init
<1>1. \A r \in Rows : ~Exists(r) /\ ~row[r].replied
  BY DEF Init, NewRow, Exists, Stages
<1>2. \A p \in People : RowOf(p) = {} /\ StageOf(p) = "free"
  BY <1>1, StageFree DEF RowOf
<1>3. Forward
  BY <1>1 DEF Forward, OnePerPerson, AnswersKept
<1> QED
  BY <1>2, <1>3 DEF Ledger!Init, Answered

\* Every step of the requests is a step of the ledger, or none.
LEMMA StepForward ==
  ASSUME Shape, Forward, [Next]_vars
  PROVE  Forward' /\ (Ledger!Next \/ UNCHANGED Ledger!vars)
<1> DEFINE Goal == Forward' /\ (Ledger!Next \/ UNCHANGED Ledger!vars)
<1>1. CASE row' = row
  BY <1>1, ForwardSame
<1>2. ASSUME NEW s \in Slots, MoveRow(s) PROVE Goal
  <2>1. CASE StillAsRead(job[s])
    BY <1>2, <2>1, ForwardMoves
  <2>2. CASE ~StillAsRead(job[s])
    BY <1>1, <1>2, <2>2 DEF MoveRow
  <2> QED
    BY <2>1, <2>2
<1>3. ASSUME NEW s \in Slots, DeleteRow(s) PROVE Goal
  BY <1>3, ForwardRemoved
<1>4. ASSUME NEW s \in Slots, ByHandInsert(s), row' # row PROVE Goal
  BY <1>4, ByHandInsertDoes, ForwardAdded
<1>5. ASSUME NEW s \in Slots, NEW r \in Rows, FeedInsert(s, r), row' # row PROVE Goal
  BY <1>5, FeedDoes, ForwardAdded
<1>6. ASSUME NEW p \in People, NEW a \in Accounts, NEW r \in Rows, Request(p, a, r) PROVE Goal
  BY <1>6, ForwardAdded DEF Request
<1>7. ASSUME NEW r \in Rows, NEW a \in Accounts, Reassign(r, a) PROVE Goal
  BY <1>7, RowReassigned, ForwardSame
<1> QED
  BY RowWriters, <1>1, <1>2, <1>3, <1>4, <1>5, <1>6, <1>7

-----------------------------------------------------------------------------
(* Which step it was that moved a request on.                              *)

StepsOf(t) ==
  \/ Enter(t) \/ ReadStatus(t) \/ MoveRow(t) \/ SentRead(t) \/ HeldRead(t) \/ HeldPause(t)
  \/ HeldRecord(t) \/ MarkSkipped(t) \/ ByHandInsert(t) \/ \E r \in Rows : ByHandRead(t, r)

LEMMA JobWriters ==
  ASSUME Shape, [Next]_vars, NEW t \in Slots
  PROVE  \/ job'[t] = job[t] \/ job'[t] = Idle \/ Asks(t)
         \/ Takes(t) /\ (job'[t].kind = "cancel" => \E r \in Rows : CancelCall(t, r))
         \/ Goes(t) /\ StepsOf(t)
<1> DEFINE Goal == \/ job'[t] = job[t] \/ job'[t] = Idle \/ Asks(t)
                   \/ Takes(t) /\ (job'[t].kind = "cancel" => \E r \in Rows : CancelCall(t, r))
                   \/ Goes(t) /\ StepsOf(t)
<1>1. ASSUME NEW s \in Slots, NEW ans \in Agreed \cup {"error"}, Ends(s, ans) PROVE Goal
  BY <1>1 DEF Ends, Others
<1>2. ASSUME NEW s \in Slots, Goes(s), s = t => StepsOf(t) PROVE Goal
  BY <1>2 DEF Goes, Others
<1>3. ASSUME NEW s \in Slots, Takes(s), s = t /\ job'[t].kind = "cancel" => \E r \in Rows : CancelCall(t, r)
      PROVE Goal
  BY <1>3 DEF Takes, Others
<1>4. ASSUME job' = job PROVE Goal
  BY <1>4
<1> HIDE DEF Goal
<1>5. ASSUME NEW s \in Slots, Enter(s) PROVE Goal
  BY <1>2, <1>5, EnterDoes DEF StepsOf
<1>6. ASSUME NEW s \in Slots, ReadStatus(s) PROVE Goal
  BY <1>1, <1>2, <1>6, ReadDoes DEF StepsOf, Agreed
<1>7. ASSUME NEW s \in Slots, MoveRow(s) PROVE Goal
  BY <1>1, <1>2, <1>7, MoveDoes DEF StepsOf, Agreed
<1>8. ASSUME NEW s \in Slots, Commit(s) PROVE Goal
  BY <1>1, <1>8, CommitDoes DEF Agreed
<1>9. ASSUME NEW s \in Slots, SentRead(s) PROVE Goal
  BY <1>1, <1>2, <1>9, SentReadDoes DEF StepsOf, Agreed
<1>10. ASSUME NEW s \in Slots, HeldRead(s) PROVE Goal
  <2>1. Goes(s) \/ \E ans \in Agreed \cup {"error"} : Ends(s, ans)
    BY <1>10, HeldReadDoes DEF Agreed
  <2> QED
    BY <1>1, <1>2, <1>10, <2>1 DEF StepsOf
<1>11. ASSUME NEW s \in Slots, HeldPause(s) PROVE Goal
  BY <1>2, <1>11, PauseDoes DEF StepsOf
<1>12. ASSUME NEW s \in Slots, HeldRecord(s) PROVE Goal
  <2>1. Goes(s) \/ \E ans \in Agreed \cup {"error"} : Ends(s, ans)
    BY <1>12, RecordDoes DEF Agreed
  <2> QED
    BY <1>1, <1>2, <1>12, <2>1 DEF StepsOf
<1>13. ASSUME NEW s \in Slots, MarkSkipped(s) PROVE Goal
  BY <1>2, <1>13, MarkDoes DEF StepsOf
<1>14. ASSUME NEW s \in Slots, DeleteRow(s) PROVE Goal
  BY <1>1, <1>14, DeleteDoes DEF Agreed
<1>15. ASSUME NEW s \in Slots, ByHandInsert(s) PROVE Goal
  <2>1. Goes(s) \/ Ends(s, "error")
    BY <1>15, ByHandInsertDoes
  <2> QED
    BY <1>1, <1>2, <1>15, <2>1 DEF StepsOf
<1>16. ASSUME NEW s \in Slots, Fail(s) PROVE Goal
  BY <1>1, <1>16, FailDoes
<1>17. ASSUME NEW s \in Slots, Report(s) PROVE Goal
  <2>1. Asks(s)
    BY <1>17, AsksDoes
  <2> QED
    BY <2>1 DEF Asks, Others, Goal
<1>18. ASSUME NEW s \in Slots, NEW r \in Rows, FeedInsert(s, r) PROVE Goal
  BY <1>1, <1>18, FeedDoes
<1>19. ASSUME NEW s \in Slots, NEW r \in Rows, ByHandRead(s, r) PROVE Goal
  <2>1. Goes(s) \/ Ends(s, "error")
    BY <1>19, ByHandReadDoes
  <2> QED
    BY <1>1, <1>2, <1>19, <2>1 DEF StepsOf
<1>20. ASSUME NEW s \in Slots, NEW r \in Rows, CancelCall(s, r) PROVE Goal
  BY <1>3, <1>20, CancelDoes
<1>21. ASSUME NEW s \in Slots, NEW r \in Rows, NEW c \in {"check", "reply"}, Saw(s, r, c) PROVE Goal
  BY <1>3, <1>21, SawDoes
<1>22. ASSUME NEW s \in Slots, NEW p \in People, FeedWalk(s, p) PROVE Goal
  BY <1>3, <1>22, FeedWalkDoes
<1>23. ASSUME NEW s \in Slots, NEW p \in People, NEW a \in Accounts, ByHandCall(s, p, a) PROVE Goal
  BY <1>3, <1>23, ByHandDoes
<1>24. ASSUME NEW p \in People, NEW a \in Accounts, NEW r \in Rows, Request(p, a, r) PROVE Goal
  BY <1>24 DEF Request, Goal
<1>25. ASSUME NEW r \in Rows, NEW a \in Accounts, Reassign(r, a) PROVE Goal
  BY <1>25 DEF Reassign, Goal
<1>26. ASSUME NEW r \in Rows, Prepare(r) PROVE Goal
  BY <1>26, PrepareDoes DEF Walks, Goal
<1>27. ASSUME NEW o \in Outcomes \cup {"already_pending", "already_connected"}, Visit(o) PROVE Goal
  BY <1>27, VisitDoes DEF Walks, Goal
<1>28. ASSUME NEW a \in Accounts, Begin(a) \/ Warn(a) PROVE Goal
  BY <1>28, BeginDoes DEF Walks, Warn, Goal
<1>29. ASSUME NEW x \in Accounts \X People, Respond(x) PROVE Goal
  BY <1>29 DEF Respond, Goal
<1>30. ASSUME Finish \/ Die \/ NewDay \/ UNCHANGED vars PROVE Goal
  BY <1>30 DEF Finish, Die, NewDay, vars, Goal
<1>31. ASSUME Hear PROVE Goal
  BY <1>31, HearDoes DEF Walks, Goal
<1> QED
  BY StepCases, <1>5, <1>6, <1>7, <1>8, <1>9, <1>10, <1>11, <1>12, <1>13, <1>14, <1>15,
     <1>16, <1>17, <1>18, <1>19, <1>20, <1>21, <1>22, <1>23, <1>24, <1>25, <1>26, <1>27,
     <1>28, <1>29, <1>30, <1>31 DEF Goal

-----------------------------------------------------------------------------
(* The count: from the check of the allowance to the count itself nobody   *)
(* else counts for the account.                                            *)

Booked(j) == j.kind \in {"sent", "byhand"} /\ j.ok

LEMMA BookedFields ==
  ASSUME NEW j \in JobShape, JobOK(j)
  PROVE  /\ Booked(j) => j.account \in Accounts /\ Active(j) /\ j.kind \in Counting
         /\ Booked(j) /\ j.pc \notin {"insert", "commit"} => j.to = "pending"
         /\ Committing(j) => Booked(j) /\ j.row \in Rows
<1>1. j.kind \in {"idle", "sent", "held", "byhand", "check", "reply", "feed", "cancel"}
  BY DEF JobShape
<1> QED
  BY <1>1 DEF JobOK, Booked, Active, Counting, Committing

\* Nothing is counted by a step that books only within the allowance.
LEMMA CountedKept ==
  ASSUME Shape, Counted, RowsKept, spent' = spent, billed' = billed,
         NEW s \in Slots, Others(s), NEW k, k = job'[s],
         Booked(k) => spent[k.account] < Quota,
         Committing(k) =>
           /\ k.row \in Rows /\ billed[k.row] = 0 /\ Past(k.row)'
           /\ \A t \in Slots : t # s /\ Committing(job[t]) => job[t].row # k.row
  PROVE  Counted'
<1>1. DayWithinQuota'
  BY DEF Counted, DayWithinQuota
<1>2. \A t \in Slots : job'[t].kind \in {"sent", "byhand"} /\ job'[t].ok =>
         spent'[job'[t].account] < Quota
  BY DEF Counted, Others, Booked
<1>3. \A r \in Rows : billed'[r] = 0 \/ (billed'[r] = 1 /\ Past(r)')
  BY DEF Counted, RowsKept
<1>4. \A t \in Slots : Committing(job[t]) => job[t].row \in Rows
  BY BookedFields DEF Shape, Shapes
<1>5. ASSUME NEW t \in Slots, Committing(job'[t])
      PROVE  billed'[job'[t].row] = 0 /\ row'[job'[t].row].status \notin {"new", "waiting"}
  <2>1. CASE t = s
    BY <1>5, <2>1 DEF Past
  <2>2. CASE t # s
    <3>1. job'[t] = job[t]
      BY <2>2 DEF Others
    <3>2. PICK r : r = job[t].row
      OBVIOUS
    <3>3. r \in Rows /\ billed[r] = 0 /\ Past(r)
      BY <1>4, <1>5, <3>1, <3>2 DEF Counted
    <3>4. Past(r)'
      BY <3>3 DEF RowsKept
    <3> QED
      BY <3>1, <3>2, <3>3, <3>4 DEF Past
  <2> QED
    BY <2>1, <2>2
<1>6. \A t, u \in Slots : t # u /\ Committing(job'[t]) /\ Committing(job'[u]) =>
         job'[t].row # job'[u].row
  BY DEF Counted, Others
<1> QED
  BY <1>1, <1>2, <1>3, <1>5, <1>6 DEF Counted, Committing, Past

\* A request on its way books only what the allowance still has.
LEMMA Books ==
  ASSUME Shape, Counted, NEW s \in Slots, Goes(s), StepsOf(s), Booked(job'[s])
  PROVE  spent[job'[s].account] < Quota
<1>1. SameAs(job[s], job'[s]) /\ JobOK(job'[s]) /\ job'[s] \in JobShape
  BY DEF Goes, Fits
<1>2. job'[s].pc \notin {"read", "pause", "record", "skip", "delete"}
  BY <1>1 DEF JobOK, Booked
<1>3. job[s].kind = job'[s].kind /\ job[s].account = job'[s].account
  BY <1>1 DEF SameAs
<1>4. \/ job'[s].ok = job[s].ok
      \/ job'[s].ok => Allowed(job[s].account)
  <2>1. CASE Enter(s) \/ HeldRead(s) \/ HeldPause(s) \/ HeldRecord(s) \/ MarkSkipped(s)
    <3>1. ~Booked(job'[s])
      <4>1. CASE Enter(s)
        BY <1>2, <4>1, EnterDoes
      <4>2. CASE HeldRead(s)
        BY <1>3, <4>2 DEF HeldRead, Booked
      <4>3. CASE HeldPause(s)
        BY <1>3, <4>3, WhereFrom DEF HeldPause, Booked
      <4>4. CASE HeldRecord(s)
        BY <1>3, <4>4, WhereFrom DEF HeldRecord, Booked
      <4>5. CASE MarkSkipped(s)
        BY <1>3, <4>5, WhereFrom DEF MarkSkipped, Booked
      <4> QED
        BY <2>1, <4>1, <4>2, <4>3, <4>4, <4>5
    <3> QED
      BY <3>1
  <2>2. ASSUME NEW ans \in Agreed \cup {"error"}, Ends(s, ans) PROVE FALSE
    BY <2>2, IdleJob DEF Ends, Booked
  <2>3. CASE ReadStatus(s) \/ MoveRow(s)
    BY <2>2, <2>3, ReadDoes, MoveDoes DEF Agreed
  <2>4. CASE SentRead(s)
    BY <2>2, <2>4, SentReadDoes DEF Agreed
  <2>5. CASE ByHandInsert(s)
    BY <2>2, <2>5, ByHandInsertDoes DEF Agreed
  <2>6. CASE \E r \in Rows : ByHandRead(s, r)
    BY <2>2, <2>6, ByHandReadDoes DEF Agreed
  <2> QED
    BY <2>1, <2>3, <2>4, <2>5, <2>6 DEF StepsOf
<1>5. CASE job'[s].ok = job[s].ok
  BY <1>3, <1>5 DEF Booked, Counted
<1>6. CASE Allowed(job[s].account)
  BY <1>3, <1>6 DEF Allowed
<1> QED
  BY <1>4, <1>5, <1>6 DEF Booked

\* The row about to be counted has just left the queue, or has just come.
LEMMA Commits ==
  ASSUME Shape, Counted, RowsKept, NEW s \in Slots, Goes(s), StepsOf(s), Committing(job'[s]),
         NEW r, r = job'[s].row
  PROVE  /\ r \in Rows /\ billed[r] = 0 /\ Past(r)'
         /\ \A t \in Slots : t # s /\ Committing(job[t]) => job[t].row # r
<1>1. PICK j : j = job[s]
  OBVIOUS
<1>2. PICK k : k = job'[s]
  OBVIOUS
<1>3. r = k.row
  BY <1>2
<1>4. k \in JobShape /\ JobOK(k) /\ Booked(k) /\ r \in Rows /\ k.pc = "commit" /\ SameAs(j, k)
  BY <1>1, <1>2, <1>3, BookedFields DEF Goes, Fits, Committing
<1>5. ~Past(r) /\ Past(r)'
  <2>1. ASSUME NEW ans \in Agreed \cup {"error"}, Ends(s, ans) PROVE FALSE
    BY <1>2, <1>4, <2>1, IdleJob DEF Ends
  <2>2. CASE MoveRow(s)
    <3>1. StillAsRead(j) /\ j.kind \in {"sent", "byhand"} /\ k.ok = j.ok /\ k.row = j.row
      BY <1>1, <1>2, <2>1, <2>2, MoveDoes DEF Agreed
    <3>2. j \in JobShape /\ JobOK(j) /\ j.pc = "move"
      BY <1>1, <2>2, WhereFrom DEF MoveRow
    <3>3. j.to = "pending"
      BY <1>4, <3>1, <3>2 DEF JobOK, Booked
    <3>4. CanMove(row[r].status, "pending") /\ row'[r].status = "pending"
      BY <1>1, <1>3, <2>2, <3>1, <3>3, RowMoves
    <3> QED
      BY <3>4 DEF CanMove, Stages, Moves, Past
  <2>3. CASE ByHandInsert(s)
    <3>1. /\ k.row = j.row /\ row[j.row] = NewRow
          /\ \E p \in People, a \in Accounts : Insert(j.row, p, a, "pending", FALSE)
      BY <1>1, <1>2, <2>1, <2>3, ByHandInsertDoes DEF Agreed
    <3>2. row[r] = NewRow
      BY <1>3, <3>1
    <3>3. PICK p \in People, a \in Accounts : Insert(r, p, a, "pending", FALSE)
      BY <1>3, <3>1
    <3>4. row'[r].status = "pending"
      BY <1>4, <3>2, <3>3, RowAdded
    <3> QED
      BY <3>2, <3>4 DEF NewRow, Past
  <2>4. MoveRow(s) \/ ByHandInsert(s)
    <3>1. CASE Enter(s) \/ ReadStatus(s) \/ SentRead(s)
      BY <1>2, <1>4, <2>1, <3>1, EnterDoes, ReadDoes, SentReadDoes DEF Agreed
    <3>2. CASE HeldRead(s)
      <4>1. j.kind = "held"
        BY <1>1, <3>2 DEF HeldRead
      <4> QED
        BY <1>4, <4>1 DEF SameAs, Booked
    <3>3. CASE HeldPause(s) \/ HeldRecord(s) \/ MarkSkipped(s)
      <4>1. j.kind \in {"held", "cancel"}
        BY <1>1, <3>3, WhereFrom DEF HeldPause, HeldRecord, MarkSkipped
      <4> QED
        BY <1>4, <4>1 DEF SameAs, Booked
    <3>4. CASE \E q \in Rows : ByHandRead(s, q)
      BY <1>2, <1>4, <2>1, <3>4, ByHandReadDoes DEF Agreed
    <3> QED
      BY <3>1, <3>2, <3>3, <3>4 DEF StepsOf
  <2> QED
    BY <2>2, <2>3, <2>4
<1>6. billed[r] = 0 /\ \A t \in Slots : t # s /\ Committing(job[t]) => job[t].row # r
  BY <1>4, <1>5 DEF Counted
<1> QED
  BY <1>4, <1>5, <1>6

\* The count itself: whoever else is on the way to it waits for another account.
LEMMA CommitCounts ==
  ASSUME Shape, Turns, Counted, RowsKept, NEW s \in Slots, Commit(s)
  PROVE  Counted'
<1>1. PICK j : j = job[s]
  OBVIOUS
<1>2. /\ j \in JobShape /\ JobOK(j) /\ j.row \in Rows /\ j.pc = "commit" /\ Active(j)
      /\ j.account \in Accounts /\ j.kind \in Counting
  <2>1. /\ j \in JobShape /\ JobOK(j) /\ j.row \in Rows /\ j.pc = "commit" /\ Active(j)
        /\ j.kind \in {"sent", "byhand"}
    BY <1>1, WhereFrom DEF Commit
  <2> QED
    BY <2>1 DEF JobOK, Counting
<1>3. job'[s] = Idle /\ Others(s)
  BY CommitDoes DEF Ends
<1>4. ~Booked(Idle) /\ ~Committing(Idle)
  BY IdleJob DEF Booked, Committing
<1>5. CASE ~j.ok
  <2>1. spent' = spent /\ billed' = billed
    BY <1>1, <1>5 DEF Commit
  <2> QED
    BY <1>3, <1>4, <2>1, CountedKept
<1>6. CASE j.ok
  <2>1. PICK a : a = j.account
    OBVIOUS
  <2>2. PICK r : r = j.row
    OBVIOUS
  <2>3. /\ spent' = [spent EXCEPT ![a] = spent[a] + 1]
        /\ billed' = [billed EXCEPT ![r] = billed[r] + 1]
    BY <1>1, <1>6, <2>1, <2>2 DEF Commit
  <2>4. a \in Accounts /\ r \in Rows /\ Committing(j) /\ Booked(j)
    BY <1>2, <1>6, <2>1, <2>2, BookedFields DEF Committing
  <2>5. spent[a] < Quota /\ billed[r] = 0 /\ Past(r)
    BY <1>1, <2>1, <2>2, <2>4 DEF Counted, Booked
  <2>6. ASSUME NEW t \in Slots, Booked(job'[t])
        PROVE  t # s /\ job'[t] = job[t] /\ Booked(job[t]) /\ job[t].account \in Accounts \ {a}
    <3>1. t # s /\ job'[t] = job[t] /\ Booked(job[t])
      BY <1>3, <1>4, <2>6 DEF Others
    <3>2. job[t].account \in Accounts /\ Active(job[t]) /\ job[t].kind \in Counting
      BY <3>1, BookedFields DEF Shape, Shapes
    <3>3. ~SameTurn(job[t], j)
      BY <1>1, <1>2, <3>1, <3>2 DEF Turns, InTurn
    <3> QED
      BY <1>2, <2>1, <3>1, <3>2, <3>3 DEF SameTurn
  <2>7. spent'[a] = spent[a] + 1 /\ \A b \in Accounts \ {a} : spent'[b] = spent[b]
    BY <2>3, <2>4 DEF Shape, Shapes
  <2>8. billed'[r] = 1 /\ \A q \in Rows \ {r} : billed'[q] = billed[q]
    BY <2>3, <2>4, <2>5 DEF Shape, Shapes
  <2>9. DayWithinQuota'
    <3>1. ASSUME NEW b \in Accounts PROVE spent'[b] <= Quota
      <4>1. CASE b = a
        BY <2>4, <2>5, <2>7, <4>1, InvitationsAssumption DEF Shape, Shapes
      <4>2. CASE b # a
        BY <2>7, <4>2 DEF Counted, DayWithinQuota
      <4> QED
        BY <4>1, <4>2
    <3> QED
      BY <3>1 DEF DayWithinQuota
  <2>10. \A t \in Slots : job'[t].kind \in {"sent", "byhand"} /\ job'[t].ok =>
           spent'[job'[t].account] < Quota
    BY <2>6, <2>7 DEF Counted, Booked
  <2>11. \A q \in Rows : billed'[q] = 0 \/ (billed'[q] = 1 /\ Past(q)')
    <3>1. ASSUME NEW q \in Rows PROVE billed'[q] = 0 \/ (billed'[q] = 1 /\ Past(q)')
      <4>1. CASE q = r
        BY <2>4, <2>5, <2>8, <4>1 DEF RowsKept
      <4>2. CASE q # r
        BY <2>8, <4>2 DEF Counted, RowsKept
      <4> QED
        BY <4>1, <4>2
    <3> QED
      BY <3>1
  <2>12. ASSUME NEW t \in Slots, Committing(job'[t])
         PROVE  /\ billed'[job'[t].row] = 0 /\ row'[job'[t].row].status \notin {"new", "waiting"}
                /\ t # s /\ job'[t] = job[t]
    <3>1. t # s /\ job'[t] = job[t]
      BY <1>3, <1>4, <2>12 DEF Others
    <3>2. PICK q : q = job[t].row
      OBVIOUS
    <3>3. q \in Rows
      BY <2>12, <3>1, <3>2, BookedFields DEF Shape, Shapes
    <3>4. q # r /\ billed[q] = 0 /\ Past(q)
      BY <1>1, <2>2, <2>4, <2>12, <3>1, <3>2 DEF Counted
    <3>5. Past(q)' /\ billed'[q] = 0
      BY <2>8, <3>3, <3>4 DEF RowsKept
    <3> QED
      BY <3>1, <3>2, <3>5 DEF Past
  <2>13. \A t, u \in Slots : t # u /\ Committing(job'[t]) /\ Committing(job'[u]) =>
           job'[t].row # job'[u].row
    BY <2>12 DEF Counted
  <2> QED
    BY <2>9, <2>10, <2>11, <2>12, <2>13 DEF Counted, Committing, Past
<1> QED
  BY <1>5, <1>6

LEMMA DayCounts ==
  ASSUME Shape, Counted, NewDay
  PROVE  Counted'
<1>1. job' = job /\ row' = row /\ billed' = billed /\ spent' = [a \in Accounts |-> 0]
  BY DEF NewDay
<1>2. DayWithinQuota'
  BY <1>1, InvitationsAssumption DEF DayWithinQuota
<1>3. ASSUME NEW t \in Slots, Booked(job[t])
      PROVE  spent'[job[t].account] < Quota
  <2>1. PICK a : a = job[t].account
    OBVIOUS
  <2>2. a \in Accounts
    BY <1>3, <2>1, BookedFields DEF Shape, Shapes
  <2>3. spent[a] < Quota
    BY <1>3, <2>1 DEF Counted, Booked
  <2>4. spent[a] \in Nat /\ spent'[a] = 0
    BY <1>1, <2>2 DEF Shape, Shapes
  <2> QED
    BY <2>1, <2>3, <2>4, InvitationsAssumption
<1>4. \A t \in Slots : job'[t].kind \in {"sent", "byhand"} /\ job'[t].ok =>
        spent'[job'[t].account] < Quota
  BY <1>1, <1>3 DEF Booked
<1> QED
  BY <1>1, <1>2, <1>4 DEF Counted, Committing, Past

LEMMA InitCounted ==
  ASSUME Init
  PROVE  Counted
<1>1. \A s \in Slots : job[s] = Idle
  BY DEF Init
<1>2. \A s \in Slots : job[s].ok = FALSE
  BY <1>1, IdleJob
<1>3. (\A a \in Accounts : spent[a] = 0) /\ \A r \in Rows : billed[r] = 0
  BY DEF Init
<1> QED
  BY <1>2, <1>3, InvitationsAssumption DEF Counted, DayWithinQuota, Committing

LEMMA StepCounted ==
  ASSUME Shape, Turns, Counted, [Next]_vars
  PROVE  Counted'
<1>1. RowsKept
  BY StepRows
<1>2. ASSUME NEW s \in Slots, Commit(s) PROVE Counted'
  BY <1>1, <1>2, CommitCounts
<1>3. CASE NewDay
  BY <1>3, DayCounts
<1>4. CASE spent' = spent /\ billed' = billed
  <2>1. ASSUME NEW s \in Slots, Serves(s) \/ Asks(s) PROVE Counted'
    <3>1. Others(s)
      BY <2>1 DEF Serves, Goes, Takes, Ends, Asks
    <3>2. PICK k : k = job'[s]
      OBVIOUS
    <3>3. CASE k = job[s]
      <4>1. Committing(k) => k.row \in Rows
        BY <3>3, BookedFields DEF Shape, Shapes
      <4>2. Committing(k) => Past(k.row)'
        <5>1. Committing(k) => Past(k.row)
          BY <3>3 DEF Counted
        <5> QED
          BY <1>1, <4>1, <5>1 DEF RowsKept
      <4>3. Booked(k) => spent[k.account] < Quota
        BY <3>3 DEF Counted, Booked
      <4>4. Committing(k) => /\ billed[k.row] = 0
                            /\ \A t \in Slots : t # s /\ Committing(job[t]) => job[t].row # k.row
        BY <3>3 DEF Counted
      <4> QED
        BY <1>1, <1>4, <3>1, <3>2, <4>1, <4>2, <4>3, <4>4, CountedKept
    <3>4. CASE k = Idle \/ Asks(s) \/ Takes(s)
      <4>1. ~Booked(k) /\ ~Committing(k)
        <5>1. CASE k = Idle
          BY <5>1, IdleJob DEF Booked, Committing
        <5>2. CASE Asks(s)
          BY <3>2, <5>2 DEF Asks, Booked, Committing
        <5>3. CASE Takes(s)
          <6>1. k \in JobShape /\ JobOK(k)
            BY <3>2, <5>3 DEF Takes, Fits
          <6>2. /\ k.kind \in {"feed", "cancel", "check", "reply", "byhand"}
                /\ k.kind = "byhand" => k.pc = "queued"
            BY <3>2, <5>3 DEF Takes
          <6> QED
            BY <6>1, <6>2 DEF JobOK, Booked, Committing
        <5> QED
          BY <3>4, <5>1, <5>2, <5>3
      <4> QED
        BY <1>1, <1>4, <3>1, <3>2, <4>1, CountedKept
    <3>5. CASE Goes(s) /\ StepsOf(s)
      <4>1. Booked(k) => spent[k.account] < Quota
        BY <3>2, <3>5, Books
      <4>2. Committing(k) =>
              /\ k.row \in Rows /\ billed[k.row] = 0 /\ Past(k.row)'
              /\ \A t \in Slots : t # s /\ Committing(job[t]) => job[t].row # k.row
        <5>1. PICK r : r = k.row
          OBVIOUS
        <5> QED
          BY <1>1, <3>2, <3>5, <5>1, Commits
      <4> QED
        BY <1>1, <1>4, <3>1, <3>2, <4>1, <4>2, CountedKept
    <3> QED
      BY <3>2, <3>3, <3>4, <3>5, JobWriters
  <2>2. CASE job' = job
    <3>1. DayWithinQuota'
      BY <1>4 DEF Counted, DayWithinQuota
    <3>2. \A t \in Slots : job[t].kind \in {"sent", "byhand"} /\ job[t].ok =>
            spent'[job[t].account] < Quota
      BY <1>4 DEF Counted
    <3>3. \A r \in Rows : billed'[r] = 0 \/ (billed'[r] = 1 /\ Past(r)')
      BY <1>1, <1>4 DEF Counted, RowsKept
    <3>4. ASSUME NEW t \in Slots, NEW j, j = job[t], Committing(j)
          PROVE  billed'[j.row] = 0 /\ Past(j.row)'
      <4>1. j.row \in Rows
        BY <3>4, BookedFields DEF Shape, Shapes
      <4>2. billed[j.row] = 0 /\ Past(j.row)
        BY <3>4 DEF Counted
      <4> QED
        BY <1>1, <1>4, <4>1, <4>2 DEF RowsKept
    <3>5. \A t, u \in Slots : t # u /\ Committing(job[t]) /\ Committing(job[u]) =>
            job[t].row # job[u].row
      BY DEF Counted
    <3>6. \A t \in Slots : Committing(job[t]) =>
            billed'[job[t].row] = 0 /\ row'[job[t].row].status \notin {"new", "waiting"}
      BY <3>4 DEF Past
    <3> QED
      BY <2>2, <3>1, <3>2, <3>3, <3>5, <3>6 DEF Counted, Committing, Past
  <2> QED
    BY <2>1, <2>2, StepKinds DEF Walks
<1> QED
  BY CountWriters, <1>2, <1>3, <1>4

-----------------------------------------------------------------------------
(* The failures: one for every report, in the order of the sessions.       *)

LEMMA JobFields ==
  ASSUME Shape, NEW s \in Slots, job[s].kind = "held"
  PROVE  /\ job[s].row \in Rows /\ ~New(job[s].row) /\ job[s].lease \in Nat /\ job[s].lease > 0
         /\ job[s].account \in Accounts /\ job[s].outcome \in HeldOutcomes
<1>1. job[s] \in JobShape /\ JobOK(job[s]) /\ Rooted(job[s])
  BY DEF Shape, Shapes
<1> QED
  BY <1>1 DEF JobShape, JobOK, Rooted, About

\* What the agent asks stays what the failure in the log answered.
LEMMA AskingStays ==
  ASSUME Shape, RowsKept, NEW r \in Rows, NEW e \in EventShape, Asking(r, e),
         NEW b, agent' = b, b.lease = agent.lease, b.done = agent.done, b.row = agent.row,
         b.outcome = agent.outcome, b.account = agent.account, b.at = agent.at
  PROVE  Asking(r, e)'
BY DEF Asking, RowsKept

LEMMA AskingWalks ==
  ASSUME Shape, RowsKept, NEW r \in Rows, NEW e \in EventShape, Asking(r, e), Walks
  PROVE  Asking(r, e)'
<1>1. agent \in AgentShape /\ agent' \in AgentShape /\ AgentOK /\ e.lease \in Nat
  BY DEF Shape, Shapes, Walks, EventShape
<1>2. agent.lease \in Nat /\ ~New(r)' /\ e.lease > 0 /\ e.lease <= agent.lease
  BY <1>1 DEF AgentShape, Asking, RowsKept
<1>3. CASE agent'.lease = agent.lease + 1
  BY <1>1, <1>2, <1>3 DEF Asking
<1>4. CASE agent'.at = "home" /\ agent'.lease = agent.lease
  BY <1>1, <1>2, <1>4 DEF Asking
<1>5. CASE /\ agent'.lease = agent.lease /\ agent.done \subseteq agent'.done
           /\ agent.at \in {"free", "visit"} \/ (agent.at = "asked" /\ agent.answer \in Agreed)
           /\ agent'.at \in {"visit", "clicked"} =>
                \/ agent.at = "visit" /\ agent'.row = agent.row
                \/ agent'.row \notin agent.done
  <2>1. agent'.at # "asked"
    BY DEF Walks
  <2> QED
    BY <1>2, <1>5, <2>1 DEF Asking
<1> QED
  BY <1>3, <1>4, <1>5 DEF Walks

LEMMA AskingAsks ==
  ASSUME Shape, RowsKept, NEW r \in Rows, NEW e \in EventShape, Asking(r, e), NEW s \in Slots, Asks(s)
  PROVE  Asking(r, e)'
<1>1. ~New(r)'
  BY DEF Asking, RowsKept
<1> QED
  BY <1>1 DEF Asking, Asks

LEMMA AskingKept ==
  ASSUME Shape, [Next]_vars, NEW r \in Rows, NEW e \in EventShape, Asking(r, e)
  PROVE  Asking(r, e)'
<1>1. RowsKept
  BY StepRows
<1>2. ASSUME NEW s \in Slots, Serves(s) PROVE Asking(r, e)'
  <2>1. CASE agent' = agent
    BY <1>1, <2>1, AskingStays
  <2>2. ASSUME NEW ans \in Agreed \cup {"error"}, agent.at = "asked",
               agent' = [agent EXCEPT !.answer = ans]
        PROVE  Asking(r, e)'
    <3>1. PICK b : b = [agent EXCEPT !.answer = ans]
      OBVIOUS
    <3>2. /\ b.lease = agent.lease /\ b.done = agent.done /\ b.row = agent.row
          /\ b.outcome = agent.outcome /\ b.account = agent.account /\ b.at = agent.at
      BY <3>1 DEF Shape, Shapes, AgentShape
    <3>3. agent' = b
      BY <2>2, <3>1
    <3> QED
      BY <1>1, <3>2, <3>3, AskingStays
  <2>3. Goes(s) \/ Takes(s) => agent' = agent
    BY DEF Goes, Takes
  <2>4. ASSUME NEW ans \in Agreed \cup {"error"}, Ends(s, ans) PROVE Asking(r, e)'
    BY <2>1, <2>2, <2>4 DEF Ends
  <2> QED
    BY <1>2, <2>1, <2>3, <2>4 DEF Serves
<1>3. ASSUME NEW s \in Slots, Asks(s) PROVE Asking(r, e)'
  BY <1>1, <1>3, AskingAsks
<1>4. CASE Walks
  BY <1>1, <1>4, AskingWalks
<1>5. CASE agent' = agent
  BY <1>1, <1>5, AskingStays
<1> QED
  BY <1>2, <1>3, <1>4, <1>5, StepKinds

\* A report that may be answered is about what the agent asked last.
LEMMA AsksFor ==
  ASSUME Shape, Turns, NEW s \in Slots, NEW j, j = job[s], j.kind = "held",
         NEW e \in EventShape, e.lease = j.lease, e.account = j.account, e.outcome = j.outcome
  PROVE  Asking(j.row, e)
<1>1. j.row \in Rows /\ ~New(j.row) /\ j.lease \in Nat /\ j.lease > 0
  BY JobFields
<1>2. Asked(j)
  BY DEF Turns
<1>3. agent.at = "asked" => agent.row \in agent.done
  BY DEF Shape, AgentOK
<1> QED
  BY <1>1, <1>2, <1>3 DEF Asking, Asked

\* Only a held report that was read, or that paused, is on its way to its record.
LEMMA HeldOn ==
  ASSUME Shape, NEW s \in Slots, Goes(s), StepsOf(s), job'[s].kind = "held",
         job'[s].pc \in {"pause", "record"}
  PROVE  HeldRead(s) \/ HeldPause(s)
<1>1. job[s].kind = "held"
  BY DEF Goes, SameAs
<1>2. ASSUME NEW ans \in Agreed \cup {"error"}, Ends(s, ans) PROVE FALSE
  BY <1>2, IdleJob DEF Ends
<1>3. CASE Enter(s) \/ ReadStatus(s) \/ MoveRow(s) \/ SentRead(s)
  BY <1>2, <1>3, EnterDoes, ReadDoes, MoveDoes, SentReadDoes DEF Agreed
<1>4. CASE HeldRecord(s) \/ MarkSkipped(s)
  BY <1>2, <1>4, RecordDoes, MarkDoes DEF Agreed
<1>5. CASE ByHandInsert(s)
  BY <1>1, <1>5, ByHandInsertDoes
<1>6. CASE \E r \in Rows : ByHandRead(s, r)
  BY <1>1, <1>6 DEF ByHandRead
<1> QED
  BY <1>3, <1>4, <1>5, <1>6 DEF StepsOf

\* A held report on its way to its answer has not been answered.
LEMMA HeardOn ==
  ASSUME Shape, Told, NEW s \in Slots, Goes(s), StepsOf(s), NEW k, k = job'[s], k.kind = "held",
         NEW i \in Failures(k.row)
  PROVE  Heard(log[k.row][i], k)
<1>1. PICK j : j = job[s]
  OBVIOUS
<1>2. SameAs(j, k) /\ j.kind = "held" /\ k.row = j.row /\ k \in JobShape
  BY <1>1 DEF Goes, SameAs, Fits
<1>3. PICK e : e = log[j.row][i]
  OBVIOUS
<1>4. Heard(e, j)
  BY <1>1, <1>2, <1>3 DEF Told
<1>5. k.lease = j.lease /\ k.account = j.account /\ k.outcome = j.outcome
  BY <1>2 DEF SameAs
<1>6. CASE k.pc \notin {"pause", "record"}
  BY <1>2, <1>3, <1>4, <1>5, <1>6 DEF Heard
<1>7. CASE k.pc \in {"pause", "record"}
  <2>1. e.lease < j.lease
    <3>1. ASSUME NEW ans \in Agreed \cup {"error"}, Ends(s, ans) PROVE FALSE
      BY <1>2, <3>1, IdleJob DEF Ends
    <3>2. CASE HeldRead(s)
      <4>1. ~GivenBefore(j.row, j.account, j.outcome, j.lease)
        BY <1>1, <1>7, <3>1, <3>2, HeldReadDoes DEF Agreed
      <4> QED
        BY <1>1, <1>2, <1>3, <4>1, NoneGiven
    <3>3. CASE HeldPause(s)
      BY <1>1, <1>4, <3>3 DEF HeldPause, Heard
    <3>4. HeldRead(s) \/ HeldPause(s)
      BY <1>1, <1>2, <1>7, HeldOn
    <3> QED
      BY <3>2, <3>3, <3>4
  <2> QED
    BY <1>2, <1>3, <1>4, <1>5, <2>1 DEF Heard
<1> QED
  BY <1>6, <1>7

LEMMA HeardAsked ==
  ASSUME Shape, Told, NEW s \in Slots, Asks(s), NEW k, k = job'[s], k.kind = "held",
         NEW i \in Failures(k.row)
  PROVE  Heard(log[k.row][i], k)
<1>1. /\ k.lease = agent.lease /\ k.account = agent.account /\ k.row = agent.row
      /\ k.outcome = agent.outcome /\ k.pc = "queued" /\ agent.at \in {"clicked", "asked"}
  BY DEF Asks
<1>2. k.row \in Rows
  BY <1>1 DEF Shape, AgentOK
<1>3. Asking(k.row, log[k.row][i])
  BY <1>2 DEF Told
<1> QED
  BY <1>1, <1>3 DEF Asking, Heard

\* Each held report, as it is after the step, against the log before it.
LEMMA HeardStill ==
  ASSUME Shape, Told, [Next]_vars, NEW t \in Slots, NEW k, k = job'[t], k.kind = "held",
         NEW i \in Failures(k.row)
  PROVE  Heard(log[k.row][i], k)
<1>1. CASE k = job[t]
  BY <1>1 DEF Told
<1>2. CASE Asks(t)
  BY <1>2, HeardAsked
<1>3. CASE Goes(t) /\ StepsOf(t)
  BY <1>3, HeardOn
<1>4. k # Idle /\ ~Takes(t)
  BY IdleJob DEF Takes
<1> QED
  BY <1>1, <1>2, <1>3, <1>4, JobWriters

LEMMA ToldKept ==
  ASSUME Shape, Told, [Next]_vars, NothingFailed
  PROVE  Told'
<1>1. InOrder'
  BY DEF Told, InOrder, NothingFailed
<1>2. ASSUME NEW r \in Rows, NEW i \in Failures(r)' PROVE Asking(r, log[r][i])'
  <2>1. i \in Failures(r) /\ log'[r][i] = log[r][i]
    BY <1>2 DEF NothingFailed
  <2>2. PICK e : e = log[r][i]
    OBVIOUS
  <2>3. e \in EventShape /\ Asking(r, e)
    BY <2>1, <2>2, FailureShape DEF Told
  <2>4. Asking(r, e)'
    BY <2>3, AskingKept
  <2>5. log'[r][i] = e
    BY <2>1, <2>2
  <2> QED
    BY <2>4, <2>5 DEF Asking
<1>3. ASSUME NEW t \in Slots, NEW k, k = job'[t], k.kind = "held", NEW i \in Failures(k.row)'
      PROVE  Heard(log'[k.row][i], k)
  <2>1. k.row \in Rows
    <3>1. Shape'
      BY StepShape
    <3>2. k \in JobShape /\ JobOK(k)
      BY <1>3, <3>1 DEF Shape, Shapes, JobOK
    <3> QED
      BY <1>3, <3>2 DEF JobOK
  <2>2. i \in Failures(k.row) /\ log'[k.row][i] = log[k.row][i]
    BY <1>3, <2>1 DEF NothingFailed
  <2> QED
    BY <1>3, <2>2, HeardStill
<1>4. (\A r \in Rows : \A i \in Failures(r) : Asking(r, log[r][i]))'
  BY <1>2
<1>5. (\A s \in Slots : job[s].kind = "held" =>
         \A i \in Failures(job[s].row) : Heard(log[job[s].row][i], job[s]))'
  BY <1>3 DEF Failures, Heard
<1> QED
  BY <1>1, <1>4, <1>5 DEF Told

\* recordFailed adds one failure, later than all those of its row.
LEMMA ToldRecord ==
  ASSUME Shape, Turns, Told, [Next]_vars, NEW s \in Slots, HeldRecord(s)
  PROVE  Told'
<1>1. PICK j : j = job[s]
  OBVIOUS
<1>2. PICK q : q = j.row
  OBVIOUS
<1>3. /\ j.kind = "held" /\ j.pc = "record" /\ q \in Rows /\ Active(j)
      /\ j \in JobShape /\ JobOK(j) /\ j.lease \in Nat
  BY <1>1, <1>2, WhereFrom, JobFields DEF HeldRecord
<1>4. PICK e : e = Failed(j.account, j.lease, j.outcome, j.release, j.skip, j.ok)
  OBVIOUS
<1>5. /\ e \in EventShape /\ e.lease = j.lease /\ e.account = j.account /\ e.outcome = j.outcome
      /\ IsFailure(e)
  <2>1. /\ j.account \in Accounts /\ j.lease \in Nat /\ j.outcome \in Outs
        /\ j.release \in BOOLEAN /\ j.skip \in BOOLEAN /\ j.ok \in BOOLEAN /\ day \in Nat
    BY <1>1, <1>3, JobFields DEF JobShape, Shape, Shapes
  <2> QED
    BY <1>4, <2>1 DEF Failed, EventShape, IsFailure
<1>6. PICK n \in Nat :
        /\ \A i \in Failures(q) : i \in Nat /\ i < n
        /\ Failures(q)' = Failures(q) \cup {n}
        /\ log'[q][n] = e
        /\ \A i \in Failures(q) : log'[q][i] = log[q][i]
  BY <1>1, <1>2, <1>4, OneFailure
<1>7. \A r \in Rows : r # q => log'[r] = log[r] /\ Failures(r)' = Failures(r)
  BY <1>1, <1>2, OneFailure DEF Failures
<1>8. \A i \in Failures(q) : log[q][i].lease < j.lease
  BY <1>1, <1>2, <1>3 DEF Told, Heard
<1>9. InOrder'
  <2>1. ASSUME NEW r \in Rows, NEW i \in Failures(r)', NEW k \in Failures(r)', i < k
        PROVE  log'[r][i].lease < log'[r][k].lease
    <3>1. CASE r # q
      BY <1>7, <2>1, <3>1 DEF Told, InOrder
    <3>2. CASE r = q /\ k = n
      <4>1. i \in Failures(q)
        BY <1>6, <2>1, <3>2
      <4> QED
        BY <1>5, <1>6, <1>8, <3>2, <4>1
    <3>3. CASE r = q /\ k # n
      <4>1. k \in Failures(q)
        BY <1>6, <3>3
      <4>2. i \in Failures(q)
        BY <1>6, <2>1, <3>3, <4>1
      <4> QED
        BY <1>6, <2>1, <3>3, <4>1, <4>2 DEF Told, InOrder
    <3> QED
      BY <3>1, <3>2, <3>3
  <2> QED
    BY <2>1 DEF InOrder
<1>10. ASSUME NEW r \in Rows, NEW i \in Failures(r)' PROVE Asking(r, log[r][i])'
  <2>1. PICK f : f = log'[r][i]
    OBVIOUS
  <2>2. f \in EventShape /\ Asking(r, f)
    <3>1. CASE r = q /\ i = n
      BY <1>1, <1>2, <1>3, <1>5, <1>6, <2>1, <3>1, AsksFor
    <3>2. CASE ~(r = q /\ i = n)
      <4>1. i \in Failures(r) /\ f = log[r][i]
        BY <1>6, <1>7, <1>10, <2>1, <3>2
      <4> QED
        BY <4>1, FailureShape DEF Told
    <3> QED
      BY <3>1, <3>2
  <2>3. Asking(r, f)'
    BY <2>2, AskingKept
  <2> QED
    BY <2>1, <2>3 DEF Asking
<1>11. ASSUME NEW t \in Slots, NEW k, k = job'[t], k.kind = "held", NEW i \in Failures(k.row)'
       PROVE  Heard(log'[k.row][i], k)
  <2>1. k \in JobShape /\ JobOK(k) /\ k.row \in Rows /\ k.lease > 0 /\ k.lease \in Nat
    <3>1. Shape'
      BY StepShape
    <3>2. k \in JobShape /\ JobOK(k)
      BY <1>11, <3>1 DEF Shape, Shapes, JobOK
    <3> QED
      BY <1>11, <3>2 DEF JobOK, JobShape
  <2>2. CASE i \in Failures(k.row) /\ log'[k.row][i] = log[k.row][i]
    BY <1>11, <2>2, HeardStill
  <2>3. CASE k.row = q /\ i = n
    <3>1. CASE t = s
      <4>1. k # Idle
        BY <1>11, IdleJob
      <4>2. SameAs(j, k) /\ k.pc \in {"skip", "delete"}
        <5>1. job'[s].pc \in {"skip", "delete"} /\ Goes(s)
          BY <1>1, <1>11, <3>1, <4>1, RecordDoes DEF Ends
        <5> QED
          BY <1>1, <1>11, <3>1, <5>1 DEF Goes
      <4> QED
        BY <1>3, <1>5, <1>6, <2>3, <4>2 DEF SameAs, Heard
    <3>2. CASE t # s
      <4>1. k = job[t]
        <5>1. Goes(s) \/ \E ans \in {"go", "stop"} : Ends(s, ans)
          BY <1>1, RecordDoes
        <5> QED
          BY <1>11, <3>2, <5>1 DEF Goes, Ends, Others
      <4>2. SameTurn(j, k) /\ SameTurn(k, j)
        BY <1>2, <1>3, <1>11, <2>3 DEF SameTurn
      <4>3. ~Active(k) /\ ~CameFirst(k, j) /\ OneQuestion(j, k)
        BY <1>1, <1>3, <3>2, <4>1, <4>2 DEF Turns, InTurn
      <4>4. k.pc \notin {"pause", "record"} /\ j.lease <= k.lease
        BY <1>3, <2>1, <4>3 DEF Active, CameFirst
      <4>5. j.lease = k.lease => j.account = k.account /\ j.outcome = k.outcome
        BY <2>1, <4>3 DEF OneQuestion
      <4> QED
        BY <1>5, <1>6, <2>3, <4>4, <4>5 DEF Heard
    <3> QED
      BY <3>1, <3>2
  <2> QED
    BY <1>6, <1>7, <1>11, <2>1, <2>2, <2>3
<1>12. (\A r \in Rows : \A i \in Failures(r) : Asking(r, log[r][i]))'
  BY <1>10
<1>13. (\A t \in Slots : job[t].kind = "held" =>
          \A i \in Failures(job[t].row) : Heard(log[job[t].row][i], job[t]))'
  BY <1>11 DEF Failures, Heard
<1> QED
  BY <1>9, <1>12, <1>13 DEF Told

LEMMA InitTold ==
  ASSUME Init
  PROVE  Told
<1>1. \A r \in Rows : Failures(r) = {}
  BY DEF Init, Failures
<1>2. \A s \in Slots : job[s].kind # "held"
  BY IdleJob DEF Init
<1> QED
  BY <1>1, <1>2 DEF Told, InOrder

LEMMA StepTold ==
  ASSUME Shape, Turns, Told, [Next]_vars
  PROVE  Told'
BY LogWriters, ToldKept, ToldRecord

\* Whatever was said twice is said once in the log.
LEMMA OneFailureEach ==
  ASSUME Shape, Told
  PROVE  OneFailurePerReport
<1>1. ASSUME NEW r \in Rows, NEW i \in Failures(r), NEW k \in Failures(r),
             log[r][i].lease = log[r][k].lease
      PROVE  i = k
  <2>1. i \in Nat /\ k \in Nat /\ log[r][i].lease \in Nat /\ log[r][k].lease \in Nat
    BY FailureShape
  <2>2. (i < k => log[r][i].lease < log[r][k].lease) /\ (k < i => log[r][k].lease < log[r][i].lease)
    BY DEF Told, InOrder
  <2> QED
    BY <1>1, <2>1, <2>2
<1> QED
  BY <1>1 DEF OneFailurePerReport, Failures

-----------------------------------------------------------------------------
(* What a held report leaves behind: the pause it began, the marker and the *)
(* row it let go.                                                          *)

\* A pause and its report stay while any request is in hand.
LEMMA PauseStays ==
  ASSUME Shape, [Next]_vars, NEW a \in Accounts, a \in paused,
         NEW t \in Slots, job'[t] # Idle
  PROVE  a \in paused' /\ pausedBy'[a] = pausedBy[a]
<1>1. CASE paused' = paused /\ pausedBy' = pausedBy
  BY <1>1
<1>2. ASSUME NEW s \in Slots, HeldPause(s) PROVE a \in paused' /\ pausedBy'[a] = pausedBy[a]
  <2>1. PICK j : j = job[s]
    OBVIOUS
  <2>2. paused' = paused \cup {j.account}
    BY <1>2, <2>1 DEF HeldPause
  <2>3. CASE j.account \in paused
    BY <1>2, <2>1, <2>2, <2>3 DEF HeldPause
  <2>4. CASE j.account \notin paused
    <3>1. pausedBy' = [pausedBy EXCEPT ![j.account] = <<j.row, j.lease>>]
      BY <1>2, <2>1, <2>4 DEF HeldPause
    <3> QED
      BY <2>2, <2>4, <3>1 DEF Shape, Shapes
  <2> QED
    BY <2>3, <2>4
<1>3. ASSUME NEW b \in Accounts, Warn(b) PROVE a \in paused' /\ pausedBy'[a] = pausedBy[a]
  BY <1>3 DEF Warn, Shape, Shapes
<1>4. CASE NewDay
  <2>1. job' = job /\ pausedBy' = pausedBy /\ job[t] # Idle
    BY <1>4 DEF NewDay
  <2>2. paused' = paused
    BY <1>4, <2>1 DEF NewDay
  <2> QED
    BY <2>1, <2>2
<1> QED
  BY PauseWriters, <1>1, <1>2, <1>3, <1>4

LEMMA PausedStill ==
  ASSUME Shape, Whole, [Next]_vars, NEW t \in Slots, NEW k, k = job'[t],
         k.kind = "held", k.pc \in {"pause", "record"}, k.outcome = "blocked", k.ok
  PROVE  k.account \in paused' /\ pausedBy'[k.account] # <<k.row, k.lease>>
<1>1. PICK j : j = job[t]
  OBVIOUS
<1>2. j \in JobShape
  BY <1>1 DEF Shape, Shapes
<1>3. k.account \in paused /\ pausedBy[k.account] # <<k.row, k.lease>>
  <2>1. CASE k = j
    BY <1>1, <2>1 DEF Whole, PausedBefore
  <2>2. CASE Asks(t) \/ Takes(t) \/ k = Idle
    BY <2>2, IdleJob DEF Asks, Takes
  <2>3. CASE Goes(t) /\ StepsOf(t)
    <3>1. SameAs(j, k) /\ j.kind = "held" /\ k.row = j.row /\ Active(k)
      BY <1>1, <2>3 DEF Goes, SameAs
    <3>2. CASE HeldRead(t)
      <4>1. ASSUME NEW ans \in Agreed \cup {"error"}, Ends(t, ans) PROVE FALSE
        BY <4>1, IdleJob DEF Ends
      <4>2. k.ok => DuringPause(j)
        BY <1>1, <3>2, <4>1, HeldReadDoes DEF Agreed
      <4> QED
        BY <3>1, <4>2 DEF SameAs, DuringPause
    <3>3. CASE HeldPause(t)
      <4>1. j.pc = "pause" /\ k.ok = j.ok
        BY <1>1, <3>3, PauseDoes
      <4> QED
        BY <1>1, <3>1, <4>1 DEF SameAs, Whole, PausedBefore
    <3> QED
      BY <2>3, <3>2, <3>3, HeldOn
  <2> QED
    BY <1>1, <2>1, <2>2, <2>3, JobWriters
<1>4. k # Idle /\ paused \subseteq Accounts
  BY IdleJob DEF Shape, Shapes
<1>5. PICK a : a = k.account
  OBVIOUS
<1>6. a \in paused' /\ pausedBy'[a] = pausedBy[a]
  BY <1>3, <1>4, <1>5, PauseStays
<1> QED
  BY <1>3, <1>5, <1>6

\* Markers stay, and a row's person and origin are for good.
LEMMA MarkedStays ==
  ASSUME RowsKept, [Next]_vars, NEW r \in Rows, ~New(r)
  PROVE  row'[r].fed = row[r].fed /\ (Marked(r) => Marked(r)')
<1>1. skipped \subseteq skipped'
  BY SkippedWriters DEF MarkSkipped
<1> QED
  BY <1>1 DEF RowsKept, Marked

\* Only the guarded delete takes a row away.
LEMMA OnlyDeleted ==
  ASSUME Shape, [Next]_vars, NEW r \in Rows, Exists(r), ~Exists(r)'
  PROVE  \E s \in Slots : DeleteRow(s) /\ job[s].row = r
<1>1. ~RowsStand
  BY DEF RowsStand
<1>2. row' # row
  BY <1>1, SameRows
<1>3. ASSUME NEW s \in Slots, MoveRow(s) PROVE FALSE
  BY <1>1, <1>2, <1>3, RowMoves DEF MoveRow
<1>4. ASSUME NEW s \in Slots, ByHandInsert(s) PROVE FALSE
  BY <1>1, <1>2, <1>4, ByHandInsertDoes, RowAdded
<1>5. ASSUME NEW s \in Slots, NEW q \in Rows, FeedInsert(s, q) PROVE FALSE
  BY <1>1, <1>2, <1>5, FeedDoes, RowAdded
<1>6. ASSUME NEW p \in People, NEW a \in Accounts, NEW q \in Rows, Request(p, a, q) PROVE FALSE
  <2>1. row[q] = NewRow /\ Insert(q, p, a, "waiting", FALSE)
    BY <1>6 DEF Request
  <2> QED
    BY <1>1, <2>1, RowAdded
<1>7. ASSUME NEW q \in Rows, NEW a \in Accounts, Reassign(q, a) PROVE FALSE
  BY <1>1, <1>7, RowReassigned
<1>8. ASSUME NEW s \in Slots, DeleteRow(s) PROVE job[s].row = r
  <2>1. PICK q : q = job[s].row
    OBVIOUS
  <2>2. \A u \in Rows : u # q => row'[u] = row[u]
    BY <1>8, <2>1, RowRemoved
  <2>3. r = q
    BY <2>2 DEF Exists
  <2> QED
    BY <2>1, <2>3
<1> QED
  BY RowWriters, <1>2, <1>3, <1>4, <1>5, <1>6, <1>7, <1>8

\* A failure in the log after a step was there before, or is recorded by it.
LEMMA OldOrNew ==
  ASSUME Shape, [Next]_vars, NEW r \in Rows, NEW i \in Failures(r)', NEW e, e = log'[r][i]
  PROVE  \/ i \in Failures(r) /\ e = log[r][i] /\ e \in EventShape
         \/ \E s \in Slots :
              /\ HeldRecord(s) /\ job[s].row = r /\ job[s].kind = "held" /\ job[s].pc = "record"
              /\ e = Failed(job[s].account, job[s].lease, job[s].outcome, job[s].release,
                            job[s].skip, job[s].ok)
<1>1. CASE NothingFailed
  BY <1>1, FailureShape DEF NothingFailed
<1>2. ASSUME NEW s \in Slots, HeldRecord(s)
      PROVE  \/ i \in Failures(r) /\ e = log[r][i]
             \/ job[s].row = r /\ e = Failed(job[s].account, job[s].lease, job[s].outcome,
                                             job[s].release, job[s].skip, job[s].ok)
  <2>1. PICK j : j = job[s]
    OBVIOUS
  <2>2. CASE r # j.row
    <3>1. log'[r] = log[r]
      BY <1>2, <2>1, <2>2, OneFailure
    <3> QED
      BY <3>1 DEF Failures
  <2>3. CASE r = j.row
    <3>1. PICK n \in Nat :
            /\ \A h \in Failures(j.row) : h \in Nat /\ h < n
            /\ Failures(j.row)' = Failures(j.row) \cup {n}
            /\ log'[j.row][n] = Failed(j.account, j.lease, j.outcome, j.release, j.skip, j.ok)
            /\ \A h \in Failures(j.row) : log'[j.row][h] = log[j.row][h]
      BY <1>2, <2>1, OneFailure
    <3>2. i \in Failures(j.row) \/ i = n
      <4>1. Failures(r)' = Failures(j.row)'
        BY <2>3
      <4> QED
        BY <3>1, <4>1
    <3> QED
      BY <2>1, <2>3, <3>1, <3>2
  <2> QED
    BY <2>2, <2>3
<1>3. ASSUME NEW s \in Slots, HeldRecord(s) PROVE job[s].kind = "held" /\ job[s].pc = "record"
  BY <1>3, RecordDoes
<1> QED
  BY LogWriters, <1>1, <1>2, <1>3, FailureShape

\* A row that goes under a report that is letting it go was cancelled, and so marked.
LEMMA GoneUnder ==
  ASSUME Shape, Turns, Whole, [Next]_vars, NEW t \in Slots, NEW j, j = job[t],
         j.kind = "held", Active(j), j.pc # "delete", row[j.row].fed,
         ~Exists(j.row) => Marked(j.row), ~Exists(j.row)'
  PROVE  Marked(j.row)'
<1>1. PICK r : r = j.row
  OBVIOUS
<1>2. r \in Rows /\ ~New(r)
  BY <1>1, JobFields
<1>3. RowsKept
  BY StepRows
<1>4. Marked(r)
  <2>1. CASE ~Exists(r)
    BY <1>1, <2>1
  <2>2. CASE Exists(r)
    <3>1. PICK s \in Slots : DeleteRow(s) /\ job[s].row = r
      BY <1>1, <1>2, <2>2, OnlyDeleted
    <3>2. /\ job[s].pc = "delete" /\ job[s].kind \in {"held", "cancel"} /\ Active(job[s]) /\ s # t
      BY <3>1, WhereFrom DEF DeleteRow
    <3>3. job[s].kind # "held"
      <4>1. job[s].kind = "held" => SameTurn(job[s], job[t])
        BY <1>1, <3>1 DEF SameTurn
      <4> QED
        BY <3>2, <4>1 DEF Turns, InTurn
    <3> QED
      BY <1>1, <3>1, <3>2, <3>3 DEF Whole, LettingGo
  <2> QED
    BY <2>1, <2>2
<1>5. Marked(r)'
  BY <1>2, <1>3, <1>4, MarkedStays
<1> QED
  BY <1>1, <1>5

LEMMA ReleasesStill ==
  ASSUME Shape, Turns, Whole, [Next]_vars, NEW t \in Slots, NEW k, k = job'[t],
         k.kind = "held", k.pc \in {"pause", "record"}, k.release
  PROVE  row'[k.row].fed /\ (~Exists(k.row)' => Marked(k.row)')
<1>1. PICK j : j = job[t]
  OBVIOUS
<1>2. RowsKept
  BY StepRows
<1>3. CASE k = j
  <2>1. /\ j.row \in Rows /\ ~New(j.row) /\ Active(j) /\ row[j.row].fed
        /\ ~Exists(j.row) => Marked(j.row)
    BY <1>1, <1>3, JobFields DEF Whole, LettingGo, Active
  <2>2. row'[j.row].fed
    BY <1>2, <2>1, MarkedStays
  <2>3. ~Exists(j.row)' => Marked(j.row)'
    BY <1>1, <1>3, <2>1, GoneUnder
  <2> QED
    BY <1>3, <2>2, <2>3
<1>4. CASE Goes(t) /\ StepsOf(t)
  <2>1. SameAs(j, k) /\ j.kind = "held" /\ k.row = j.row
    BY <1>1, <1>4 DEF Goes, SameAs
  <2>2. j.row \in Rows /\ ~New(j.row) /\ Active(k)
    BY <1>1, <1>4, <2>1, JobFields DEF Goes
  <2>3. CASE HeldRead(t)
    <3>1. ASSUME NEW ans \in Agreed \cup {"error"}, Ends(t, ans) PROVE FALSE
      BY <3>1, IdleJob DEF Ends
    <3>2. Exists(j.row) /\ row[j.row].fed
      BY <1>1, <2>3, <3>1, HeldReadDoes DEF Agreed
    <3>3. row' = row
      BY <2>3 DEF HeldRead
    <3> QED
      BY <2>1, <3>2, <3>3 DEF Exists
  <2>4. CASE HeldPause(t)
    <3>1. j.pc = "pause" /\ k.release = j.release
      BY <1>1, <2>4, PauseDoes
    <3>2. row[j.row].fed /\ (~Exists(j.row) => Marked(j.row))
      BY <1>1, <2>1, <3>1 DEF Whole, LettingGo
    <3>3. row' = row /\ skipped' = skipped
      BY <2>4 DEF HeldPause
    <3> QED
      BY <2>1, <3>2, <3>3 DEF Exists, Marked
  <2> QED
    BY <1>4, <2>3, <2>4, HeldOn
<1>5. k # Idle /\ ~Takes(t) /\ ~Asks(t)
  BY IdleJob DEF Takes, Asks
<1> QED
  BY <1>1, <1>3, <1>4, <1>5, JobWriters

\* Only the three steps before it send a held report to its delete.
LEMMA ToDelete ==
  ASSUME Shape, NEW s \in Slots, Goes(s), StepsOf(s), job'[s].pc = "delete"
  PROVE  HeldRead(s) \/ HeldRecord(s) \/ MarkSkipped(s)
<1>1. ASSUME NEW ans \in Agreed \cup {"error"}, Ends(s, ans) PROVE FALSE
  BY <1>1, IdleJob DEF Ends
<1>2. CASE Enter(s) \/ ReadStatus(s) \/ MoveRow(s) \/ SentRead(s)
  BY <1>1, <1>2, EnterDoes, ReadDoes, MoveDoes, SentReadDoes DEF Agreed
<1>3. CASE HeldPause(s)
  BY <1>3, PauseDoes
<1>4. CASE ByHandInsert(s)
  BY <1>1, <1>4, ByHandInsertDoes DEF Agreed
<1>5. CASE \E r \in Rows : ByHandRead(s, r)
  BY <1>1, <1>5, ByHandReadDoes DEF Agreed
<1> QED
  BY <1>2, <1>3, <1>4, <1>5 DEF StepsOf

\* Before a held report deletes a row whose person it skipped, the marker is there.
LEMMA DeletesStill ==
  ASSUME Shape, Turns, Told, Whole, [Next]_vars, NEW t \in Slots, NEW k, k = job'[t],
         k.kind = "held", k.pc = "delete", NEW i \in Failures(k.row)',
         NEW e, e = log'[k.row][i], e.lease = k.lease, e.skipped
  PROVE  Marked(k.row)'
<1>1. PICK j : j = job[t]
  OBVIOUS
<1>2. RowsKept
  BY StepRows
<1>3. CASE k = j
  <2>1. j.row \in Rows /\ ~New(j.row) /\ Active(j)
    BY <1>1, <1>3, JobFields DEF Active
  <2>2. i \in Failures(j.row) /\ e = log[j.row][i]
    <3>1. CASE NothingFailed
      BY <1>3, <2>1, <3>1 DEF NothingFailed
    <3>2. ASSUME NEW s \in Slots, HeldRecord(s)
          PROVE  i \in Failures(j.row) /\ e = log[j.row][i]
      <4>1. PICK h : h = job[s]
        OBVIOUS
      <4>2. h.kind = "held" /\ h.pc = "record" /\ Active(h) /\ s # t
        BY <1>1, <1>3, <3>2, <4>1, RecordDoes DEF Active
      <4>3. h.row # j.row
        <5>1. h.row = j.row => SameTurn(h, j)
          BY <1>3, <4>2 DEF SameTurn
        <5> QED
          BY <1>1, <2>1, <4>1, <4>2, <5>1 DEF Turns, InTurn
      <4>4. log'[j.row] = log[j.row]
        BY <2>1, <3>2, <4>1, <4>3, OneFailure
      <4> QED
        BY <1>3, <4>4 DEF Failures
    <3> QED
      BY <3>1, <3>2, LogWriters
  <2>3. Marked(j.row)
    BY <1>1, <1>3, <2>2 DEF Whole, LettingGo
  <2>4. Marked(j.row)'
    BY <1>2, <2>1, <2>3, MarkedStays
  <2> QED
    BY <1>3, <2>4
<1>4. CASE Goes(t) /\ StepsOf(t)
  <2>1. SameAs(j, k) /\ j.kind = "held" /\ k.row = j.row /\ k.lease = j.lease /\ Active(k)
    BY <1>1, <1>4 DEF Goes, SameAs
  <2>2. j.row \in Rows /\ ~New(j.row) /\ j.lease \in Nat
    BY <1>1, <2>1, JobFields
  <2>3. ASSUME NEW ans \in Agreed \cup {"error"}, Ends(t, ans) PROVE FALSE
    BY <2>3, IdleJob DEF Ends
  <2>4. CASE HeldRead(t)
    <3>1. i \in Failures(j.row) /\ e = log[j.row][i]
      <4>1. NothingFailed
        BY <2>4, HeldReadDoes
      <4> QED
        BY <2>1, <2>2, <4>1 DEF NothingFailed
    <3>2. PICK m \in Failures(j.row) : log[j.row][m].lease = j.lease /\ ~log[j.row][m].skipped
      BY <1>1, <2>3, <2>4, HeldReadDoes DEF Agreed
    <3>3. i = m
      <4>1. i \in Nat /\ m \in Nat
        BY <2>2, <3>1, FailureShape
      <4>2. /\ i < m => log[j.row][i].lease < log[j.row][m].lease
            /\ m < i => log[j.row][m].lease < log[j.row][i].lease
        BY <2>2, <3>1 DEF Told, InOrder
      <4> QED
        BY <2>1, <2>2, <3>1, <3>2, <4>1, <4>2
    <3> QED
      BY <3>1, <3>2, <3>3
  <2>5. CASE HeldRecord(t)
    <3>1. j.pc = "record" /\ ~j.skip
      BY <1>1, <2>3, <2>5, RecordDoes DEF Agreed
    <3>2. ASSUME NEW s \in Slots, job[s].row = j.row, job[s].kind = "held", job[s].pc = "record"
          PROVE  s = t
      <4>1. SameTurn(job[s], j) /\ Active(job[s]) /\ Active(j)
        BY <2>1, <3>1, <3>2 DEF SameTurn, Active
      <4> QED
        BY <1>1, <4>1 DEF Turns, InTurn
    <3>3. ASSUME e = Failed(j.account, j.lease, j.outcome, j.release, j.skip, j.ok) PROVE FALSE
      BY <3>1, <3>3 DEF Failed
    <3>4. i \in Failures(j.row) /\ e = log[j.row][i] /\ e \in EventShape
      <4>1. i \in Failures(j.row)' /\ e = log'[j.row][i]
        BY <2>1
      <4> QED
        BY <1>1, <2>2, <3>2, <3>3, <4>1, OldOrNew
    <3>5. e.lease < j.lease /\ e.lease \in Nat
      BY <1>1, <2>1, <3>1, <3>4 DEF Told, Heard, EventShape
    <3> QED
      BY <2>1, <2>2, <3>5
  <2>6. CASE MarkSkipped(t)
    <3>1. row' = row /\ skipped' = skipped \cup {row[j.row].person}
      BY <1>1, <2>6 DEF MarkSkipped
    <3> QED
      BY <2>1, <3>1 DEF Marked
  <2> QED
    BY <1>4, <2>4, <2>5, <2>6, ToDelete
<1>5. k # Idle /\ ~Takes(t) /\ ~Asks(t)
  BY IdleJob DEF Takes, Asks
<1> QED
  BY <1>1, <1>3, <1>4, <1>5, JobWriters

\* ... and before a cancel deletes a row the folder added.
LEMMA CancelsStill ==
  ASSUME Shape, Whole, [Next]_vars, NEW t \in Slots, NEW k, k = job'[t],
         k.kind = "cancel", k.pc = "delete", row'[k.row].fed
  PROVE  Marked(k.row)'
<1>1. PICK j : j = job[t]
  OBVIOUS
<1>2. RowsKept /\ k # Idle /\ ~Asks(t)
  BY StepRows, IdleJob DEF Asks
<1>3. CASE k = j
  <2>1. j.row \in Rows /\ ~New(j.row)
    BY <1>1, <1>3, WhereFrom
  <2>2. row'[j.row].fed = row[j.row].fed
    BY <1>2, <2>1, MarkedStays
  <2>3. Marked(j.row)
    BY <1>1, <1>3, <2>2 DEF Whole, LettingGo
  <2>4. Marked(j.row)'
    BY <1>2, <2>1, <2>3, MarkedStays
  <2> QED
    BY <1>3, <2>4
<1>4. CASE Goes(t) /\ StepsOf(t)
  <2>1. j.kind = "cancel" /\ k.row = j.row
    BY <1>1, <1>4 DEF Goes, SameAs
  <2>2. MarkSkipped(t)
    <3>1. CASE HeldRead(t)
      BY <1>1, <2>1, <3>1 DEF HeldRead
    <3>2. CASE HeldRecord(t)
      BY <1>1, <2>1, <3>2, RecordDoes
    <3> QED
      BY <1>4, <3>1, <3>2, ToDelete
  <2>3. row' = row /\ skipped' = skipped \cup {row[j.row].person}
    BY <1>1, <2>2 DEF MarkSkipped
  <2> QED
    BY <2>1, <2>3 DEF Marked
<1>5. CASE Takes(t) /\ \E r \in Rows : CancelCall(t, r)
  <2>1. PICK r \in Rows : CancelCall(t, r)
    BY <1>5
  <2>2. k.row = r /\ ~row[r].fed
    BY <2>1, CancelDoes
  <2>3. row' = row
    BY <2>1 DEF CancelCall, tables
  <2> QED
    BY <2>2, <2>3
<1> QED
  BY <1>1, <1>2, <1>3, <1>4, <1>5, JobWriters

\* The session's number only grows.
LEMMA LeaseGrows ==
  ASSUME Shape, [Next]_vars
  PROVE  agent'.lease = agent.lease \/ agent'.lease = agent.lease + 1
<1>1. agent \in AgentShape
  BY DEF Shape, Shapes
<1>2. ASSUME NEW ans, agent' = [agent EXCEPT !.answer = ans] PROVE agent'.lease = agent.lease
  BY <1>1, <1>2 DEF AgentShape
<1>3. ASSUME NEW s \in Slots, Serves(s) PROVE agent'.lease = agent.lease
  BY <1>2, <1>3 DEF Serves, Goes, Takes, Ends
<1> QED
  BY StepKinds, <1>3 DEF Asks, Walks

LEMMA GoneStill ==
  ASSUME Shape, Turns, Told, Whole, [Next]_vars, NEW r \in Rows, NEW i \in Failures(r)',
         NEW e, e = log'[r][i], e.released
  PROVE  /\ row'[r].fed
         /\ e.skipped /\ e.lease = agent'.lease /\ ~Exists(r)' => Marked(r)'
<1>1. RowsKept
  BY StepRows
<1>2. CASE i \in Failures(r) /\ e = log[r][i] /\ e \in EventShape
  <2>1. Asking(r, e)
    BY <1>2 DEF Told
  <2>2. ~New(r) /\ e.lease > 0 /\ e.lease <= agent.lease /\ e.lease \in Nat /\ agent.lease \in Nat
    BY <1>2, <2>1 DEF Asking, EventShape, Shape, Shapes, AgentShape
  <2>3. row[r].fed /\ row'[r].fed
    BY <1>1, <1>2, <2>2, MarkedStays DEF Whole, Gone
  <2>4. ASSUME e.skipped, e.lease = agent'.lease, ~Exists(r)' PROVE Marked(r)
    <3>1. e.lease = agent.lease
      BY <2>2, <2>4, LeaseGrows
    <3>2. CASE ~Exists(r)
      BY <1>2, <2>4, <3>1, <3>2 DEF Whole, Gone
    <3>3. CASE Exists(r)
      <4>1. PICK s \in Slots : DeleteRow(s) /\ job[s].row = r
        BY <2>4, <3>3, OnlyDeleted
      <4>2. PICK j : j = job[s]
        OBVIOUS
      <4>3. j.pc = "delete" /\ j.kind \in {"held", "cancel"} /\ j.row = r
        BY <4>1, <4>2, WhereFrom DEF DeleteRow
      <4>4. CASE j.kind = "cancel"
        BY <2>3, <4>2, <4>3, <4>4 DEF Whole, LettingGo
      <4>5. CASE j.kind = "held"
        <5>1. e.lease <= j.lease /\ j.lease <= agent.lease /\ j.lease \in Nat
          BY <1>2, <4>2, <4>3, <4>5, JobFields DEF Told, Heard, Turns, Asked
        <5>2. e.lease = j.lease
          BY <2>2, <3>1, <5>1
        <5> QED
          BY <1>2, <2>4, <4>2, <4>3, <4>5, <5>2 DEF Whole, LettingGo
      <4> QED
        BY <4>3, <4>4, <4>5
    <3> QED
      BY <3>2, <3>3
  <2>5. Marked(r) => Marked(r)'
    BY <1>1, <2>2, MarkedStays
  <2> QED
    BY <2>3, <2>4, <2>5
<1>3. ASSUME NEW s \in Slots, HeldRecord(s), NEW j, j = job[s], j.row = r, j.kind = "held",
             j.pc = "record", e = Failed(j.account, j.lease, j.outcome, j.release, j.skip, j.ok)
      PROVE  /\ row'[r].fed
             /\ e.skipped /\ ~Exists(r)' => Marked(r)'
  <2>1. j.release
    BY <1>3 DEF Failed
  <2>2. row[r].fed /\ (~Exists(r) => Marked(r))
    BY <1>3, <2>1 DEF Whole, LettingGo
  <2>3. row' = row /\ skipped' = skipped
    BY <1>3 DEF HeldRecord
  <2> QED
    BY <2>2, <2>3 DEF Exists, Marked
<1> QED
  BY OldOrNew, <1>2, <1>3

\* The pause an attempt began is named to its own report only.
LEMMA ParksStill ==
  ASSUME Shape, Told, Whole, [Next]_vars, NEW r \in Rows, NEW i \in Failures(r)',
         NEW e, e = log'[r][i], e.outcome = "blocked", pausedBy'[e.account] = <<r, e.lease>>
  PROVE  ~e.duringPause
<1>1. CASE i \in Failures(r) /\ e = log[r][i] /\ e \in EventShape
  <2>1. e.lease > 0 /\ e.account \in Accounts /\ e.lease \in Nat
    BY <1>1 DEF Told, Asking, EventShape
  <2>2. pausedBy[e.account] = <<r, e.lease>> => ~e.duringPause
    BY <1>1 DEF Whole, HeldReportIsWhole, SelfPauseParks, Failures
  <2>3. ASSUME NEW s \in Slots, HeldPause(s) PROVE pausedBy[e.account] = <<r, e.lease>>
    <3>1. PICK j : j = job[s]
      OBVIOUS
    <3>2. j.kind = "held" /\ j.pc = "pause" /\ j.row \in Rows /\ j.lease \in Nat
      BY <2>3, <3>1, PauseDoes, JobFields
    <3>3. pausedBy' = IF j.account \in paused THEN pausedBy
                      ELSE [pausedBy EXCEPT ![j.account] = <<j.row, j.lease>>]
      BY <2>3, <3>1 DEF HeldPause
    <3>4. CASE j.account = e.account /\ j.account \notin paused
      <4>1. pausedBy'[e.account] = <<j.row, j.lease>>
        BY <2>1, <3>3, <3>4 DEF Shape, Shapes
      <4>2. j.row = r /\ j.lease = e.lease
        BY <4>1
      <4>3. e.lease < j.lease
        BY <1>1, <3>1, <3>2, <4>2 DEF Told, Heard
      <4> QED
        BY <2>1, <3>2, <4>2, <4>3
    <3>5. CASE j.account # e.account \/ j.account \in paused
      BY <3>3, <3>5 DEF Shape, Shapes
    <3> QED
      BY <3>4, <3>5
  <2>4. ASSUME NEW b \in Accounts, Warn(b) PROVE pausedBy[e.account] = <<r, e.lease>>
    <3>1. CASE b = e.account
      <4>1. pausedBy'[e.account] = <<None, 0>>
        BY <2>1, <2>4, <3>1 DEF Warn, Shape, Shapes
      <4>2. e.lease = 0
        BY <4>1
      <4> QED
        BY <2>1, <4>2
    <3>2. CASE b # e.account
      BY <2>1, <2>4, <3>2 DEF Warn, Shape, Shapes
    <3> QED
      BY <3>1, <3>2
  <2>5. CASE NewDay
    <3>1. pausedBy' = pausedBy
      BY <2>5 DEF NewDay
    <3> QED
      BY <2>2, <3>1
  <2>6. CASE paused' = paused /\ pausedBy' = pausedBy
    BY <2>2, <2>6
  <2> QED
    BY PauseWriters, <2>6, <2>2, <2>3, <2>4, <2>5
<1>2. ASSUME NEW s \in Slots, HeldRecord(s), NEW j, j = job[s], j.row = r, j.kind = "held",
             j.pc = "record", e = Failed(j.account, j.lease, j.outcome, j.release, j.skip, j.ok)
      PROVE  ~e.duringPause
  <2>1. /\ e.account = j.account /\ e.lease = j.lease /\ e.outcome = j.outcome
        /\ e.duringPause = j.ok
    BY <1>2 DEF Failed
  <2>2. pausedBy' = pausedBy
    BY <1>2 DEF HeldRecord
  <2>3. ~j.ok
    BY <1>2, <2>1, <2>2 DEF Whole, PausedBefore
  <2> QED
    BY <2>1, <2>3
<1> QED
  BY OldOrNew, <1>1, <1>2

-----------------------------------------------------------------------------
(* What the agent is told.                                                 *)

\* Which steps tell the agent to go on, and of which reports.
Telling(s, ans) ==
  /\ Ends(s, ans) /\ agent.at = "asked" /\ agent.lease = job[s].lease
  /\ agent' = [agent EXCEPT !.answer = ans]

LEMMA Tellers ==
  ASSUME Shape, [Next]_vars, agent'.at = "asked", agent'.answer \in {"go", "stop"}
  PROVE  \/ agent' = agent
         \/ \E s \in Slots, ans \in {"go", "stop"} :
              /\ Telling(s, ans)
              /\ job[s].kind = "held" => HeldRead(s) \/ HeldRecord(s) \/ DeleteRow(s)
<1> DEFINE Goal == \/ agent' = agent
                   \/ \E s \in Slots, ans \in {"go", "stop"} :
                        /\ Telling(s, ans)
                        /\ job[s].kind = "held" => HeldRead(s) \/ HeldRecord(s) \/ DeleteRow(s)
<1>1. ASSUME NEW s \in Slots, Goes(s) \/ Takes(s) PROVE Goal
  BY <1>1 DEF Goes, Takes
<1>2. ASSUME NEW s \in Slots, Asks(s) PROVE FALSE
  BY <1>2 DEF Asks, None
<1>3. ASSUME Walks PROVE FALSE
  BY <1>3 DEF Walks
<1>4. ASSUME NEW s \in Slots, NEW ans \in {"refused", "error"}, Ends(s, ans) PROVE Goal
  <2>1. agent' = [agent EXCEPT !.answer = ans] => agent'.answer = ans
    BY DEF Shape, Shapes, AgentShape
  <2> QED
    BY <1>4, <2>1 DEF Ends
<1>5. ASSUME NEW s \in Slots, NEW ans \in {"go", "stop"}, Ends(s, ans),
             job[s].kind = "held" => HeldRead(s) \/ HeldRecord(s) \/ DeleteRow(s)
      PROVE  Goal
  <2>1. CASE agent' = agent
    BY <2>1
  <2>2. CASE Telling(s, ans)
    BY <1>5, <2>2
  <2> QED
    BY <1>5, <2>1, <2>2 DEF Ends, Telling
<1>6. CASE agent' = agent
  BY <1>6
<1> HIDE DEF Goal
<1>7. ASSUME NEW s \in Slots, Enter(s) \/ HeldPause(s) \/ MarkSkipped(s) PROVE Goal
  BY <1>1, <1>7, EnterDoes, PauseDoes, MarkDoes
<1>8. ASSUME NEW s \in Slots, ReadStatus(s) PROVE Goal
  <2>1. job[s].kind # "held"
    BY <1>8, WhereFrom DEF ReadStatus
  <2> QED
    BY <1>1, <1>5, <1>8, <2>1, ReadDoes
<1>9. ASSUME NEW s \in Slots, MoveRow(s) PROVE Goal
  <2>1. job[s].kind # "held"
    BY <1>9, WhereFrom DEF MoveRow
  <2> QED
    BY <1>1, <1>5, <1>9, <2>1, MoveDoes
<1>10. ASSUME NEW s \in Slots, Commit(s) PROVE Goal
  <2>1. job[s].kind # "held"
    BY <1>10, WhereFrom DEF Commit
  <2> QED
    BY <1>5, <1>10, <2>1, CommitDoes
<1>11. ASSUME NEW s \in Slots, SentRead(s) PROVE Goal
  BY <1>1, <1>4, <1>11, SentReadDoes
<1>12. ASSUME NEW s \in Slots, HeldRead(s) PROVE Goal
  <2>1. Ends(s, "refused") \/ Goes(s) \/ \E ans \in {"go", "stop"} : Ends(s, ans)
    BY <1>12, HeldReadDoes
  <2> QED
    BY <1>1, <1>4, <1>5, <1>12, <2>1
<1>13. ASSUME NEW s \in Slots, HeldRecord(s) PROVE Goal
  <2>1. Goes(s) \/ \E ans \in {"go", "stop"} : Ends(s, ans)
    BY <1>13, RecordDoes
  <2> QED
    BY <1>1, <1>5, <1>13, <2>1
<1>14. ASSUME NEW s \in Slots, DeleteRow(s) PROVE Goal
  BY <1>5, <1>14, DeleteDoes
<1>15. ASSUME NEW s \in Slots, ByHandInsert(s) PROVE Goal
  <2>1. Goes(s) \/ Ends(s, "error")
    BY <1>15, ByHandInsertDoes
  <2> QED
    BY <1>1, <1>4, <2>1
<1>16. ASSUME NEW s \in Slots, Fail(s) PROVE Goal
  BY <1>4, <1>16, FailDoes
<1>17. ASSUME NEW s \in Slots, Report(s) PROVE Goal
  BY <1>2, <1>17, AsksDoes
<1>18. ASSUME NEW s \in Slots, NEW r \in Rows, FeedInsert(s, r) PROVE Goal
  BY <1>4, <1>18, FeedDoes
<1>19. ASSUME NEW s \in Slots, NEW r \in Rows, ByHandRead(s, r) PROVE Goal
  <2>1. Goes(s) \/ Ends(s, "error")
    BY <1>19, ByHandReadDoes
  <2> QED
    BY <1>1, <1>4, <2>1
<1>20. ASSUME NEW s \in Slots, NEW r \in Rows, CancelCall(s, r) PROVE Goal
  BY <1>1, <1>20, CancelDoes
<1>21. ASSUME NEW s \in Slots, NEW r \in Rows, NEW c \in {"check", "reply"}, Saw(s, r, c) PROVE Goal
  BY <1>1, <1>21, SawDoes
<1>22. ASSUME NEW s \in Slots, NEW p \in People, FeedWalk(s, p) PROVE Goal
  BY <1>1, <1>22, FeedWalkDoes
<1>23. ASSUME NEW s \in Slots, NEW p \in People, NEW a \in Accounts, ByHandCall(s, p, a) PROVE Goal
  BY <1>1, <1>23, ByHandDoes
<1>24. ASSUME NEW p \in People, NEW a \in Accounts, NEW r \in Rows, Request(p, a, r) PROVE Goal
  BY <1>24 DEF Request, Goal
<1>25. ASSUME NEW r \in Rows, NEW a \in Accounts, Reassign(r, a) PROVE Goal
  BY <1>25 DEF Reassign, Goal
<1>26. ASSUME NEW r \in Rows, Prepare(r) PROVE Goal
  BY <1>3, <1>26, PrepareDoes
<1>27. ASSUME NEW o \in Outcomes \cup {"already_pending", "already_connected"}, Visit(o) PROVE Goal
  BY <1>3, <1>27, VisitDoes
<1>28. ASSUME NEW a \in Accounts, Begin(a) PROVE Goal
  BY <1>3, <1>28, BeginDoes
<1>29. ASSUME NEW a \in Accounts, Warn(a) PROVE Goal
  BY <1>29 DEF Warn, Goal
<1>30. ASSUME NEW x \in Accounts \X People, Respond(x) PROVE Goal
  BY <1>30 DEF Respond, Goal
<1>31. ASSUME Finish \/ Die PROVE Goal
  <2>1. agent' = Home /\ job' = job
    BY <1>31 DEF Finish, Die
  <2> QED
    BY <1>3, <2>1, AtHome
<1>32. ASSUME Hear PROVE Goal
  BY <1>3, <1>32, HearDoes
<1>33. ASSUME NewDay \/ UNCHANGED vars PROVE Goal
  BY <1>33 DEF NewDay, vars, Goal
<1> QED
  BY StepCases, <1>7, <1>8, <1>9, <1>10, <1>11, <1>12, <1>13, <1>14, <1>15, <1>16, <1>17, <1>18,
     <1>19, <1>20, <1>21, <1>22, <1>23, <1>24, <1>25, <1>26, <1>27, <1>28, <1>29, <1>30, <1>31,
     <1>32, <1>33 DEF Goal

\* A report answered is a report whose row is no longer to be let go.
LEMMA ToldTruth ==
  ASSUME Shape, Turns, Told, Whole, [Next]_vars, NEW s \in Slots, NEW ans \in {"go", "stop"},
         Telling(s, ans), HeldRead(s) \/ HeldRecord(s) \/ DeleteRow(s), NEW j, j = job[s],
         j.kind = "held", NEW i \in Failures(j.row)', NEW e, e = log'[j.row][i],
         e.lease = j.lease, e.released
  PROVE  ~Waiting(j.row)'
<1>1. j.row \in Rows /\ j.lease \in Nat /\ agent'.answer = ans /\ agent.answer \notin Agreed
  <2>1. j.row \in Rows /\ j.lease \in Nat /\ j.lease > 0
    BY JobFields
  <2>2. agent'.answer = ans
    BY DEF Telling, Shape, Shapes, AgentShape
  <2>3. agent.answer \notin Agreed
    BY <2>1 DEF Telling, Turns, Asked
  <2> QED
    BY <2>1, <2>2, <2>3
<1>2. ~Goes(s) /\ ~Ends(s, "refused")
  <2>1. ~Goes(s)
    BY IdleJob DEF Telling, Goes, Ends, Active
  <2>2. agent' = [agent EXCEPT !.answer = "refused"] => agent'.answer = "refused"
    BY DEF Shape, Shapes, AgentShape
  <2>3. ~Ends(s, "refused")
    BY <1>1, <2>2 DEF Ends, Agreed
  <2> QED
    BY <2>1, <2>3
<1>3. CASE DeleteRow(s)
  BY <1>3, RowRemoved
<1>4. CASE HeldRead(s)
  <2>1. row' = row /\ NothingFailed
    <3>1. row' = row
      BY <1>4 DEF HeldRead
    <3>2. NothingFailed
      BY <1>4, HeldReadDoes
    <3> QED
      BY <3>1, <3>2
  <2>2. i \in Failures(j.row) /\ e = log[j.row][i]
    BY <1>1, <2>1 DEF NothingFailed
  <2>3. CASE ~Exists(j.row)
    BY <2>1, <2>3 DEF Exists, Waiting, Stages
  <2>4. CASE Exists(j.row)
    <3>1. PICK m \in Failures(j.row) :
            /\ log[j.row][m].lease = j.lease
            /\ log[j.row][m].released => ~(row[j.row].fed /\ Waiting(j.row))
      BY <1>2, <1>4, <2>4, HeldReadDoes
    <3>2. i = m
      <4>1. i \in Nat /\ m \in Nat
        BY <1>1, <2>2, FailureShape
      <4>2. /\ i < m => log[j.row][i].lease < log[j.row][m].lease
            /\ m < i => log[j.row][m].lease < log[j.row][i].lease
        BY <1>1, <2>2 DEF Told, InOrder
      <4> QED
        BY <1>1, <2>2, <3>1, <4>1, <4>2
    <3>3. row[j.row].fed
      BY <1>1, <2>2 DEF Whole, Gone
    <3> QED
      BY <2>1, <2>2, <3>1, <3>2, <3>3 DEF Waiting
  <2> QED
    BY <2>3, <2>4
<1>5. CASE HeldRecord(s)
  <2>1. ~j.release /\ j.pc = "record"
    BY <1>2, <1>5, RecordDoes
  <2>2. CASE i \in Failures(j.row) /\ e = log[j.row][i] /\ e \in EventShape
    <3>1. e.lease < j.lease
      BY <2>1, <2>2 DEF Told, Heard
    <3> QED
      BY <1>1, <3>1
  <2>3. ASSUME NEW t \in Slots, HeldRecord(t), job[t].row = j.row, job[t].kind = "held",
               job[t].pc = "record",
               e = Failed(job[t].account, job[t].lease, job[t].outcome, job[t].release,
                          job[t].skip, job[t].ok)
        PROVE  FALSE
    <3>1. t = s
      <4>1. SameTurn(job[t], j) /\ Active(job[t]) /\ Active(j)
        BY <2>1, <2>3 DEF SameTurn, Active
      <4> QED
        BY <4>1 DEF Turns, InTurn
    <3> QED
      BY <2>1, <2>3, <3>1 DEF Failed
  <2> QED
    BY <1>1, <2>2, <2>3, OldOrNew
<1> QED
  BY <1>3, <1>4, <1>5

\* What the agent was told stays true.
LEMMA TruthStays ==
  ASSUME Shape, Turns, Told, Whole, [Next]_vars, agent' = agent,
         agent.at = "asked", agent.answer \in {"go", "stop"}, agent.outcome \in HeldOutcomes,
         NEW i \in Failures(agent.row)', NEW e, e = log'[agent.row][i],
         e.lease = agent.lease, e.released
  PROVE  ~Waiting(agent.row)'
<1>1. PICK r : r = agent.row
  OBVIOUS
<1>2. r \in Rows /\ ~New(r) /\ agent.lease > 0 /\ agent.lease \in Nat
  BY <1>1 DEF Shape, Shapes, AgentOK, AgentShape
<1>3. RowsKept
  BY StepRows
<1>4. i \in Failures(r) /\ e = log[r][i]
  <2>1. ASSUME NEW s \in Slots, job[s].kind = "held",
               e = Failed(job[s].account, job[s].lease, job[s].outcome, job[s].release,
                          job[s].skip, job[s].ok)
        PROVE  FALSE
    <3>1. job[s].lease = agent.lease
      BY <2>1 DEF Failed
    <3> QED
      BY <1>2, <3>1 DEF Turns, Asked, Agreed
  <2>2. i \in Failures(r)' /\ e = log'[r][i]
    BY <1>1
  <2> QED
    BY <1>2, <2>1, <2>2, OldOrNew
<1>5. ~Waiting(r)
  BY <1>1, <1>4 DEF Whole, HeldReportIsWhole, LetGoIsWhole, Failures
<1>6. ~Waiting(r)'
  BY <1>2, <1>3, <1>5 DEF RowsKept
<1> QED
  BY <1>1, <1>6

LEMMA LetGoStill ==
  ASSUME Shape, Turns, Told, Whole, [Next]_vars,
         agent'.at = "asked", agent'.answer \in {"go", "stop"}, agent'.outcome \in HeldOutcomes,
         NEW r, r = agent'.row, NEW i \in Failures(r)', NEW e, e = log'[r][i],
         e.lease = agent'.lease, e.released
  PROVE  /\ ~Waiting(r)'
         /\ e.skipped /\ ~Exists(r)' => Marked(r)'
<1>1. r \in Rows
  <2>1. Shape'
    BY StepShape
  <2> QED
    BY <2>1 DEF Shape, AgentOK
<1>2. e.skipped /\ ~Exists(r)' => Marked(r)'
  BY <1>1, GoneStill
<1>3. ~Waiting(r)'
  <2>1. CASE agent' = agent
    <3>1. Failures(r)' = Failures(agent.row)' /\ r = agent.row
      BY <2>1
    <3> QED
      BY <2>1, <3>1, TruthStays
  <2>2. ASSUME NEW s \in Slots, NEW ans \in {"go", "stop"}, Telling(s, ans),
               job[s].kind = "held" => HeldRead(s) \/ HeldRecord(s) \/ DeleteRow(s)
        PROVE  ~Waiting(r)'
    <3>1. PICK j : j = job[s]
      OBVIOUS
    <3>2. /\ agent'.lease = agent.lease /\ agent'.row = agent.row
          /\ agent'.outcome = agent.outcome
      BY <2>2 DEF Telling, Shape, Shapes, AgentShape
    <3>3. agent.at = "asked" /\ agent.lease = j.lease /\ agent.lease > 0
      BY <2>2, <3>1 DEF Telling, Shape, AgentOK
    <3>4. j \in JobShape /\ JobOK(j)
      BY <3>1 DEF Shape, Shapes
    <3>5. j.row = agent.row /\ j.outcome = agent.outcome
      BY <3>1, <3>3 DEF Turns, Asked
    <3>6. j.kind = "held"
      <4>1. j.kind \in {"sent", "held"}
        BY <3>3, <3>4 DEF JobOK
      <4> QED
        BY <3>2, <3>4, <3>5, <4>1 DEF JobOK
    <3>7. r = j.row /\ e.lease = j.lease
      BY <3>2, <3>3, <3>5
    <3> QED
      BY <2>2, <3>1, <3>6, <3>7, ToldTruth
  <2> QED
    BY <2>1, <2>2, Tellers
<1> QED
  BY <1>2, <1>3

LEMMA InitWhole ==
  ASSUME Init
  PROVE  Whole
<1>1. \A r \in Rows : Failures(r) = {} /\ log[r] = <<>>
  BY DEF Init, Failures
<1>2. \A s \in Slots : job[s].kind = "idle" /\ job[s].pc = "idle"
  BY IdleJob DEF Init
<1>3. agent.at = "home"
  BY DEF Init, NoSession
<1>4. Gone /\ SelfPauseParks
  BY <1>1 DEF Gone, SelfPauseParks
<1> QED
  BY <1>2, <1>3, <1>4 DEF Whole, PausedBefore, LettingGo, HeldReportIsWhole, LetGoIsWhole

LEMMA StepWhole ==
  ASSUME Shape, Turns, Told, Whole, [Next]_vars
  PROVE  Whole'
<1>1. ASSUME NEW t \in Slots PROVE PausedBefore(job[t])'
  <2>1. PICK k : k = job'[t]
    OBVIOUS
  <2> QED
    BY <2>1, PausedStill DEF PausedBefore
<1>2. ASSUME NEW t \in Slots PROVE LettingGo(job[t])'
  <2>1. PICK k : k = job'[t]
    OBVIOUS
  <2>2. k.kind = "held" /\ k.pc \in {"pause", "record"} /\ k.release =>
          row'[k.row].fed /\ (~Exists(k.row)' => Marked(k.row)')
    BY <2>1, ReleasesStill
  <2>3. k.kind = "held" /\ k.pc = "delete" =>
          \A i \in Failures(k.row)' :
            log'[k.row][i].lease = k.lease /\ log'[k.row][i].skipped => Marked(k.row)'
    BY <2>1, DeletesStill
  <2>4. k.kind = "cancel" /\ k.pc = "delete" /\ row'[k.row].fed => Marked(k.row)'
    BY <2>1, CancelsStill
  <2> QED
    BY <2>1, <2>2, <2>3, <2>4 DEF LettingGo, Exists, Marked, Failures
<1>3. Gone'
  <2>1. ASSUME NEW r \in Rows, NEW i \in Failures(r)', NEW e, e = log'[r][i], e.released
        PROVE  row'[r].fed /\ (e.skipped /\ e.lease = agent'.lease /\ ~Exists(r)' => Marked(r)')
    BY <2>1, GoneStill
  <2> QED
    BY <2>1 DEF Gone
<1>4. SelfPauseParks'
  <2>1. ASSUME NEW r \in Rows, NEW i \in Failures(r)', NEW e, e = log'[r][i],
               e.outcome = "blocked", pausedBy'[e.account] = <<r, e.lease>>
        PROVE  ~e.duringPause
    BY <2>1, ParksStill
  <2>2. ASSUME NEW r \in Rows, NEW i \in DOMAIN log'[r], IsFailure(log'[r][i]),
               log'[r][i].outcome = "blocked",
               pausedBy'[log'[r][i].account] = <<r, log'[r][i].lease>>
        PROVE  ~log'[r][i].duringPause
    <3>1. i \in Failures(r)'
      BY <2>2 DEF Failures
    <3> QED
      BY <2>1, <2>2, <3>1
  <2> QED
    BY <2>2 DEF SelfPauseParks, IsFailure
<1>5. LetGoIsWhole'
  <2>1. ASSUME agent'.at = "asked", agent'.answer \in {"go", "stop"},
               agent'.outcome \in HeldOutcomes, NEW r, r = agent'.row,
               NEW i \in Failures(r)', NEW e, e = log'[r][i], e.lease = agent'.lease, e.released
        PROVE  ~Waiting(r)' /\ (e.skipped /\ ~Exists(r)' => Marked(r)')
    BY <2>1, LetGoStill
  <2> QED
    BY <2>1 DEF LetGoIsWhole, Failures, Waiting, Exists, Marked
<1> QED
  BY <1>1, <1>2, <1>3, <1>4, <1>5 DEF Whole, HeldReportIsWhole

-----------------------------------------------------------------------------
(* The sessions and the days stay within their bounds, in every record of  *)
(* them.                                                                   *)

\* An event carries the day it was written on and the session of its report.
LEMMA LogGrows ==
  ASSUME Shape, [Next]_vars
  PROVE  \/ log' = log
         \/ \E r \in Rows, e \in EventShape :
              /\ log' = [log EXCEPT ![r] = Append(@, e)] /\ e.day = day
              /\ e.lease = 0 \/ \E s \in Slots : e.lease = job[s].lease
<1> DEFINE Goal == \/ log' = log
                   \/ \E r \in Rows, e \in EventShape :
                        /\ log' = [log EXCEPT ![r] = Append(@, e)] /\ e.day = day
                        /\ e.lease = 0 \/ \E s \in Slots : e.lease = job[s].lease
<1>1. ASSUME NEW s \in Slots, NEW j, j = job[s], j.kind \in {"sent", "held"},
             log' = [log EXCEPT ![j.row] = Append(@, RowGone(j.account, j.lease, j.outcome))]
      PROVE  Goal
  <2>1. /\ j.row \in Rows /\ j.account \in Accounts /\ j.lease \in Nat /\ j.outcome \in Outs
        /\ day \in Nat
    BY <1>1 DEF Shape, Shapes, JobOK, JobShape
  <2>2. PICK e : e = RowGone(j.account, j.lease, j.outcome)
    OBVIOUS
  <2>3. e \in EventShape /\ e.day = day /\ e.lease = j.lease
    BY <2>1, <2>2 DEF RowGone, EventShape, Outs
  <2> QED
    BY <1>1, <2>1, <2>2, <2>3
<1>2. ASSUME NEW s \in Slots, SentRead(s) PROVE Goal
  BY <1>1, <1>2 DEF SentRead
<1>3. ASSUME NEW s \in Slots, HeldRead(s) PROVE Goal
  <2>1. log' = log \/ log' = [log EXCEPT ![job[s].row] =
                                Append(@, RowGone(job[s].account, job[s].lease, job[s].outcome))]
    BY <1>3 DEF HeldRead
  <2>2. job[s].kind = "held"
    BY <1>3 DEF HeldRead
  <2> QED
    BY <1>1, <2>1, <2>2
<1>4. ASSUME NEW s \in Slots, HeldRecord(s) PROVE Goal
  <2>1. PICK j : j = job[s]
    OBVIOUS
  <2>2. /\ j.row \in Rows /\ j.account \in Accounts /\ j.lease \in Nat /\ j \in JobShape
        /\ day \in Nat
    BY <1>4, <2>1, RecordDoes, JobFields DEF Shape, Shapes
  <2>3. PICK e : e = Failed(j.account, j.lease, j.outcome, j.release, j.skip, j.ok)
    OBVIOUS
  <2>4. e \in EventShape /\ e.day = day /\ e.lease = j.lease
    BY <2>2, <2>3 DEF Failed, EventShape, JobShape
  <2>5. log' = [log EXCEPT ![j.row] = Append(@, e)]
    BY <1>4, <2>1, <2>3 DEF HeldRecord
  <2> QED
    BY <2>1, <2>2, <2>4, <2>5
<1>5. ASSUME NEW r \in Rows, NEW a \in Accounts, Reassign(r, a) PROVE Goal
  <2>1. PICK e : e = Moved(a)
    OBVIOUS
  <2>2. e \in EventShape /\ e.day = day /\ e.lease = 0
    BY <2>1 DEF Moved, EventShape, Outs, Shape, Shapes
  <2>3. log' = log \/ log' = [log EXCEPT ![r] = Append(@, e)]
    BY <1>5, <2>1 DEF Reassign
  <2> QED
    BY <2>2, <2>3
<1> HIDE DEF Goal
<1>6. CASE log' = log
  BY <1>6 DEF Goal
<1> QED
  BY <1>2, <1>3, <1>4, <1>5, <1>6, LogTouched DEF Goal

LEMMA SessionsBounded ==
  ASSUME Shape, [Next]_vars, agent.lease <= MaxSession
  PROVE  agent'.lease <= MaxSession
<1>1. agent.lease \in Nat
  BY DEF Shape, Shapes, AgentShape
<1>2. ASSUME NEW s \in Slots, NEW ans, Ends(s, ans) PROVE agent'.lease = agent.lease
  BY <1>2 DEF Ends, Shape, Shapes, AgentShape
<1>3. ASSUME NEW s \in Slots, Serves(s) PROVE agent'.lease = agent.lease
  BY <1>2, <1>3 DEF Serves, Goes, Takes
<1>4. ASSUME NEW s \in Slots, Asks(s) PROVE agent'.lease = agent.lease
  BY <1>4 DEF Asks
<1>5. CASE Walks
  BY <1>1, <1>5, InvitationsAssumption DEF Walks
<1> QED
  BY <1>3, <1>4, <1>5, StepKinds

LEMMA DaysBounded ==
  ASSUME [Next]_vars, day \in 1 .. MaxDay
  PROVE  day' \in 1 .. MaxDay
<1>1. ASSUME NEW s \in Slots, Enter(s) \/ ReadStatus(s) \/ MoveRow(s) \/ Commit(s) PROVE day' = day
  BY <1>1 DEF Enter, ReadStatus, MoveRow, Commit
<1>2. ASSUME NEW s \in Slots, SentRead(s) \/ HeldRead(s) PROVE day' = day
  BY <1>2 DEF SentRead, HeldRead
<1>3. ASSUME NEW s \in Slots, HeldPause(s) \/ HeldRecord(s) \/ MarkSkipped(s) \/ DeleteRow(s)
       PROVE  day' = day
  BY <1>3 DEF HeldPause, HeldRecord, MarkSkipped, DeleteRow
<1>4. ASSUME NEW s \in Slots, ByHandInsert(s) \/ Fail(s) \/ Report(s) PROVE day' = day
  BY <1>4 DEF ByHandInsert, Fail, Report
<1>5. ASSUME NEW s \in Slots, NEW r \in Rows, FeedInsert(s, r) \/ ByHandRead(s, r) \/ CancelCall(s, r)
      PROVE  day' = day
  BY <1>5 DEF FeedInsert, ByHandRead, CancelCall
<1>6. ASSUME NEW s \in Slots, NEW r \in Rows, NEW c, Saw(s, r, c) PROVE day' = day
  BY <1>6 DEF Saw
<1>7. ASSUME NEW s \in Slots, NEW p \in People, NEW a, FeedWalk(s, p) \/ ByHandCall(s, p, a)
      PROVE  day' = day
  BY <1>7 DEF FeedWalk, ByHandCall
<1>8. ASSUME NEW p \in People, NEW a \in Accounts, NEW r \in Rows, Request(p, a, r) PROVE day' = day
  BY <1>8 DEF Request
<1>9. ASSUME NEW r \in Rows, NEW a \in Accounts, Reassign(r, a) PROVE day' = day
  BY <1>9 DEF Reassign
<1>10. ASSUME NEW x, Prepare(x) \/ Visit(x) \/ Begin(x) \/ Warn(x) \/ Respond(x) PROVE day' = day
  BY <1>10 DEF Prepare, Visit, Begin, Warn, Respond
<1>11. ASSUME Finish \/ Die \/ Hear \/ UNCHANGED vars PROVE day' = day
  BY <1>11 DEF Finish, Die, Hear, vars
<1>12. CASE NewDay
  BY <1>12, InvitationsAssumption DEF NewDay
<1> QED
  BY StepCases, <1>1, <1>2, <1>3, <1>4, <1>5, <1>6, <1>7, <1>8, <1>9, <1>10, <1>11, <1>12

LEMMA InitBounded ==
  ASSUME Init
  PROVE  Bounded
<1>1. agent.lease = 0
  BY DEF Init, NoSession
<1> QED
  BY <1>1, InvitationsAssumption DEF Init, Bounded

LEMMA StepBounded ==
  ASSUME Shape, Turns, Bounded, [Next]_vars
  PROVE  Bounded'
<1>1. agent'.lease <= MaxSession /\ day' \in 1 .. MaxDay
  BY SessionsBounded, DaysBounded DEF Bounded
<1>2. \A s \in Slots : job[s].lease <= MaxSession
  <2>1. ASSUME NEW s \in Slots PROVE job[s].lease <= MaxSession
    <3>1. job[s].lease \in Nat /\ agent.lease \in Nat /\ agent.lease <= MaxSession
      BY DEF Shape, Shapes, JobShape, AgentShape, Bounded
    <3>2. job[s].lease <= agent.lease
      BY DEF Turns, Asked
    <3> QED
      BY <3>1, <3>2, InvitationsAssumption
  <2> QED
    BY <2>1
<1>3. ASSUME NEW r \in Rows, NEW i \in DOMAIN log'[r]
      PROVE  log'[r][i].lease <= MaxSession /\ log'[r][i].day \in 1 .. MaxDay
  <2>1. CASE log' = log
    BY <1>3, <2>1 DEF Bounded
  <2>2. ASSUME NEW q \in Rows, NEW e \in EventShape, log' = [log EXCEPT ![q] = Append(@, e)],
               e.day = day, e.lease = 0 \/ \E s \in Slots : e.lease = job[s].lease
        PROVE  log'[r][i].lease <= MaxSession /\ log'[r][i].day \in 1 .. MaxDay
    <3>1. e.lease <= MaxSession /\ e.day \in 1 .. MaxDay
      BY <1>2, <2>2, InvitationsAssumption DEF Bounded
    <3>2. log[q] \in Seq(EventShape) /\ log[r] \in Seq(EventShape)
      BY DEF Shape, Shapes
    <3>3. CASE r = q
      <4>1. log'[r] = Append(log[r], e)
        BY <2>2, <3>3 DEF Shape, Shapes
      <4>2. CASE i = Len(log[r]) + 1
        BY <3>1, <3>2, <4>1, <4>2
      <4>3. CASE i # Len(log[r]) + 1
        <5>1. i \in DOMAIN log[r] /\ log'[r][i] = log[r][i]
          BY <3>2, <4>1, <4>3
        <5> QED
          BY <5>1 DEF Bounded
      <4> QED
        BY <4>2, <4>3
    <3>4. CASE r # q
      <4>1. log'[r] = log[r]
        BY <2>2, <3>4 DEF Shape, Shapes
      <4> QED
        BY <1>3, <4>1 DEF Bounded
    <3> QED
      BY <3>3, <3>4
  <2> QED
    BY <2>1, <2>2, LogGrows
<1>4. ASSUME NEW a \in Accounts PROVE pausedBy'[a][2] <= MaxSession
  <2>1. pausedBy[a][2] <= MaxSession
    BY DEF Bounded
  <2>2. ASSUME NEW s \in Slots, HeldPause(s) PROVE pausedBy'[a][2] <= MaxSession
    <3>1. PICK j : j = job[s]
      OBVIOUS
    <3>2. j.lease <= MaxSession
      BY <1>2, <3>1
    <3>3. pausedBy' = pausedBy \/ pausedBy' = [pausedBy EXCEPT ![j.account] = <<j.row, j.lease>>]
      BY <2>2, <3>1 DEF HeldPause
    <3>4. pausedBy'[a] = pausedBy[a] \/ pausedBy'[a] = <<j.row, j.lease>>
      BY <3>3 DEF Shape, Shapes
    <3> QED
      BY <2>1, <3>2, <3>4
  <2>3. ASSUME NEW b \in Accounts, Warn(b) PROVE pausedBy'[a][2] <= MaxSession
    <3>1. pausedBy' = [pausedBy EXCEPT ![b] = <<None, 0>>]
      BY <2>3 DEF Warn
    <3> QED
      BY <2>1, <3>1, InvitationsAssumption DEF Shape, Shapes
  <2>4. CASE NewDay
    BY <2>1, <2>4 DEF NewDay
  <2> QED
    BY <2>1, <2>2, <2>3, <2>4, PauseWriters
<1> QED
  BY <1>1, <1>3, <1>4 DEF Bounded

-----------------------------------------------------------------------------
(* The theorems.                                                           *)

Inv == Shape /\ Turns /\ Counted /\ Told /\ Whole /\ Bounded /\ Forward

\* All of it together holds at first and is kept by every step.
THEOREM InvHolds == Spec => []Inv
<1>1. Init => Inv
  BY InitShape, InitTurns, InitCounted, InitTold, InitWhole, InitBounded, InitForward DEF Inv
<1>2. Inv /\ [Next]_vars => Inv'
  BY StepShape, StepTurns, StepCounted, StepTold, StepWhole, StepBounded, StepForward DEF Inv
<1> QED
  BY <1>1, <1>2, PTL DEF Spec

\* The tables hold what their columns allow, and sessions and days stay
\* within their bounds in every record of them.
THEOREM TypesOK == Spec => []TypeOK
<1>1. ASSUME Inv PROVE TypeOK
  <2>1. Shapes /\ AgentOK /\ Bounded
    BY <1>1 DEF Inv, Shape
  <2>2. \A r \in Rows : \A i \in DOMAIN log[r] : log[r][i] \in Events
    <3>1. ASSUME NEW r \in Rows, NEW i \in DOMAIN log[r] PROVE log[r][i] \in Events
      <4>1. log[r][i] \in EventShape
        BY <2>1, <3>1 DEF Shapes
      <4>2. log[r][i].lease <= MaxSession /\ log[r][i].day \in 1 .. MaxDay
        BY <2>1, <3>1 DEF Bounded
      <4> QED
        BY <4>1, <4>2, InvitationsAssumption DEF EventShape, Events, Outs
    <3> QED
      BY <3>1
  <2>3. pausedBy \in [Accounts -> (Rows \cup {None}) \X (0 .. MaxSession)]
    <3>1. ASSUME NEW a \in Accounts PROVE pausedBy[a] \in (Rows \cup {None}) \X (0 .. MaxSession)
      <4>1. pausedBy[a] \in (Rows \cup {None}) \X Nat /\ pausedBy[a][2] <= MaxSession
        BY <2>1, <3>1 DEF Shapes, Bounded
      <4> QED
        BY <4>1, InvitationsAssumption
    <3> QED
      BY <2>1, <3>1 DEF Shapes
  <2>4. \A s \in Slots : job[s].kind # "idle" => job[s].pc # "idle"
    BY <1>1 DEF Inv, Shape, JobOK
  <2>5. /\ row \in [Rows -> [status : Statuses, person : People \cup {None},
                            account : Accounts \cup {None}, fed : BOOLEAN, replied : BOOLEAN]]
        /\ skipped \subseteq People /\ paused \subseteq Accounts
        /\ spent \in [Accounts -> Nat] /\ billed \in [Rows -> Nat]
        /\ linkedin \in [Accounts \X People -> {"none", "pending", "connected", "gone"}]
    BY <2>1 DEF Shapes, RowShape
  <2>6. /\ day \in 1 .. MaxDay
        /\ agent.at \in {"home", "free", "visit", "clicked", "asked", "done"}
        /\ agent.at # "home" => agent.account \in Accounts
    BY <2>1 DEF Shapes, AgentShape, AgentOK, Bounded
  <2> QED
    BY <2>2, <2>3, <2>4, <2>5, <2>6 DEF TypeOK
<1> QED
  BY <1>1, InvHolds, PTL

\* withAccountQuota: no account is counted past its day, for every quota,
\* however many reports, retries and clicks by hand are in hand at once.
THEOREM QuotaHolds == Spec => []DayWithinQuota
<1>1. Inv => DayWithinQuota
  BY DEF Inv, Counted
<1> QED
  BY <1>1, InvHolds, PTL

\* heldRetryAnswer, oneHeldReportAtATime and moveStatus: a report leaves one
\* count or one failure, however often it is sent and wherever it fails.
THEOREM ReportsOnce == Spec => []ReportedOnce
<1>1. Inv => CountedOnce
  BY DEF Inv, Counted, CountedOnce, Past, Waiting
<1>2. Inv => OneFailurePerReport
  BY OneFailureEach DEF Inv
<1> QED
  BY <1>1, <1>2, InvHolds, PTL DEF ReportedOnce

\* reportHeld: the person is parked by the pause the report began, and an agent
\* told that the person was let go finds the row gone and the marker written.
THEOREM HeldReportsWhole == Spec => []HeldReportIsWhole
<1>1. Inv => HeldReportIsWhole
  BY DEF Inv, Whole
<1> QED
  BY <1>1, InvHolds, PTL

\* moveStatus and the guarded deletes: whoever writes the row of a person, and
\* whatever met in between, what happens to that person is what the ledger allows.
THEOREM ImplementsLedger == Spec => OnlyForward
<1>1. Init => Ledger!Init
  BY InitForward
<1>2. Inv /\ [Next]_vars => [Ledger!Next]_(Ledger!vars)
  BY StepForward DEF Inv
<1> QED
  BY <1>1, <1>2, InvHolds, PTL DEF Spec, OnlyForward, Ledger!Spec
=============================================================================
