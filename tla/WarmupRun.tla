------------------------------ MODULE WarmupRun ------------------------------
(***************************************************************************)
(* The warm-up of one LinkedIn account: its run in wl_runs, its status in  *)
(* wl_accounts, the day's requests in wl_day_actions (warmup/store.mjs,    *)
(* strategy.mjs, weekly.mjs, the control route of warmup/api.mjs).         *)
(*                                                                         *)
(* A warning pauses the run for some dates and takes them out of the       *)
(* count of its days.  The end of the pause is a date and not a write;     *)
(* whoever takes the account first writes it down.  Everything is done by  *)
(* calls that read the run, and write it, and then the account, in round   *)
(* trips of their own, on the copy they read.                              *)
(*                                                                         *)
(* Abstracted: the kinds of action (one, connection requests, which has    *)
(* every rule the others have and the week's), the draw of a day's quota   *)
(* from its range (Quota is any sequence, it may fall), the log.  A call   *)
(* does not straddle midnight.                                             *)
(***************************************************************************)
EXTENDS Naturals, FiniteSets, Sequences, FiniteSetsExt

CONSTANTS
  Slots,       \* calls that are served at the same time
  Calls,       \* which calls there are
  PauseDays,   \* strategy_snapshot.pauseDays
  Quota,       \* requests allowed on each day of the run: a sequence
  Week,        \* dates in the window of the weekly limit
  WeekMax,     \* WEEKLY_CONNECT_LIMIT
  MaxDate,     \* bound: dates
  MaxRuns,     \* bound: runs ever started
  MaxCalls     \* bound: calls ever made, other than the scheduler's

ASSUME ConstantsAssumption ==
  /\ PauseDays \in Nat /\ Week \in Nat \ {0} /\ WeekMax \in Nat
  /\ MaxDate \in Nat \ {0} /\ MaxRuns \in Nat \ {0} /\ MaxCalls \in Nat
  /\ Quota \in Seq(Nat) /\ Len(Quota) >= MaxDate

Date == 1 .. MaxDate
Run == 1 .. MaxRuns

VARIABLES
  today,
  status,      \* wl_accounts.status
  run,         \* wl_runs; a run that is not started yet is "none"
  rows,        \* wl_day_actions.done, by run and date
  over,        \* invite.sent with overQuota or duringPause, by date
  job,         \* the call in each slot
  line,        \* withAccountQuota: who waits for the account, in turn
  calls,       \* calls made so far
  live         \* the dates each run has worked on

tables == <<status, run, rows, over>>
vars == <<today, tables, job, line, calls, live>>

-----------------------------------------------------------------------------
(* Dates and days: strategy.mjs.  0 stands for no date.                    *)

NoRun == [state |-> "none", from |-> 1, until |-> 0, out |-> 0]

PausedOn(r) == r.until # 0 /\ r.until >= today

\* slip: a pause nobody wrote down as over costs no more than its own dates
RecordedOnly(r) == r.out

\* pausedDaysOn: and the dates after the pause on which nobody took the account
PausedDaysOn(r) ==
  IF r.state = "paused" /\ r.until # 0 /\ r.until < today
  THEN r.out + (today - r.until - 1)
  ELSE r.out

\* dayOfRun, currentDay
DayOfRun(r) == Max({1, today - r.from + 1 - PausedDaysOn(r)})

\* warningPause
Warned(r) ==
  LET fresh == today + PauseDays
      until == IF PausedOn(r) THEN Max({r.until, fresh}) ELSE fresh
      added == IF PausedOn(r) THEN until - r.until ELSE PauseDays
  IN [r EXCEPT !.state = "paused", !.until = until, !.out = PausedDaysOn(r) + added]

ResumeCredit(r) ==
  IF PausedOn(r) THEN Min({r.until - today + 1, PauseDays, r.out}) ELSE 0

Resumed(r) ==
  [r EXCEPT !.state = "running", !.until = 0, !.out = PausedDaysOn(r) - ResumeCredit(r)]

Settled(r) == [r EXCEPT !.state = "running", !.until = 0, !.out = PausedDaysOn(r)]

-----------------------------------------------------------------------------
(* What is allowed: checkQuota, weekly.mjs.                                *)

LiveRuns == {r \in Run : run[r].state \in {"running", "paused"}}
Newest == Max(LiveRuns)            \* activeRun

ThisWeek == {d \in Date : d <= today /\ d + Week > today}

\* a[1] + ... + a[n]
SumOf(a, n) ==
  LET sum[i \in 0 .. n] == IF i = 0 THEN 0 ELSE sum[i - 1] + a[i] IN sum[n]

InWeek(sent) == SumOf([d \in Date |-> IF d \in ThisWeek THEN sent[d] ELSE 0], MaxDate)

\* slip: the week is the run's own
WeekOfRun(n) == InWeek(rows[n])

OnDate(d) == over[d] + SumOf([r \in Run |-> rows[r][d]], MaxRuns)

\* weeklyConnectCounts: of the account, whatever run it was
SentWeek == InWeek([d \in Date |-> OnDate(d)])
WeekCount(n) == SentWeek

Allowed(n, copy) ==
  LET already == rows[n][today]
      left == WeekMax - WeekCount(n)
  IN /\ ~PausedOn(copy)
     /\ WeekCount(n) < WeekMax
     /\ \A ceiling \in {Quota[DayOfRun(copy)], already + left} : already < ceiling

-----------------------------------------------------------------------------
(* Calls.                                                                  *)

People == {"start", "warn", "resume", "stop", "exclude", "include"}
Counted == {"record", "panel", "byhand"}
Kind == People \cup Counted \cup {"lease"}

ASSUME CallsAssumption == Calls \subseteq Kind

Idle == [kind |-> "none", at |-> "idle", id |-> 0, copy |-> NoRun, was |-> "idle"]

\* a call stands in line once
Without(s) ==
  IF \E i \in DOMAIN line : line[i] = s
  THEN LET place == CHOOSE i \in DOMAIN line : line[i] = s
       IN [i \in 1 .. Len(line) - 1 |-> IF i < place THEN line[i] ELSE line[i + 1]]
  ELSE line

Ends(s) == job' = [job EXCEPT ![s] = Idle] /\ line' = Without(s)

GoesTo(s, step) == job' = [job EXCEPT ![s].at = step] /\ UNCHANGED line

\* a date is worked if the row said `running' at some time of it, or if a warning
\* came on it (the warning day is not taken out, `because the account worked on it')
WorksOn(r) ==
  \/ run'[r].state = "running"
  \/ run'[r].state = "paused" /\ run'[r] # run[r] /\ ~PausedOn(run[r])
Lived == live' = [r \in Run |-> IF WorksOn(r) THEN live[r] \cup {today'} ELSE live[r]]

Keeps == UNCHANGED <<today, tables, calls, live>>

MyTurn(s) == line # <<>> /\ line[1] = s

\* the account is read at the beginning of every call; the agent's calls and
\* those made by hand take their turn before they read the run
Begin(s, k) ==
  /\ job[s].kind = "none"
  /\ k = "lease" => /\ status \in {"warming", "restricted"} /\ LiveRuns # {}
                    /\ ~PausedOn(run[Newest])
                    /\ run[Newest].state = "paused" \/ status = "restricted"
  /\ k # "lease" => calls < MaxCalls
  /\ calls' = IF k = "lease" THEN calls ELSE calls + 1
  /\ job' = [job EXCEPT ![s] = [Idle EXCEPT !.kind = k, !.was = status, !.at =
                IF k = "include" THEN "account" ELSE "read"]]
  /\ line' = IF k \in {"record", "byhand"} THEN Append(line, s) ELSE line
  /\ UNCHANGED <<today, tables, live>>

\* activeRun, and who goes on without one
ReadRun(s) ==
  LET k == job[s].kind
      goes == IF k = "start" THEN LiveRuns = {} /\ job[s].was # "excluded"
              ELSE k \in {"exclude", "byhand"} \/ LiveRuns # {}
      id == IF LiveRuns = {} THEN 0 ELSE Newest
      next == CASE k \in Counted -> IF id = 0 THEN "event" ELSE "check"
                [] k = "lease" -> "settle"
                [] k = "exclude" /\ id = 0 -> "account"
                [] OTHER -> "write"
  IN /\ job[s].at = "read"
     /\ k \in {"record", "byhand"} => MyTurn(s)
     /\ IF goes
        THEN /\ job' = [job EXCEPT ![s].at = next, ![s].id = id,
                                   ![s].copy = IF id = 0 THEN NoRun ELSE run[id]]
             /\ line' = IF k = "panel" THEN Append(line, s) ELSE line
        ELSE Ends(s)
     /\ Keeps

\* the write of the run: by its id, whatever it says by now
WriteRun(s) ==
  LET n == job[s].id
      copy == job[s].copy
  IN /\ job[s].at = "write" /\ job[s].kind # "start"
     /\ run' = [run EXCEPT ![n] =
          CASE job[s].kind = "warn"   -> Warned(copy)
            [] job[s].kind = "resume" -> Resumed(copy)
            [] OTHER                  -> [@ EXCEPT !.state = "stopped"]]
     /\ GoesTo(s, "account")
     /\ UNCHANGED <<today, status, rows, over, calls>>
     /\ Lived

StartRun(s) ==
  /\ job[s].at = "write" /\ job[s].kind = "start"
  /\ \E n \in Run :
       /\ \A r \in Run : r < n <=> run[r].state # "none"
       /\ run' = [run EXCEPT ![n] = [NoRun EXCEPT !.state = "running", !.from = today]]
  /\ GoesTo(s, "account")
  /\ UNCHANGED <<today, status, rows, over, calls>>
  /\ Lived

\* setAccountStatus
WriteAccount(s) ==
  LET becomes == [warn |-> "restricted", resume |-> "warming", start |-> "warming",
                  stop |-> "idle", include |-> "idle", exclude |-> "excluded"]
  IN /\ job[s].at = "account" /\ job[s].kind \in People
     /\ status' = becomes[job[s].kind]
     /\ Ends(s)
     /\ UNCHANGED <<today, run, rows, over, calls, live>>

\* settlePause: the run
AfterSettle(s) == IF job[s].kind = "lease" THEN Ends(s) ELSE GoesTo(s, "count")

\* slip: the end of a pause is written whatever the row says by now
NoMatch(n, copy) == copy.state = "paused"

\* the row still reads what this was computed from
Matches(n, copy) ==
  /\ copy.state = "paused" /\ copy.until # 0
  /\ run[n].state = "paused" /\ run[n].until = copy.until /\ run[n].out = copy.out

SettleRun(s) ==
  LET n == job[s].id
      copy == job[s].copy
  IN /\ job[s].at = "settle"
     /\ IF ~PausedOn(copy) /\ Matches(n, copy)
        THEN /\ run' = [run EXCEPT ![n] = Settled(copy)]
             /\ GoesTo(s, "lift")
        ELSE /\ UNCHANGED run
             /\ IF ~PausedOn(copy) /\ copy.state = "running"
                THEN GoesTo(s, "lift") ELSE AfterSettle(s)
     /\ UNCHANGED <<today, status, rows, over, calls>>
     /\ Lived

\* and the account, if it was restricted when it was read and is
LiftRestriction(s) ==
  /\ job[s].at = "lift"
  /\ status' = IF job[s].was = "restricted" /\ status = "restricted" THEN "warming" ELSE status
  /\ AfterSettle(s)
  /\ UNCHANGED <<today, run, rows, over, calls, live>>

\* checkQuota; what was done by hand is recorded whatever it says
CheckQuota(s) ==
  /\ job[s].at = "check" /\ MyTurn(s)
  /\ IF Allowed(job[s].id, job[s].copy) THEN GoesTo(s, "settle")
     ELSE IF job[s].kind = "byhand" THEN GoesTo(s, "event")
     ELSE Ends(s)
  /\ Keeps

\* commitAction: the day's row, inserted or updated where it still reads the
\* same; the writer that finds it changed adds to what it says
Count(s) ==
  /\ job[s].at = "count"
  /\ rows' = [rows EXCEPT ![job[s].id][today] = @ + 1]
  /\ Ends(s)
  /\ UNCHANGED <<today, status, run, over, calls, live>>

\* recordSent of a request the plan did not allow
RecordOver(s) ==
  /\ job[s].at = "event"
  /\ over' = [over EXCEPT ![today] = @ + 1]
  /\ Ends(s)
  /\ UNCHANGED <<today, status, run, rows, calls, live>>

\* an error of the database, or a restart of the portal
Fail(s) ==
  /\ job[s].kind # "none"
  /\ Ends(s)
  /\ Keeps

Midnight ==
  /\ \A s \in Slots : job[s].kind = "none"
  /\ today < MaxDate
  /\ today' = today + 1
  /\ UNCHANGED <<tables, job, line, calls>>
  /\ Lived

Init ==
  /\ today = 1 /\ status = "warming"
  /\ run = [r \in Run |-> IF r = 1 THEN [NoRun EXCEPT !.state = "running"] ELSE NoRun]
  /\ rows = [r \in Run |-> [d \in Date |-> 0]]
  /\ over = [d \in Date |-> 0]
  /\ job = [s \in Slots |-> Idle]
  /\ line = <<>> /\ calls = 0
  /\ live = [r \in Run |-> IF r = 1 THEN {1} ELSE {}]

Step(s) ==
  \/ \E k \in Calls : Begin(s, k)
  \/ ReadRun(s) \/ WriteRun(s) \/ StartRun(s) \/ WriteAccount(s)
  \/ SettleRun(s) \/ LiftRestriction(s)
  \/ CheckQuota(s) \/ Count(s) \/ RecordOver(s) \/ Fail(s)

Next == Midnight \/ \E s \in Slots : Step(s)

Spec == Init /\ [][Next]_vars
-----------------------------------------------------------------------------
(* Properties.                                                             *)

TypeOK ==
  /\ today \in Date
  /\ status \in {"idle", "warming", "restricted", "excluded"}
  /\ run \in [Run -> [state : {"none", "running", "paused", "stopped"}, from : Date,
                       until : Nat, out : Nat]]
  /\ rows \in [Run -> [Date -> Nat]] /\ over \in [Date -> Nat]
  /\ \A s \in Slots : job[s].kind \in Kind \cup {"none"} /\ job[s].id \in Run \cup {0}
  /\ line \in Seq(Slots) /\ calls \in 0 .. MaxCalls /\ live \in [Run -> SUBSET Date]

\* The dates on which this run could work, before date d.
LivedBefore(r, d) == Cardinality({e \in live[r] : e < d})

\* Paused dates are dead time (strategy.mjs, currentDay): however warnings, early
\* resumes and ends of pauses meet, each on its own copy of the run, an account that
\* works is never on a later day of its plan than it has worked dates for.
DayNotAhead ==
  \A r \in LiveRuns : ~PausedOn(run[r]) => DayOfRun(run[r]) <= 1 + LivedBefore(r, today)

\* a day of the plan up to the n-th allows x
Within(x, n) == \E day \in 1 .. n : x <= Quota[day]

\* What was counted on a date is within what the plan allows on some day the account
\* had worked its way to by then, whatever comes later in the plan: checkQuota and
\* commitAction are two steps, with the end of a pause written in between.
PlanEarned ==
  \A r \in Run : \A d \in Date : Within(rows[r][d], 1 + LivedBefore(r, d))

\* A pause neither makes up for days not worked nor gives their requests: the run is
\* not ahead of its dates, and what it sent was earned when it was sent. On a plan that
\* falls this does not say that the smaller day's figure was the one that was kept to.
PlanKept == DayNotAhead /\ PlanEarned

\* A pause that holds is ended by a person who resumes or stops, never by somebody
\* who writes down the end of an older one (settlePause).
OnlyPeopleEndPauses ==
  [][\A r \in Run : PausedOn(run[r]) /\ run[r].state = "paused" /\ run'[r].state # "paused" =>
       \E s \in Slots : job[s].at = "write" /\ job[s].kind \in {"resume", "stop", "exclude"}]_vars

\* A request the plan allowed never takes the account past its limit of the week,
\* whatever runs it was on and whatever was sent by hand (agent/README.md: across
\* all runs, out-of-allowance sends included).
WeeklyLimitKept ==
  [][\A r \in Run : rows'[r][today] > rows[r][today] =>
       SentWeek' <= WeekMax]_vars
=============================================================================
