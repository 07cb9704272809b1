--------------------------- MODULE WarmupRunProofs ---------------------------
(***************************************************************************)
(* Pauses, the plan and the limit of the week of an account's warm-up, for *)
(* any number of calls served at once, runs, dates and plans.              *)
(*                                                                         *)
(* CallsInv says what a call holds at each of its steps; with it, only a   *)
(* person's write ends a pause that holds.  PlanInv counts days: the dates *)
(* of a run are its days lived and the dates its pauses take out, in the   *)
(* table and in every copy a call works on, so that whichever copy is      *)
(* written, and whoever counts on its account, no day is given for dates   *)
(* nobody worked.  WeekInv counts requests: who is allowed one has the     *)
(* account to itself until it is counted.                                  *)
(***************************************************************************)
EXTENDS WarmupRun, FiniteSetTheorems, WellFoundedInduction, TLAPS

\* What a call holds at each of its steps.
JobOK(j) ==
  /\ j = [kind |-> j.kind, at |-> j.at, id |-> j.id, copy |-> j.copy, was |-> j.was]
  /\ j.kind \in Kind \cup {"none"} /\ j.id \in Run \cup {0}
  /\ j.kind = "none" => j.id = 0
  /\ j.at = "read" => j.kind \in Kind \ {"include"}
  /\ j.at = "write" => j.kind \in People \ {"include"} /\ (j.kind # "start" => j.id # 0)
  /\ j.at \in {"check", "count"} => j.kind \in Counted /\ j.id # 0
  /\ j.at \in {"settle", "lift"} => j.kind \in Counted \cup {"lease"} /\ j.id # 0

CallsInv ==
  /\ run = [r \in Run |-> run[r]]
  /\ job = [s \in Slots |-> job[s]]
  /\ \A s \in Slots : JobOK(job[s])

Fields(a, b, c, d, e) == [kind |-> a, at |-> b, id |-> c, copy |-> d, was |-> e]

LEMMA OneField ==
  \A a, b, c, d, e, x :
    /\ [Fields(a, b, c, d, e) EXCEPT !.kind = x] = Fields(x, b, c, d, e)
    /\ [Fields(a, b, c, d, e) EXCEPT !.at = x] = Fields(a, x, c, d, e)
    /\ [Fields(a, b, c, d, e) EXCEPT !.id = x] = Fields(a, b, x, d, e)
    /\ [Fields(a, b, c, d, e) EXCEPT !.copy = x] = Fields(a, b, c, x, e)
    /\ [Fields(a, b, c, d, e) EXCEPT !.was = x] = Fields(a, b, c, d, x)
BY DEF Fields

\* What a call knows of a run is set together, and what it begins with.
Knows(j, x, y, z) == [j EXCEPT !.at = x, !.id = y, !.copy = z]
Begun(j, x, y, z) == [j EXCEPT !.kind = x, !.was = y, !.at = z]

LEMMA ThreeFields ==
  \A a, b, c, d, e, x, y, z :
    Knows(Fields(a, b, c, d, e), x, y, z) = Fields(a, x, y, z, e)
<1> TAKE a, b, c, d, e, x, y, z
<1> DEFINE j == Fields(a, b, c, d, e)
<1>1. [[[j EXCEPT !.at = x] EXCEPT !.id = y] EXCEPT !.copy = z] = Fields(a, x, y, z, e)
  <2>1. [j EXCEPT !.at = x] = Fields(a, x, c, d, e)
    BY OneField
  <2>2. [Fields(a, x, c, d, e) EXCEPT !.id = y] = Fields(a, x, y, d, e)
    BY OneField
  <2>3. [Fields(a, x, y, d, e) EXCEPT !.copy = z] = Fields(a, x, y, z, e)
    BY OneField
  <2> QED
    BY <2>1, <2>2, <2>3, Zenon
<1>2. [[[j EXCEPT !.at = x] EXCEPT !.id = y] EXCEPT !.copy = z] = Knows(j, x, y, z)
  BY Zenon DEF Knows
<1> QED
  BY <1>1, <1>2, Zenon

LEMMA ThreeFieldsOfACall ==
  \A a, b, c, d, e, x, y, z :
    Begun(Fields(a, b, c, d, e), x, y, z) = Fields(x, z, c, d, y)
<1> TAKE a, b, c, d, e, x, y, z
<1> DEFINE j == Fields(a, b, c, d, e)
<1>1. [[[j EXCEPT !.kind = x] EXCEPT !.was = y] EXCEPT !.at = z] = Fields(x, z, c, d, y)
  <2>1. [j EXCEPT !.kind = x] = Fields(x, b, c, d, e)
    BY OneField
  <2>2. [Fields(x, b, c, d, e) EXCEPT !.was = y] = Fields(x, b, c, d, y)
    BY OneField
  <2>3. [Fields(x, b, c, d, y) EXCEPT !.at = z] = Fields(x, z, c, d, y)
    BY OneField
  <2> QED
    BY <2>1, <2>2, <2>3, Zenon
<1>2. [[[j EXCEPT !.kind = x] EXCEPT !.was = y] EXCEPT !.at = z] = Begun(j, x, y, z)
  BY Zenon DEF Begun
<1> QED
  BY <1>1, <1>2, Zenon

LEMMA IdleOK == JobOK(Idle)
BY DEF JobOK, Idle

-----------------------------------------------------------------------------
(* The newest run.                                                         *)

LEMMA Smallest ==
  ASSUME NEW T \in SUBSET Nat, T # {}
  PROVE  \E x \in T : \A y \in T : ~(y < x)
<1> DEFINE R == OpToRel(<, Nat)
<1>1. \A x, y \in Nat : <<x, y>> \in R <=> x < y
  BY DEF OpToRel
<1>2. IsWellFoundedOn(R, Nat)
  BY NatLessThanWellFounded
<1> HIDE DEF R
<1>3. PICK x \in T : \A y \in T : ~(<<y, x>> \in R)
  BY <1>2, WFMin
<1> QED
  BY <1>1, <1>3

LEMMA NewestIsLive ==
  ASSUME LiveRuns # {}
  PROVE  Newest \in LiveRuns /\ Newest \in Run
<1> DEFINE T == {MaxRuns - r : r \in LiveRuns}
<1>1. LiveRuns \subseteq Run /\ MaxRuns \in Nat
  BY ConstantsAssumption DEF LiveRuns
<1>2. T \in SUBSET Nat /\ T # {}
  <2>1. T # {}
    OBVIOUS
  <2>2. ASSUME NEW r \in LiveRuns PROVE MaxRuns - r \in Nat
    BY <1>1 DEF Run
  <2> QED
    BY <2>1, <2>2
<1>3. PICK x \in T : \A y \in T : ~(y < x)
  <2> HIDE DEF T
  <2> QED
    BY <1>2, Smallest
<1>4. PICK r \in LiveRuns : x = MaxRuns - r
  OBVIOUS
<1>5. \A q \in LiveRuns : r >= q
  <2> SUFFICES ASSUME NEW q \in LiveRuns PROVE r >= q
    OBVIOUS
  <2>1. MaxRuns - q \in T
    OBVIOUS
  <2>2. ~(MaxRuns - q < MaxRuns - r)
    BY <1>3, <1>4, <2>1
  <2> QED
    BY <1>1, <2>2 DEF Run
<1>6. Newest \in LiveRuns
  <2>1. \E y \in LiveRuns : \A q \in LiveRuns : y >= q
    BY <1>5
  <2> QED
    BY <2>1 DEF Newest, Max
<1> QED
  BY <1>1, <1>6

-----------------------------------------------------------------------------
(* What a call is after its step.                                          *)

Moves(s, j) == job' = [job EXCEPT ![s] = j]

LEMMA CallMoves ==
  ASSUME CallsInv, NEW s \in Slots, NEW j, JobOK(j), Moves(s, j)
  PROVE  job' = [t \in Slots |-> job'[t]] /\ \A t \in Slots : JobOK(job'[t])
BY DEF CallsInv, Moves

LEMMA MovedIs ==
  ASSUME CallsInv, NEW s \in Slots, NEW j, Moves(s, j)
  PROVE  job'[s] = j /\ \A t \in Slots \ {s} : job'[t] = job[t]
BY DEF CallsInv, Moves

LEMMA FieldsAre ==
  \A a, b, c, d, e :
    /\ Fields(a, b, c, d, e).kind = a /\ Fields(a, b, c, d, e).at = b
    /\ Fields(a, b, c, d, e).id = c /\ Fields(a, b, c, d, e).copy = d
    /\ Fields(a, b, c, d, e).was = e
BY DEF Fields

LEMMA GoesIs ==
  ASSUME CallsInv, NEW s \in Slots, NEW step, GoesTo(s, step)
  PROVE  Moves(s, Fields(job[s].kind, step, job[s].id, job[s].copy, job[s].was))
<1>1. job' = [job EXCEPT ![s] = [job[s] EXCEPT !.at = step]]
  BY DEF GoesTo, CallsInv
<1>2. JobOK(job[s])
  BY DEF CallsInv
<1>3. [job[s] EXCEPT !.at = step] = Fields(job[s].kind, step, job[s].id, job[s].copy, job[s].was)
  BY <1>2 DEF JobOK, Fields
<1> QED
  BY <1>1, <1>3 DEF Moves

LEMMA BeginIs ==
  ASSUME CallsInv, NEW s \in Slots, NEW k, Begin(s, k)
  PROVE  Moves(s, Fields(k, IF k = "include" THEN "account" ELSE "read", 0, NoRun, status))
<1> DEFINE step == IF k = "include" THEN "account" ELSE "read"
           j == [Idle EXCEPT !.kind = k, !.was = status, !.at = step]
<1>1. job' = [job EXCEPT ![s] = j]
  BY DEF Begin
<1> HIDE DEF step
<1>2. PICK a, b, c, d, e : Idle = Fields(a, b, c, d, e) /\ c = 0 /\ d = NoRun
  BY Zenon DEF Idle, Fields
<1>3. j = Begun(Fields(a, b, c, d, e), k, status, step)
  BY <1>2, Zenon DEF Begun
<1> HIDE DEF j
<1>4. j = Fields(k, step, c, d, status)
  BY <1>3, ThreeFieldsOfACall
<1> QED
  BY <1>1, <1>2, <1>4 DEF Moves, step

LEMMA BeginOK ==
  ASSUME CallsInv, NEW s \in Slots, NEW k \in Calls, Begin(s, k)
  PROVE  job' = [t \in Slots |-> job'[t]] /\ \A t \in Slots : JobOK(job'[t])
<1> DEFINE step == IF k = "include" THEN "account" ELSE "read"
           j == Fields(k, step, 0, NoRun, status)
<1>1. Moves(s, j)
  BY BeginIs
<1>2. k \in Kind
  BY CallsAssumption
<1>3. JobOK(j)
  BY <1>2 DEF JobOK, Fields, Kind, People, Counted
<1> HIDE DEF j
<1> QED
  BY <1>1, <1>3, CallMoves

\* What a call learns of the run: the kind decides where it goes with it.
After(k, id) ==
  CASE k \in Counted -> IF id = 0 THEN "event" ELSE "check"
    [] k = "lease" -> "settle"
    [] k = "exclude" /\ id = 0 -> "account"
    [] OTHER -> "write"
Found == IF LiveRuns = {} THEN 0 ELSE Newest
Learnt(j) == Fields(j.kind, After(j.kind, Found), Found, IF Found = 0 THEN NoRun ELSE run[Found], j.was)

LEMMA ReadIs ==
  ASSUME CallsInv, NEW s \in Slots, ReadRun(s)
  PROVE  \/ Ends(s)
         \/ /\ Moves(s, Learnt(job[s]))
            /\ IF job[s].kind = "start" THEN LiveRuns = {}
               ELSE job[s].kind \in {"exclude", "byhand"} \/ LiveRuns # {}
<1> DEFINE k == job[s].kind
           next == After(k, Found)
           copy == IF Found = 0 THEN NoRun ELSE run[Found]
           j == [job[s] EXCEPT !.at = next, !.id = Found, !.copy = copy]
<1>1. \/ Ends(s)
      \/ /\ job' = [job EXCEPT ![s].at = next, ![s].id = Found, ![s].copy = copy]
         /\ IF k = "start" THEN LiveRuns = {} ELSE k \in {"exclude", "byhand"} \/ LiveRuns # {}
  BY DEF ReadRun, After, Found
<1>2. JobOK(job[s])
  BY DEF CallsInv
<1>3. CASE job' = [job EXCEPT ![s].at = next, ![s].id = Found, ![s].copy = copy]
  <2> DEFINE id == Found
  <2> HIDE DEF next, id, copy
  <2>1. job' = [job EXCEPT ![s] = j]
    BY <1>3 DEF CallsInv
  <2>2. PICK a, b, c, d, e : job[s] = Fields(a, b, c, d, e) /\ a = k /\ e = job[s].was
    BY <1>2, Zenon DEF JobOK, Fields
  <2>3. j = Knows(Fields(a, b, c, d, e), next, Found, copy)
    BY <2>2, Zenon DEF Knows
  <2> HIDE DEF j
  <2>4. j = Fields(a, next, Found, copy, e)
    BY <2>3, ThreeFields
  <2>5. Moves(s, Fields(k, next, Found, copy, job[s].was))
    BY <2>1, <2>2, <2>4 DEF Moves
  <2> QED
    BY <1>1, <2>5 DEF next, copy, Learnt
<1> QED
  BY <1>1, <1>3

LEMMA EndsOK ==
  ASSUME CallsInv, NEW s \in Slots, Ends(s)
  PROVE  job' = [t \in Slots |-> job'[t]] /\ \A t \in Slots : JobOK(job'[t])
BY IdleOK, CallMoves DEF Ends, Moves

LEMMA ReadRunOK ==
  ASSUME CallsInv, NEW s \in Slots, ReadRun(s)
  PROVE  job' = [t \in Slots |-> job'[t]] /\ \A t \in Slots : JobOK(job'[t])
<1> DEFINE j == Learnt(job[s])
           k == job[s].kind
<1>1. JobOK(job[s]) /\ job[s].at = "read"
  BY DEF CallsInv, ReadRun
<1>2. CASE /\ Moves(s, j)
           /\ IF k = "start" THEN LiveRuns = {} ELSE k \in {"exclude", "byhand"} \/ LiveRuns # {}
  <2>1. Found \in Run \cup {0} /\ (LiveRuns # {} <=> Found # 0)
    BY NewestIsLive, ConstantsAssumption DEF Found, Run
  <2>2. k \in Kind \ {"include"}
    BY <1>1 DEF JobOK
  <2>3. k # "start" /\ k \notin {"exclude", "byhand"} => Found # 0
    BY <1>2, <2>1
  <2> DEFINE step == After(k, Found)
  <2>4. /\ step = "write" => k \in People \ {"include"} /\ (k # "start" => Found # 0)
        /\ step = "check" => k \in Counted /\ Found # 0
        /\ step = "settle" => k = "lease" /\ Found # 0
        /\ step \in {"write", "check", "settle", "event", "account"}
    <3> HIDE DEF k
    <3>1. CASE k \in Counted
      BY <2>2, <3>1 DEF After, Counted
    <3>2. CASE k = "lease"
      BY <2>3, <3>2 DEF After, Counted
    <3>3. CASE k = "exclude"
      BY <3>3 DEF After, Counted, People
    <3>4. CASE k \in People \ {"include", "exclude"}
      BY <2>3, <3>4 DEF After, Counted, People
    <3> QED
      BY <2>2, <3>1, <3>2, <3>3, <3>4 DEF Kind, People
  <2>5. /\ j.kind = k /\ j.at = step /\ j.id = Found
        /\ j = Fields(j.kind, j.at, j.id, j.copy, j.was)
    BY FieldsAre DEF Learnt
  <2> HIDE DEF j, k, step
  <2>6. JobOK(j)
    BY <2>1, <2>2, <2>4, <2>5 DEF JobOK, Fields, Kind, People, Counted
  <2> QED
    BY <1>2, <2>6, CallMoves
<1> QED
  BY <1>2, ReadIs, EndsOK

\* Where a call may go on to, by where it stands.
Onward(j, step) ==
  \/ step \in {"account", "event"}
  \/ step = "settle" /\ j.at = "check"
  \/ step = "lift" /\ j.at = "settle"
  \/ step = "count" /\ j.at \in {"settle", "lift"} /\ j.kind # "lease"

LEMMA GoesOK ==
  ASSUME CallsInv, NEW s \in Slots, NEW step, GoesTo(s, step), Onward(job[s], step)
  PROVE  job' = [t \in Slots |-> job'[t]] /\ \A t \in Slots : JobOK(job'[t])
<1> DEFINE j == Fields(job[s].kind, step, job[s].id, job[s].copy, job[s].was)
<1>1. Moves(s, j)
  BY GoesIs
<1>2. JobOK(job[s])
  BY DEF CallsInv
<1>3. /\ j.kind = job[s].kind /\ j.at = step /\ j.id = job[s].id
      /\ j = Fields(j.kind, j.at, j.id, j.copy, j.was)
  BY FieldsAre
<1> HIDE DEF j
<1>4. JobOK(j)
  BY <1>2, <1>3 DEF JobOK, Fields, Onward
<1> QED
  BY <1>1, <1>4, CallMoves

LEMMA CallsStart == Init => CallsInv
BY IdleOK DEF Init, CallsInv

LEMMA CallsStep == CallsInv /\ [Next]_vars => CallsInv'
<1> SUFFICES ASSUME CallsInv, [Next]_vars PROVE CallsInv'
  OBVIOUS
<1>1. run' = [r \in Run |-> run'[r]]
  <2>1. \/ run' = run
        \/ \E n, row : run' = [run EXCEPT ![n] = row]
    BY DEF Next, Step, Midnight, Begin, ReadRun, WriteRun, StartRun, WriteAccount, SettleRun,
       LiftRestriction, CheckQuota, Count, RecordOver, Fail, Keeps, tables, vars
  <2> QED
    BY <2>1 DEF CallsInv
<1>2. job' = [t \in Slots |-> job'[t]] /\ \A t \in Slots : JobOK(job'[t])
  <2>1. CASE job' = job
    BY <2>1 DEF CallsInv
  <2>2. ASSUME NEW s \in Slots, Step(s) PROVE job' = [t \in Slots |-> job'[t]] /\ \A t \in Slots : JobOK(job'[t])
    <3>1. \/ \E k \in Calls : Begin(s, k)
          \/ ReadRun(s)
          \/ Ends(s)
          \/ \E step : GoesTo(s, step) /\ Onward(job[s], step)
      BY <2>2 DEF Step, WriteRun, StartRun, WriteAccount, SettleRun, LiftRestriction, AfterSettle,
         CheckQuota, Count, RecordOver, Fail, Onward
    <3> QED
      BY <3>1, BeginOK, ReadRunOK, EndsOK, GoesOK
  <2> QED
    BY <2>1, <2>2 DEF Next, Midnight, vars
<1> QED
  BY <1>1, <1>2 DEF CallsInv

-----------------------------------------------------------------------------

\* A run is taken out of a pause that holds at the write of a resume, a stop or an
\* exclusion.
LEMMA PauseStep ==
  ASSUME CallsInv, Next, NEW r \in Run, PausedOn(run[r]), run[r].state = "paused", run'[r].state # "paused"
  PROVE  \E s \in Slots : job[s].at = "write" /\ job[s].kind \in {"resume", "stop", "exclude"}
<1>1. PICK s \in Slots : Step(s)
  BY DEF Next, Midnight, tables
<1>2. WriteRun(s) \/ StartRun(s) \/ SettleRun(s)
  BY <1>1 DEF Step, Begin, ReadRun, WriteAccount, LiftRestriction, CheckQuota, Count, RecordOver,
     Fail, Keeps, tables
<1>3. CASE WriteRun(s)
  <2>1. job[s].at = "write" /\ job[s].kind \in People \ {"include", "start"}
    BY <1>3 DEF WriteRun, CallsInv, JobOK
  <2>2. CASE job[s].kind = "warn"
    <3>1. run' = [run EXCEPT ![job[s].id] = Warned(job[s].copy)]
      BY <1>3, <2>2 DEF WriteRun
    <3>2. Warned(job[s].copy).state = "paused"
      BY DEF Warned
    <3> QED
      BY <3>1, <3>2 DEF CallsInv
  <2> QED
    BY <2>1, <2>2 DEF People
<1>4. CASE StartRun(s)
  <2>1. PICK n \in Run : /\ \A q \in Run : q < n <=> run[q].state # "none"
                         /\ run' = [run EXCEPT ![n] = [NoRun EXCEPT !.state = "running", !.from = today]]
    BY <1>4 DEF StartRun
  <2>2. run[n].state = "none"
    BY <2>1, ConstantsAssumption DEF Run
  <2> QED
    BY <2>1, <2>2 DEF CallsInv
<1>5. CASE SettleRun(s)
  <2>1. \/ run' = run
        \/ /\ run' = [run EXCEPT ![job[s].id] = Settled(job[s].copy)]
           /\ ~PausedOn(job[s].copy) /\ Matches(job[s].id, job[s].copy)
    BY <1>5 DEF SettleRun
  <2>2. Matches(r, job[s].copy) /\ ~PausedOn(job[s].copy) => ~PausedOn(run[r])
    BY DEF Matches, PausedOn
  <2> QED
    BY <2>1, <2>2 DEF CallsInv
<1> QED
  BY <1>2, <1>3, <1>4, <1>5

\* A pause that holds is ended by a person who resumes or stops, never by somebody who
\* writes down the end of an older one, whatever calls meet.
THEOREM PausesAreKept == Spec => OnlyPeopleEndPauses
<1>1. CallsInv /\ [Next]_vars =>
        [\A r \in Run : PausedOn(run[r]) /\ run[r].state = "paused" /\ run'[r].state # "paused" =>
           \E s \in Slots : job[s].at = "write" /\ job[s].kind \in {"resume", "stop", "exclude"}]_vars
  BY PauseStep
<1> QED
  BY <1>1, CallsStart, CallsStep, PTL DEF Spec, OnlyPeopleEndPauses
-----------------------------------------------------------------------------
(* The line: who is at its head stays there until its call ends.           *)

LEMMA WithoutOne ==
  ASSUME line \in Seq(Slots), NEW s
  PROVE  /\ Without(s) \in Seq(Slots)
         /\ line # <<>> /\ line[1] # s => Without(s) # <<>> /\ Without(s)[1] = line[1]
<1>1. /\ Len(line) \in Nat /\ DOMAIN line = 1 .. Len(line)
      /\ \A i \in 1 .. Len(line) : line[i] \in Slots
  OBVIOUS
<1>2. CASE \E i \in DOMAIN line : line[i] = s
  <2>1. PICK place \in DOMAIN line :
          /\ line[place] = s
          /\ Without(s) = [i \in 1 .. Len(line) - 1 |-> IF i < place THEN line[i] ELSE line[i + 1]]
    BY <1>2 DEF Without
  <2>2. Len(line) - 1 \in Nat /\ place \in 1 .. Len(line)
    BY <1>1, <2>1
  <2>3. \A i \in 1 .. Len(line) - 1 : (IF i < place THEN line[i] ELSE line[i + 1]) \in Slots
    BY <1>1, <2>2
  <2>4. Without(s) \in Seq(Slots) /\ Len(Without(s)) = Len(line) - 1
    BY <2>1, <2>2, <2>3
  <2>5. ASSUME line # <<>>, line[1] # s
        PROVE  Without(s) # <<>> /\ Without(s)[1] = line[1]
    <3>1. place > 1 /\ Len(line) > 1
      BY <2>1, <2>2, <2>5
    <3>2. 1 \in 1 .. Len(line) - 1
      BY <1>1, <3>1
    <3>3. Without(s)[1] = line[1]
      BY <2>1, <3>1, <3>2
    <3> QED
      BY <2>4, <3>1, <3>3
  <2> QED
    BY <2>4, <2>5
<1>3. CASE ~(\E i \in DOMAIN line : line[i] = s)
  BY <1>3 DEF Without
<1> QED
  BY <1>2, <1>3

LEMMA HeadStays ==
  ASSUME line \in Seq(Slots), NEW s \in Slots, Step(s)
  PROVE  /\ line' \in Seq(Slots)
         /\ line # <<>> /\ line[1] # s => line' # <<>> /\ line'[1] = line[1]
<1>1. line' = line \/ line' = Append(line, s) \/ line' = Without(s)
  BY DEF Step, Begin, ReadRun, WriteRun, StartRun, WriteAccount, SettleRun, LiftRestriction,
     AfterSettle, CheckQuota, Count, RecordOver, Fail, Ends, GoesTo
<1>2. CASE line' = Append(line, s)
  <2>1. line' \in Seq(Slots) /\ Len(line') = Len(line) + 1
    BY <1>2
  <2>2. ASSUME line # <<>> PROVE line'[1] = line[1]
    BY <1>2, <2>2
  <2> QED
    BY <2>1, <2>2
<1> QED
  BY <1>1, <1>2, WithoutOne

-----------------------------------------------------------------------------
(* Dates lived.                                                            *)

Before(S, d) == Cardinality({e \in S : e < d})

LEMMA BeforeIs ==
  ASSUME NEW S \in SUBSET (Nat \ {0}), NEW d \in Nat \ {0}
  PROVE  IsFiniteSet({e \in S : e < d}) /\ Before(S, d) \in Nat /\ Before(S, d) <= d - 1
<1> DEFINE T == {e \in S : e < d}
<1>1. IsFiniteSet(1 .. d - 1) /\ Cardinality(1 .. d - 1) = d - 1
  <2>1. d - 1 \in Nat /\ 1 \in Int /\ d - 1 \in Int
    OBVIOUS
  <2>2. Cardinality(1 .. d - 1) = IF 1 > d - 1 THEN 0 ELSE d - 1 - 1 + 1
    BY <2>1, FS_Interval
  <2> QED
    BY <2>1, <2>2, FS_Interval
<1>2. T \in SUBSET (1 .. d - 1)
  <2>1. ASSUME NEW e \in S, e < d PROVE e \in 1 .. d - 1
    <3>1. e \in Nat \ {0}
      OBVIOUS
    <3> QED
      BY <2>1, <3>1
  <2> QED
    BY <2>1
<1>3. IsFiniteSet(T) /\ Cardinality(T) <= d - 1
  BY <1>1, <1>2, FS_Subset
<1>4. Cardinality(T) \in Nat
  BY <1>3, FS_CardinalityType
<1> QED
  BY <1>3, <1>4 DEF Before

\* A date lived counts from the next one on.
LEMMA BeforeNext ==
  ASSUME NEW S \in SUBSET (Nat \ {0}), NEW d \in Nat \ {0}
  PROVE  Before(S, d + 1) = IF d \in S THEN Before(S, d) + 1 ELSE Before(S, d)
<1> DEFINE T == {e \in S : e < d}
           U == {e \in S : e < d + 1}
<1>1. IsFiniteSet(T)
  BY BeforeIs
<1>4. \A e \in S : (e < d + 1 <=> e < d \/ e = d) /\ ~(d < d)
  OBVIOUS
<1>2. CASE d \in S
  <2>1. U = T \cup {d} /\ d \notin T
    BY <1>2, <1>4
  <2>2. Cardinality(T \cup {d}) = Cardinality(T) + 1
    BY <1>1, <2>1, FS_AddElement
  <2> QED
    BY <1>2, <2>1, <2>2 DEF Before
<1>3. CASE d \notin S
  <2>1. U = T
    BY <1>3, <1>4
  <2> QED
    BY <1>3, <2>1 DEF Before
<1> QED
  BY <1>2, <1>3

\* A date added counts for no date up to it.
LEMMA BeforeSame ==
  ASSUME NEW S \in SUBSET (Nat \ {0}), NEW t \in Nat \ {0}, NEW d \in Nat \ {0}, d <= t
  PROVE  Before(S \cup {t}, d) = Before(S, d)
<1>1. {e \in S \cup {t} : e < d} = {e \in S : e < d}
  OBVIOUS
<1> QED
  BY <1>1 DEF Before
-----------------------------------------------------------------------------
(* What a pause owes: the days of a run against its dates.                 *)

Row == [state : {"none", "running", "paused", "stopped"}, from : Date, until : Nat, out : Nat]

On(r, t) == r.until # 0 /\ r.until >= t

Down(r, t) ==
  IF r.state = "paused" /\ r.until # 0 /\ r.until < t THEN r.out + (t - r.until - 1) ELSE r.out

Least(a, b) == IF a <= b THEN a ELSE b
Credit(r, t) == IF On(r, t) THEN Least(Least(r.until - t + 1, PauseDays), r.out) ELSE 0

\* A run that is not paused has lived the dates its count of days says, and one that is
\* would have if it were resumed today, or if the pause were left to end.
Good(r, S, t) ==
  /\ r \in Row /\ r.state \in {"running", "paused"}
  /\ r.state = "running" <=> r.until = 0
  /\ r.until <= t + PauseDays
  /\ t - r.from <= Before(S, t) + Down(r, t) - Credit(r, t)
  /\ On(r, t) => t + 1 - r.from <= Before(S, t + 1) + r.out - (r.until - t)

LEMMA LeastOfThree ==
  ASSUME NEW x \in Int, NEW y \in Int, NEW z \in Int
  PROVE  Min({x, y, z}) = Least(Least(x, y), z)
<1>1. \E m \in {x, y, z} : \A k \in {x, y, z} : m <= k
  <2>1. CASE x <= y /\ x <= z
    BY <2>1
  <2>2. CASE y <= x /\ y <= z
    BY <2>2
  <2>3. CASE z <= x /\ z <= y
    BY <2>3
  <2> QED
    BY <2>1, <2>2, <2>3
<1>2. /\ Min({x, y, z}) \in {x, y, z}
      /\ \A k \in {x, y, z} : Min({x, y, z}) <= k
  BY <1>1 DEF Min
<1> QED
  BY <1>2 DEF Least

LEMMA MostOfTwo ==
  ASSUME NEW x \in Int, NEW y \in Int
  PROVE  Max({x, y}) = IF x <= y THEN y ELSE x
<1>1. \E m \in {x, y} : \A k \in {x, y} : m >= k
  <2>1. CASE x <= y
    BY <2>1
  <2>2. CASE y <= x
    BY <2>2
  <2> QED
    BY <2>1, <2>2
<1>2. /\ Max({x, y}) \in {x, y}
      /\ \A k \in {x, y} : Max({x, y}) >= k
  BY <1>1 DEF Max
<1> QED
  BY <1>2

LEMMA RowFields ==
  ASSUME NEW r \in Row
  PROVE  /\ r.from \in Nat /\ r.from \in Date /\ r.until \in Nat /\ r.out \in Nat
         /\ r = [state |-> r.state, from |-> r.from, until |-> r.until, out |-> r.out]
BY DEF Row, Date

LEMMA Today ==
  ASSUME NEW r \in Row, today \in Date
  PROVE  /\ PausedOn(r) <=> On(r, today)
         /\ PausedDaysOn(r) = Down(r, today) /\ Down(r, today) \in Nat
         /\ ResumeCredit(r) = Credit(r, today)
         /\ Credit(r, today) \in Nat /\ Credit(r, today) <= r.out
         /\ Credit(r, today) <= Down(r, today)
<1>1. r.until \in Nat /\ r.out \in Nat /\ today \in Nat /\ PauseDays \in Nat
  BY RowFields, ConstantsAssumption DEF Date
<1>2. PausedOn(r) <=> On(r, today)
  BY DEF PausedOn, On
<1>3. PausedDaysOn(r) = Down(r, today) /\ Down(r, today) \in Nat /\ r.out <= Down(r, today)
  BY <1>1 DEF PausedDaysOn, Down
<1>4. Min({r.until - today + 1, PauseDays, r.out}) = Least(Least(r.until - today + 1, PauseDays), r.out)
  BY <1>1, LeastOfThree
<1>5. ResumeCredit(r) = Credit(r, today)
  BY <1>2, <1>4 DEF ResumeCredit, Credit
<1>6. Credit(r, today) \in Nat /\ Credit(r, today) <= r.out
  BY <1>1 DEF Credit, Least, On
<1> QED
  BY <1>1, <1>2, <1>3, <1>5, <1>6

\* A date more in which the run lived does no harm.
LEMMA GoodMore ==
  ASSUME NEW t \in Nat \ {0}, NEW S \in SUBSET (Nat \ {0}), NEW r, Good(r, S, t)
  PROVE  Good(r, S \cup {t}, t)
<1>1. S \cup {t} \in SUBSET (Nat \ {0})
  OBVIOUS
<1>2. Before(S \cup {t}, t) = Before(S, t)
  BY BeforeSame
<1>3. /\ Before(S \cup {t}, t + 1) = Before(S \cup {t}, t) + 1
      /\ Before(S, t + 1) \in {Before(S, t), Before(S, t) + 1}
  BY <1>1, BeforeNext
<1>4. Before(S, t) \in Nat
  BY BeforeIs
<1>5. r.from \in Nat /\ r.until \in Nat /\ r.out \in Nat
  BY RowFields DEF Good
<1> QED
  BY <1>2, <1>3, <1>4, <1>5 DEF Good

StateIs(r, x) == [r EXCEPT !.state = x]
UntilIs(r, x) == [r EXCEPT !.until = x]
OutIs(r, x) == [r EXCEPT !.out = x]
Written(r, a, b, c) == [r EXCEPT !.state = a, !.until = b, !.out = c]

LEMMA WrittenIs ==
  ASSUME NEW r \in Row, NEW a \in {"none", "running", "paused", "stopped"}, NEW b \in Nat, NEW c \in Nat
  PROVE  /\ Written(r, a, b, c) = [state |-> a, from |-> r.from, until |-> b, out |-> c]
         /\ Written(r, a, b, c) \in Row
         /\ Written(r, a, b, c).state = a /\ Written(r, a, b, c).until = b
         /\ Written(r, a, b, c).out = c /\ Written(r, a, b, c).from = r.from
<1>1. Written(r, a, b, c) = OutIs(UntilIs(StateIs(r, a), b), c)
  BY Zenon DEF Written, OutIs, UntilIs, StateIs
<1>2. StateIs(r, a) = [state |-> a, from |-> r.from, until |-> r.until, out |-> r.out]
  BY DEF StateIs, Row
<1>3. UntilIs(StateIs(r, a), b) = [state |-> a, from |-> r.from, until |-> b, out |-> r.out]
  BY <1>2 DEF UntilIs
<1>4. OutIs(UntilIs(StateIs(r, a), b), c) = [state |-> a, from |-> r.from, until |-> b, out |-> c]
  BY <1>3 DEF OutIs
<1>5. [state |-> a, from |-> r.from, until |-> b, out |-> c] \in Row
  BY DEF Row
<1> QED
  BY <1>1, <1>4, <1>5

LEMMA WroteRunning ==
  ASSUME NEW r \in Row, NEW c \in Nat, NEW w, w = Written(r, "running", 0, c)
  PROVE  w \in Row /\ w.state = "running" /\ w.until = 0 /\ w.out = c /\ w.from = r.from
<1>1. PICK b \in Nat : b = 0
  OBVIOUS
<1>2. w = Written(r, "running", b, c)
  BY <1>1
<1>3. w \in Row /\ w.state = "running" /\ w.until = b /\ w.out = c /\ w.from = r.from
  BY <1>2, WrittenIs
<1> QED
  BY <1>1, <1>3

\* A warning takes out the dates it pauses, and no date twice.
LEMMA WarnedGood ==
  ASSUME today \in Date, NEW S \in SUBSET (Nat \ {0}), NEW r, Good(r, S, today),
         On(r, today) \/ today \in S
  PROVE  Good(Warned(r), S, today) /\ On(Warned(r), today) /\ Warned(r).state = "paused"
<1> DEFINE fresh == today + PauseDays
           until == IF On(r, today) THEN Max({r.until, fresh}) ELSE fresh
           added == IF On(r, today) THEN until - r.until ELSE PauseDays
           out == Down(r, today) + added
           w == Warned(r)
<1>1. /\ r \in Row /\ r.from \in Nat /\ r.until \in Nat /\ r.out \in Nat
      /\ today \in Nat \ {0} /\ PauseDays \in Nat
  BY RowFields, ConstantsAssumption DEF Good, Date
<1>2. Warned(r) = Written(r, "paused", until, out)
  BY <1>1, Today DEF Warned, Written
<1>3. On(r, today) => r.until <= fresh /\ until = fresh
  BY <1>1, MostOfTwo DEF Good
<1>4. until = fresh /\ until \in Nat
  BY <1>1, <1>3
<1>5. added \in Nat /\ (On(r, today) => added = fresh - r.until) /\ (~On(r, today) => added = PauseDays)
  BY <1>1, <1>3, <1>4
<1>6. Down(r, today) \in Nat /\ out \in Nat
  BY <1>1, <1>5, Today
<1>7. w \in Row /\ w.state = "paused" /\ w.until = fresh /\ w.out = out /\ w.from = r.from
  <2>1. w = Written(r, "paused", until, out)
    BY <1>2
  <2> HIDE DEF w, until, out
  <2>2. "paused" \in {"none", "running", "paused", "stopped"}
    OBVIOUS
  <2> QED
    BY <1>1, <1>4, <1>6, <2>1, <2>2, WrittenIs
<1>8. On(w, today) /\ Down(w, today) = out
  BY <1>1, <1>7 DEF On, Down
<1>9. Before(S, today) \in Nat /\ Before(S, today + 1) \in Nat
  <2>1. today + 1 \in Nat \ {0}
    BY <1>1
  <2> QED
    BY <1>1, <2>1, BeforeIs
<1>10. today \in S => Before(S, today + 1) = Before(S, today) + 1
  BY <1>1, BeforeNext
<1>11. Credit(w, today) = Least(PauseDays, out)
  <2>1. w.until - today + 1 = PauseDays + 1
    BY <1>1, <1>7
  <2>2. Least(PauseDays + 1, PauseDays) = PauseDays
    BY <1>1 DEF Least
  <2> QED
    BY <1>7, <1>8, <2>1, <2>2 DEF Credit
<1> HIDE DEF w, until, added
<1>15. /\ w \in Row /\ w.state \in {"running", "paused"} /\ w.until <= today + PauseDays
       /\ w.state = "running" <=> w.until = 0
  BY <1>1, <1>7
<1>12. ASSUME ~On(r, today) PROVE Good(w, S, today)
  <2>1. Credit(r, today) = 0 /\ out = Down(r, today) + PauseDays
    BY <1>5, <1>12 DEF Credit
  <2>2. Credit(w, today) = PauseDays
    BY <1>1, <1>6, <1>11, <2>1 DEF Least
  <2>3. today - r.from <= Before(S, today) + Down(r, today)
    BY <1>1, <1>6, <1>9, <2>1 DEF Good
  <2>4. Before(S, today + 1) = Before(S, today) + 1
    BY <1>10, <1>12
  <2>5. today - w.from <= Before(S, today) + Down(w, today) - Credit(w, today)
    BY <1>1, <1>6, <1>7, <1>8, <1>9, <2>1, <2>2, <2>3
  <2>6. today + 1 - w.from <= Before(S, today + 1) + w.out - (w.until - today)
    BY <1>1, <1>6, <1>7, <1>9, <2>1, <2>3, <2>4
  <2> QED
    BY <1>15, <2>5, <2>6 DEF Good
<1>13. ASSUME On(r, today) PROVE Good(w, S, today)
  <2>1. Down(r, today) = r.out /\ out = r.out + (fresh - r.until) /\ r.until >= today /\ r.until <= fresh
    <3>1. ~(r.until < today)
      BY <1>1, <1>13 DEF On
    <3> QED
      BY <1>3, <1>5, <1>13, <3>1 DEF Down, On
  <2>2. r.out - Credit(r, today) <= out - Credit(w, today)
    <3>1. Credit(r, today) = Least(Least(r.until - today + 1, PauseDays), r.out)
      BY <1>13 DEF Credit
    <3> QED
      BY <1>1, <1>6, <1>11, <2>1, <3>1 DEF Least
  <2>3. Credit(r, today) \in Nat /\ Credit(w, today) \in Nat
    BY <1>1, <1>7, Today
  <2>4. today - r.from <= Before(S, today) + r.out - Credit(r, today)
    BY <2>1 DEF Good
  <2>5. today - w.from <= Before(S, today) + Down(w, today) - Credit(w, today)
    BY <1>1, <1>6, <1>7, <1>8, <1>9, <2>2, <2>3, <2>4
  <2>6. today + 1 - r.from <= Before(S, today + 1) + r.out - (r.until - today)
    BY <1>13 DEF Good
  <2>7. today + 1 - w.from <= Before(S, today + 1) + w.out - (w.until - today)
    BY <1>1, <1>6, <1>7, <1>9, <2>1, <2>6
  <2> QED
    BY <1>15, <2>5, <2>7 DEF Good
<1>14. On(Warned(r), today) /\ Warned(r).state = "paused"
  BY <1>7, <1>8 DEF w
<1> QED
  BY <1>12, <1>13, <1>14 DEF w

\* A resume gives back what was not served, an end that is written down nothing.
LEMMA ResumedGood ==
  ASSUME today \in Date, NEW S \in SUBSET (Nat \ {0}), NEW r, Good(r, S, today)
  PROVE  /\ Good(Resumed(r), S, today) /\ Resumed(r).state = "running" /\ ~On(Resumed(r), today)
         /\ ~On(r, today) => Settled(r) = Resumed(r)
<1> DEFINE out == Down(r, today) - Credit(r, today)
           w == Resumed(r)
<1>1. /\ r \in Row /\ r.from \in Nat /\ r.until \in Nat /\ r.out \in Nat
      /\ today \in Nat \ {0} /\ PauseDays \in Nat
  BY RowFields, ConstantsAssumption DEF Good, Date
<1>2. /\ PausedDaysOn(r) = Down(r, today) /\ ResumeCredit(r) = Credit(r, today)
      /\ Down(r, today) \in Nat /\ Credit(r, today) \in Nat /\ out \in Nat
  BY <1>1, Today
<1>3. Resumed(r) = Written(r, "running", 0, out)
  BY <1>2 DEF Resumed, Written
<1>4. w \in Row /\ w.state = "running" /\ w.until = 0 /\ w.out = out /\ w.from = r.from
  <2>1. w = Written(r, "running", 0, out)
    BY <1>3
  <2>2. r \in Row /\ out \in Nat
    BY <1>1, <1>2
  <2> HIDE DEF w, out
  <2> QED
    BY <2>1, <2>2, WroteRunning
<1>5. ~On(w, today) /\ Down(w, today) = out /\ Credit(w, today) = 0
  BY <1>4 DEF On, Down, Credit
<1>6. Before(S, today) \in Nat
  BY <1>1, BeforeIs
<1>7. today - r.from <= Before(S, today) + Down(r, today) - Credit(r, today)
  BY DEF Good
<1>8. today - w.from <= Before(S, today) + Down(w, today) - Credit(w, today)
  BY <1>1, <1>2, <1>4, <1>5, <1>6, <1>7
<1>9. ASSUME ~On(r, today) PROVE Settled(r) = Resumed(r)
  <2>1. Credit(r, today) = 0
    BY <1>9 DEF Credit
  <2>2. out = Down(r, today)
    BY <1>2, <2>1
  <2>3. Settled(r) = Written(r, "running", 0, Down(r, today))
    BY <1>2 DEF Settled, Written
  <2> QED
    BY <1>3, <2>2, <2>3
<1> HIDE DEF w, out
<1>10. Good(w, S, today) /\ w.state = "running" /\ ~On(w, today)
  BY <1>1, <1>4, <1>5, <1>8 DEF Good
<1> QED
  BY <1>9, <1>10 DEF w

\* Midnight: a run that runs has lived today, and the pause of one that does not has a
\* date less to go or stands past its end.
LEMMA NextDay ==
  ASSUME NEW t \in Nat \ {0}, NEW S \in SUBSET (Nat \ {0}), NEW r, Good(r, S, t),
         r.state = "running" => t \in S
  PROVE  Good(r, S, t + 1)
<1>1. /\ r \in Row /\ r.from \in Nat /\ r.until \in Nat /\ r.out \in Nat /\ PauseDays \in Nat
  BY RowFields, ConstantsAssumption DEF Good
<1>2. /\ Before(S, t) \in Nat /\ Before(S, t + 1) \in Nat /\ Before(S, t + 2) \in Nat
      /\ Before(S, t + 1) \in {Before(S, t), Before(S, t) + 1}
      /\ Before(S, t + 2) \in {Before(S, t + 1), Before(S, t + 1) + 1}
      /\ t \in S => Before(S, t + 1) = Before(S, t) + 1
  <2>1. t + 1 \in Nat \ {0} /\ t + 2 \in Nat \ {0} /\ (t + 1) + 1 = t + 2
    OBVIOUS
  <2>2. Before(S, t) \in Nat /\ Before(S, t + 1) \in Nat /\ Before(S, t + 2) \in Nat
    BY <2>1, BeforeIs
  <2>3. /\ Before(S, t + 1) \in {Before(S, t), Before(S, t) + 1}
        /\ t \in S => Before(S, t + 1) = Before(S, t) + 1
    BY BeforeNext
  <2>4. Before(S, (t + 1) + 1) \in {Before(S, t + 1), Before(S, t + 1) + 1}
    BY <2>1, BeforeNext
  <2> QED
    BY <2>1, <2>2, <2>3, <2>4
<1>3. r.until <= t + PauseDays /\ (r.state = "running" <=> r.until = 0) /\ r.state \in {"running", "paused"}
  BY DEF Good
<1>4. t - r.from <= Before(S, t) + Down(r, t) - Credit(r, t)
  BY DEF Good
<1>5. On(r, t) => t + 1 - r.from <= Before(S, t + 1) + r.out - (r.until - t)
  BY DEF Good
<1>6. /\ t + 1 - r.from <= Before(S, t + 1) + Down(r, t + 1) - Credit(r, t + 1)
      /\ On(r, t + 1) => t + 1 + 1 - r.from <= Before(S, t + 2) + r.out - (r.until - (t + 1))
  <2>1. CASE r.until = 0
    <3>1. /\ ~On(r, t + 1) /\ Down(r, t + 1) = r.out /\ Credit(r, t + 1) = 0
          /\ Down(r, t) = r.out /\ Credit(r, t) = 0
      BY <2>1 DEF On, Down, Credit
    <3>2. Before(S, t + 1) = Before(S, t) + 1
      BY <1>2, <1>3, <2>1
    <3> QED
      BY <1>1, <1>2, <1>4, <3>1, <3>2
  <2>2. CASE r.until # 0 /\ r.until < t
    <3>1. /\ ~On(r, t + 1) /\ Down(r, t + 1) = r.out + (t + 1 - r.until - 1) /\ Credit(r, t + 1) = 0
          /\ Down(r, t) = r.out + (t - r.until - 1) /\ Credit(r, t) = 0
      BY <1>1, <1>3, <2>2 DEF On, Down, Credit
    <3> QED
      BY <1>1, <1>2, <1>4, <3>1
  <2>3. CASE r.until = t
    <3>1. ~On(r, t + 1) /\ Down(r, t + 1) = r.out /\ Credit(r, t + 1) = 0 /\ On(r, t)
      BY <1>1, <1>3, <2>3 DEF On, Down, Credit
    <3> QED
      BY <1>1, <1>2, <1>5, <2>3, <3>1
  <2>4. CASE r.until > t
    <3>1. On(r, t + 1) /\ Down(r, t + 1) = r.out /\ On(r, t)
      BY <1>1, <2>4 DEF On, Down
    <3>2. Credit(r, t + 1) = Least(Least(r.until - (t + 1) + 1, PauseDays), r.out)
      BY <3>1 DEF Credit
    <3>3. Credit(r, t + 1) <= r.until - t /\ Credit(r, t + 1) \in Int
      BY <1>1, <2>4, <3>2 DEF Least
    <3>4. t + 1 - r.from <= Before(S, t + 1) + r.out - (r.until - t)
      BY <1>5, <3>1
    <3>5. t + 1 - r.from <= Before(S, t + 1) + Down(r, t + 1) - Credit(r, t + 1)
      BY <1>1, <1>2, <3>1, <3>3, <3>4
    <3>6. t + 1 + 1 - r.from <= Before(S, t + 2) + r.out - (r.until - (t + 1))
      BY <1>1, <1>2, <3>4
    <3> QED
      BY <3>5, <3>6
  <2> QED
    BY <1>1, <2>1, <2>2, <2>3, <2>4
<1>7. t + 1 + 1 = t + 2 /\ r.until <= t + 1 + PauseDays
  BY <1>1, <1>3
<1> QED
  BY <1>1, <1>3, <1>6, <1>7 DEF Good
-----------------------------------------------------------------------------
(* The invariant of the plan.                                              *)

Tables ==
  /\ today \in Date /\ line \in Seq(Slots)
  /\ run \in [Run -> Row] /\ rows \in [Run -> [Date -> Nat]]
  /\ live = [r \in Run |-> live[r]] /\ \A r \in Run : live[r] \subseteq 1 .. today

\* A run that is going has lived the dates its plan says, and one that runs lives today.
RowGood(r) ==
  run[r].state \in {"running", "paused"} =>
    Good(run[r], live[r], today) /\ (run[r].state = "running" => today \in live[r])

\* So has the copy a call works on; and if the run was paused behind its back, it was
\* today that it worked.
CopyGood(j) ==
  j.id # 0 =>
    /\ Good(j.copy, live[j.id], today)
    /\ On(run[j.id], today) /\ ~On(j.copy, today) => today \in live[j.id]

\* a day of the plan up to the n-th allows more than x
Room(x, n) == \E day \in 1 .. n : x < Quota[day]

\* A call that is allowed and has not counted yet has the account to itself.
Holds(s) ==
  job[s].kind \in Counted /\ job[s].at \in {"settle", "lift", "count"} =>
    /\ MyTurn(s)
    /\ Room(rows[job[s].id][today], 1 + Before(live[job[s].id], today))

Earned ==
  \A r \in Run, d \in Date :
    /\ d > today => rows[r][d] = 0
    /\ Within(rows[r][d], 1 + Before(live[r], d))

PlanInv ==
  /\ CallsInv /\ Tables /\ Earned
  /\ \A r \in Run : RowGood(r)
  /\ \A s \in Slots : CopyGood(job[s]) /\ Holds(s)

LEMMA QuotaIs ==
  ASSUME NEW S \in SUBSET (Nat \ {0}), NEW d \in Date
  PROVE  /\ Within(0, 1 + Before(S, d))
         /\ \A x \in Nat : Room(x, 1 + Before(S, d)) => Within(x + 1, 1 + Before(S, d))
<1>1. d \in Nat \ {0} /\ d <= MaxDate
  BY ConstantsAssumption DEF Date
<1>2. Before(S, d) \in Nat /\ Before(S, d) <= d - 1
  BY <1>1, BeforeIs
<1>3. \A c \in 1 .. 1 + Before(S, d) : Quota[c] \in Nat
  BY <1>1, <1>2, ConstantsAssumption
<1>4. 1 \in 1 .. 1 + Before(S, d)
  BY <1>2
<1> QED
  BY <1>3, <1>4 DEF Within, Room

LEMMA Positive ==
  ASSUME Tables
  PROVE  today \in Nat \ {0} /\ \A r \in Run : live[r] \in SUBSET (Nat \ {0})
<1>1. today \in Nat \ {0}
  BY DEF Tables, Date
<1>2. ASSUME NEW r \in Run PROVE live[r] \in SUBSET (Nat \ {0})
  BY <1>1 DEF Tables
<1> QED
  BY <1>1, <1>2

\* Dates are added to those lived, and only the date that is.
Grows == \A r \in Run : live'[r] = live[r] \/ live'[r] = live[r] \cup {today'}

LEMMA LivedGrows ==
  ASSUME Tables, Lived \/ UNCHANGED live
  PROVE  Grows /\ live' = [r \in Run |-> live'[r]]
BY DEF Lived, Grows, Tables

LEMMA LiveStays ==
  ASSUME Tables, Grows, today' \in Date, today' >= today
  PROVE  /\ \A r \in Run : live'[r] \subseteq 1 .. today' /\ live[r] \subseteq live'[r]
         /\ \A r \in Run, d \in Date : d <= today' => Before(live'[r], d) = Before(live[r], d)
<1>1. today \in Nat /\ today' \in Nat \ {0}
  BY DEF Tables, Date
<1>2. ASSUME NEW r \in Run PROVE live'[r] \subseteq 1 .. today' /\ live[r] \subseteq live'[r]
  <2>1. live[r] \subseteq 1 .. today
    BY DEF Tables
  <2> QED
    BY <1>1, <2>1 DEF Grows
<1>3. ASSUME NEW r \in Run, NEW d \in Date, d <= today'
      PROVE  Before(live'[r], d) = Before(live[r], d)
  <2>1. live[r] \in SUBSET (Nat \ {0}) /\ d \in Nat \ {0}
    BY Positive DEF Date
  <2>2. Before(live[r] \cup {today'}, d) = Before(live[r], d)
    BY <1>1, <1>3, <2>1, BeforeSame
  <2> QED
    BY <2>2 DEF Grows
<1> QED
  BY <1>2, <1>3

LEMMA EarnedStays ==
  ASSUME Tables, Earned, Grows, today' \in Date, today' >= today, UNCHANGED rows
  PROVE  Earned'
<1> SUFFICES ASSUME NEW r \in Run, NEW d \in Date
             PROVE  /\ d > today' => rows[r][d] = 0
                    /\ Within(rows[r][d], 1 + Before(live'[r], d))
  BY DEF Earned
<1>1. d \in Nat /\ today \in Nat /\ today' \in Nat
  BY DEF Tables, Date
<1>2. d > today' => rows[r][d] = 0
  BY <1>1 DEF Earned
<1>3. CASE d <= today'
  BY <1>2, <1>3, LiveStays DEF Earned
<1>4. CASE d > today'
  <2>1. live'[r] \in SUBSET (Nat \ {0})
    BY <1>1, LiveStays
  <2>2. Within(0, 1 + Before(live'[r], d))
    BY <2>1, QuotaIs
  <2> QED
    BY <1>2, <1>4, <2>2
<1> QED
  BY <1>1, <1>2, <1>3, <1>4

\* The day of a run that is not paused is one it has lived its way to.
LEMMA DayLived ==
  ASSUME today \in Date, NEW S \in SUBSET (Nat \ {0}), NEW r, Good(r, S, today), ~PausedOn(r)
  PROVE  DayOfRun(r) \in 1 .. 1 + Before(S, today)
<1>1. r \in Row /\ today \in Nat \ {0} /\ r.from \in Nat
  BY RowFields DEF Good, Date
<1>2. Before(S, today) \in Nat
  BY <1>1, BeforeIs
<1>3. ~On(r, today) /\ PausedDaysOn(r) = Down(r, today) /\ Down(r, today) \in Nat
  BY <1>1, Today
<1>4. today - r.from <= Before(S, today) + Down(r, today)
  BY <1>2, <1>3 DEF Good, Credit
<1>5. DayOfRun(r) = IF 1 <= today - r.from + 1 - Down(r, today) THEN today - r.from + 1 - Down(r, today) ELSE 1
  BY <1>1, <1>3, MostOfTwo DEF DayOfRun
<1> QED
  BY <1>1, <1>2, <1>3, <1>4, <1>5

-----------------------------------------------------------------------------
(* What a step leaves of the calls.                                        *)

\* But for a call that begins or reads the run, a call that has a run has it still.
LEMMA CopiesStay ==
  ASSUME CallsInv, NEW s \in Slots, Step(s), ~(\E k \in Calls : Begin(s, k)), ~ReadRun(s), NEW t \in Slots
  PROVE  job'[t].id = 0 \/ (job'[t].id = job[t].id /\ job'[t].copy = job[t].copy)
<1>1. Moves(s, Idle) \/ \E step : GoesTo(s, step)
  BY DEF Step, WriteRun, StartRun, WriteAccount, SettleRun, LiftRestriction, AfterSettle,
     CheckQuota, Count, RecordOver, Fail, Ends, Moves
<1>2. CASE Moves(s, Idle)
  <2>1. Idle.id = 0
    BY DEF Idle
  <2> QED
    BY <1>2, <2>1, MovedIs
<1>3. ASSUME NEW step, GoesTo(s, step)
      PROVE  job'[t].id = job[t].id /\ job'[t].copy = job[t].copy
  <2>1. Moves(s, Fields(job[s].kind, step, job[s].id, job[s].copy, job[s].was))
    BY <1>3, GoesIs
  <2> QED
    BY <2>1, MovedIs, FieldsAre
<1> QED
  BY <1>1, <1>2, <1>3

\* A call that begins has no run; one that reads the newest run has it as it is.
LEMMA CopiesRead ==
  ASSUME PlanInv, NEW s \in Slots, ReadRun(s) \/ \E k \in Calls : Begin(s, k), NEW t \in Slots
  PROVE  CopyGood(job'[t])
<1>1. CallsInv /\ CopyGood(job[t]) /\ today \in Date
  BY DEF PlanInv, Tables
<1>2. ASSUME NEW j, Moves(s, j), j.id = 0 PROVE CopyGood(job'[t])
  BY <1>1, <1>2, MovedIs DEF CopyGood
<1>3. CASE \E k \in Calls : Begin(s, k)
  BY <1>1, <1>2, <1>3, BeginIs, FieldsAre
<1>4. CASE Ends(s)
  <2>1. Moves(s, Idle) /\ Idle.id = 0
    BY <1>4 DEF Ends, Moves, Idle
  <2> QED
    BY <1>2, <2>1
<1>5. CASE Moves(s, Learnt(job[s]))
  <2> DEFINE j == Learnt(job[s])
  <2>1. j.id = Found /\ j.copy = IF Found = 0 THEN NoRun ELSE run[Found]
    BY FieldsAre DEF Learnt
  <2>2. ASSUME Found # 0 PROVE Found \in Run /\ run[Found].state \in {"running", "paused"}
    BY <2>2, NewestIsLive DEF Found, LiveRuns
  <2>3. ASSUME Found # 0 PROVE Good(run[Found], live[Found], today)
    BY <2>2, <2>3 DEF PlanInv, RowGood
  <2> HIDE DEF j
  <2>4. CopyGood(j)
    BY <2>1, <2>3 DEF CopyGood
  <2> QED
    BY <1>1, <1>5, <2>4, MovedIs DEF j
<1> QED
  BY <1>1, <1>3, <1>4, <1>5, ReadIs
-----------------------------------------------------------------------------
(* The writes of a run.                                                    *)

\* What may be written over run n.
Writes(n, w) ==
  /\ n \in Run /\ w \in Row /\ run' = [run EXCEPT ![n] = w]
  /\ w.state \in {"running", "paused"} => Good(w, live'[n], today)
  /\ On(w, today) => On(run[n], today) \/ w.state = "paused"

\* It leaves every row, and every copy in hand, as good as it was.
LEMMA WriteKeeps ==
  ASSUME PlanInv, UNCHANGED today, Lived, NEW n, NEW w, Writes(n, w)
  PROVE  /\ \A r \in Run : RowGood(r)'
         /\ run' \in [Run -> Row]
         /\ \A s \in Slots : job[s].id # 0 =>
              /\ Good(job[s].copy, live'[job[s].id], today)
              /\ On(run'[job[s].id], today) /\ ~On(job[s].copy, today) => today \in live'[job[s].id]
<1>1. Tables /\ CallsInv
  BY DEF PlanInv
<1>2. Grows /\ today \in Nat \ {0} /\ \A r \in Run : live[r] \in SUBSET (Nat \ {0})
  BY <1>1, LivedGrows, Positive
<1>3. \A r \in Run : live[r] \subseteq live'[r] /\ (live'[r] = live[r] \/ live'[r] = live[r] \cup {today})
  BY <1>2 DEF Grows
<1>4. \A r \in Run : live'[r] = IF WorksOn(r) THEN live[r] \cup {today} ELSE live[r]
  BY DEF Lived
<1>5. run' = [r \in Run |-> IF r = n THEN w ELSE run[r]]
  BY <1>1 DEF Writes, Tables
<1>6. ASSUME NEW r \in Run, NEW x, Good(x, live[r], today)
      PROVE  Good(x, live'[r], today)
  BY <1>2, <1>3, <1>6, GoodMore
<1>7. ASSUME NEW r \in Run PROVE RowGood(r)'
  <2>1. SUFFICES ASSUME run'[r].state \in {"running", "paused"}
                 PROVE  Good(run'[r], live'[r], today) /\ (run'[r].state = "running" => today \in live'[r])
    BY DEF RowGood
  <2>2. run'[r].state = "running" => today \in live'[r]
    BY <1>4 DEF WorksOn
  <2>3. Good(run'[r], live'[r], today)
    <3>1. CASE r = n
      BY <1>5, <2>1, <3>1 DEF Writes
    <3>2. CASE r # n
      BY <1>5, <1>6, <2>1, <3>2 DEF PlanInv, RowGood
    <3> QED
      BY <3>1, <3>2
  <2> QED
    BY <2>2, <2>3
<1>8. ASSUME NEW s \in Slots, job[s].id # 0
      PROVE  /\ Good(job[s].copy, live'[job[s].id], today)
             /\ On(run'[job[s].id], today) /\ ~On(job[s].copy, today) => today \in live'[job[s].id]
  <2> DEFINE m == job[s].id
             c == job[s].copy
  <2>1. m \in Run
    BY <1>1, <1>8 DEF CallsInv, JobOK
  <2>2. /\ Good(c, live[m], today)
        /\ On(run[m], today) /\ ~On(c, today) => today \in live[m]
    BY <1>8 DEF PlanInv, CopyGood
  <2>3. Good(c, live'[m], today)
    BY <1>6, <2>1, <2>2
  <2>4. ASSUME On(run'[m], today), ~On(c, today) PROVE today \in live'[m]
    <3>1. CASE On(run[m], today)
      BY <1>3, <2>1, <2>2, <2>4, <3>1
    <3>2. CASE ~On(run[m], today)
      <4>1. m = n /\ run'[m] = w
        BY <1>5, <2>1, <2>4, <3>2
      <4>2. run'[m].state = "paused" /\ run'[m] # run[m] /\ ~PausedOn(run[m])
        BY <2>4, <3>2, <4>1 DEF Writes, On, PausedOn
      <4> QED
        BY <1>4, <2>1, <4>2 DEF WorksOn
    <3> QED
      BY <3>1, <3>2
  <2> QED
    BY <2>3, <2>4
<1>9. run' \in [Run -> Row]
  BY <1>1, <1>5 DEF Writes, Tables
<1> QED
  BY <1>7, <1>8, <1>9

LEMMA WriteRunWrites ==
  ASSUME PlanInv, NEW s \in Slots, WriteRun(s)
  PROVE  \E n, w : Writes(n, w)
<1> DEFINE n == job[s].id
           c == job[s].copy
<1>1. Tables /\ CallsInv /\ JobOK(job[s]) /\ Lived /\ UNCHANGED today
  BY DEF PlanInv, CallsInv, WriteRun
<1>2. job[s].kind \in People \ {"include", "start"} /\ n \in Run /\ n # 0
  BY <1>1 DEF JobOK, WriteRun
<1>3. /\ today \in Date /\ today \in Nat \ {0}
      /\ live[n] \in SUBSET (Nat \ {0}) /\ live'[n] \in SUBSET (Nat \ {0})
      /\ live'[n] = live[n] \/ live'[n] = live[n] \cup {today}
  <2>1. today \in Date /\ today \in Nat \ {0} /\ \A r \in Run : live[r] \in SUBSET (Nat \ {0})
    BY <1>1, Positive DEF Tables
  <2>2. live'[n] = live[n] \/ live'[n] = live[n] \cup {today}
    BY <1>1, <1>2, LivedGrows DEF Grows
  <2> HIDE DEF n
  <2>3. live[n] \in SUBSET (Nat \ {0})
    BY <1>2, <2>1
  <2> QED
    BY <2>1, <2>2, <2>3
<1>4. /\ Good(c, live[n], today)
      /\ On(run[n], today) /\ ~On(c, today) => today \in live[n]
  BY <1>2 DEF PlanInv, CopyGood
<1>5. Good(c, live'[n], today)
  BY <1>3, <1>4, GoodMore
<1>6. ASSUME NEW w, w \in Row, run' = [run EXCEPT ![n] = w]
      PROVE  /\ run'[n] = w
             /\ w.state = "paused" /\ On(w, today) /\ ~On(run[n], today) => today \in live'[n]
  <2>1. run'[n] = w
    BY <1>1, <1>2, <1>6 DEF Tables
  <2>2. live'[n] = IF WorksOn(n) THEN live[n] \cup {today} ELSE live[n]
    BY <1>1, <1>2 DEF Lived
  <2>3. ASSUME w.state = "paused", On(w, today), ~On(run[n], today) PROVE WorksOn(n)
    BY <2>1, <2>3 DEF WorksOn, On, PausedOn
  <2> QED
    BY <2>1, <2>2, <2>3
<1>7. CASE job[s].kind = "warn"
  <2> DEFINE w == Warned(c)
  <2>1. run' = [run EXCEPT ![n] = w]
    BY <1>7 DEF WriteRun
  <2>2. c \in Row
    BY <1>4 DEF Good
  <2>3. ASSUME NEW S \in SUBSET (Nat \ {0}), Good(c, S, today), On(c, today) \/ today \in S
        PROVE  Good(w, S, today) /\ On(w, today) /\ w.state = "paused" /\ w \in Row
    BY <1>3, <2>3, WarnedGood DEF Good
  <2> HIDE DEF w
  <2>4. w \in Row /\ On(w, today) /\ w.state = "paused"
    <3>1. live[n] \cup {today} \in SUBSET (Nat \ {0})
      BY <1>3
    <3>2. Good(c, live[n] \cup {today}, today)
      BY <1>3, <1>4, GoodMore
    <3> QED
      BY <2>3, <3>1, <3>2
  <2>5. On(c, today) \/ today \in live'[n]
    BY <1>3, <1>4, <1>6, <2>1, <2>4
  <2>6. Good(w, live'[n], today)
    BY <1>3, <1>5, <2>3, <2>5
  <2> QED
    BY <1>2, <2>1, <2>4, <2>6 DEF Writes
<1>8. CASE job[s].kind = "resume"
  <2> DEFINE w == Resumed(c)
  <2>1. run' = [run EXCEPT ![n] = w]
    BY <1>8 DEF WriteRun
  <2>2. Good(w, live'[n], today) /\ ~On(w, today)
    BY <1>3, <1>5, ResumedGood
  <2> HIDE DEF w
  <2>3. w \in Row
    BY <2>2 DEF Good
  <2> QED
    BY <1>2, <2>1, <2>2, <2>3 DEF Writes
<1>9. CASE job[s].kind \notin {"warn", "resume"}
  <2> DEFINE w == [run[n] EXCEPT !.state = "stopped"]
  <2>1. run' = [run EXCEPT ![n] = w]
    BY <1>1, <1>2, <1>9 DEF WriteRun, Tables
  <2>2. run[n] \in Row
    BY <1>1, <1>2 DEF Tables
  <2>3. w \in Row /\ w.state = "stopped" /\ w.until = run[n].until
    BY <2>2 DEF Row
  <2> HIDE DEF w
  <2> QED
    BY <1>2, <2>1, <2>3 DEF Writes, On
<1> QED
  BY <1>7, <1>8, <1>9

LEMMA StartRunWrites ==
  ASSUME PlanInv, NEW s \in Slots, StartRun(s)
  PROVE  \E n, w : Writes(n, w)
<1> DEFINE w == [state |-> "running", from |-> today, until |-> 0, out |-> 0]
<1>1. Tables /\ Lived /\ UNCHANGED today
  BY DEF PlanInv, StartRun
<1>2. PICK n \in Run : run' = [run EXCEPT ![n] = [NoRun EXCEPT !.state = "running", !.from = today]]
  BY DEF StartRun
<1>3. [NoRun EXCEPT !.state = "running", !.from = today] = w
  <2>1. StateIs(NoRun, "running") = [state |-> "running", from |-> 1, until |-> 0, out |-> 0]
    BY DEF NoRun, StateIs
  <2>2. [StateIs(NoRun, "running") EXCEPT !.from = today] = w
    BY <2>1
  <2>3. [NoRun EXCEPT !.state = "running", !.from = today] = [StateIs(NoRun, "running") EXCEPT !.from = today]
    BY Zenon DEF StateIs
  <2> QED
    BY <2>2, <2>3, Zenon
<1>4. today \in Date /\ today \in Nat \ {0} /\ PauseDays \in Nat
  BY <1>1, Positive, ConstantsAssumption DEF Tables
<1>5. w \in Row
  BY <1>4 DEF Row
<1>6. live'[n] \in SUBSET (Nat \ {0})
  BY <1>1, <1>4, LivedGrows, Positive DEF Grows
<1>7. Before(live'[n], today) \in Nat
  BY <1>4, <1>6, BeforeIs
<1>8. ~On(w, today) /\ Down(w, today) = 0 /\ Credit(w, today) = 0
  BY DEF On, Down, Credit
<1>9. w.state = "running" /\ w.until = 0 /\ w.from = today
  OBVIOUS
<1> HIDE DEF w
<1>10. today - w.from <= Before(live'[n], today) + Down(w, today) - Credit(w, today)
  BY <1>4, <1>7, <1>8, <1>9
<1>11. Good(w, live'[n], today)
  BY <1>4, <1>5, <1>8, <1>9, <1>10 DEF Good
<1> QED
  BY <1>2, <1>3, <1>5, <1>8, <1>11 DEF Writes

LEMMA SettleRunWrites ==
  ASSUME PlanInv, NEW s \in Slots, SettleRun(s), run' # run
  PROVE  \E n, w : Writes(n, w)
<1> DEFINE n == job[s].id
           c == job[s].copy
           w == Settled(c)
<1>1. Tables /\ CallsInv /\ JobOK(job[s]) /\ Lived /\ UNCHANGED today
  BY DEF PlanInv, CallsInv, SettleRun
<1>2. n \in Run /\ n # 0
  BY <1>1 DEF JobOK, SettleRun
<1>3. run' = [run EXCEPT ![n] = w] /\ ~PausedOn(c)
  BY DEF SettleRun
<1>4. today \in Date /\ today \in Nat \ {0} /\ live[n] \in SUBSET (Nat \ {0})
  BY <1>1, <1>2, Positive DEF Tables
<1>5. Good(c, live[n], today)
  BY <1>2 DEF PlanInv, CopyGood
<1>6. ~On(c, today)
  BY <1>3 DEF On, PausedOn
<1>7. Good(w, live[n], today) /\ ~On(w, today)
  BY <1>4, <1>5, <1>6, ResumedGood
<1> HIDE DEF w
<1>8. Good(w, live'[n], today)
  BY <1>1, <1>2, <1>4, <1>7, GoodMore, LivedGrows DEF Grows
<1>9. w \in Row
  BY <1>7 DEF Good
<1> QED
  BY <1>2, <1>3, <1>7, <1>8, <1>9 DEF Writes
-----------------------------------------------------------------------------
(* A step of a call.                                                       *)

LEMMA LivedAlready ==
  ASSUME PlanInv, Lived, UNCHANGED <<today, run>>
  PROVE  live' = live
<1>1. Tables
  BY DEF PlanInv
<1>2. ASSUME NEW r \in Run PROVE (IF WorksOn(r) THEN live[r] \cup {today'} ELSE live[r]) = live[r]
  <2>1. WorksOn(r) => today \in live[r]
    BY DEF WorksOn, PlanInv, RowGood
  <2> QED
    BY <2>1
<1>3. live' = [r \in Run |-> live[r]]
  BY <1>2 DEF Lived
<1> QED
  BY <1>1, <1>3 DEF Tables

LEMMA StepRuns ==
  ASSUME PlanInv, NEW s \in Slots, Step(s)
  PROVE  /\ UNCHANGED today
         /\ \/ UNCHANGED <<run, live>>
            \/ Lived /\ \E n, w : Writes(n, w)
<1>1. UNCHANGED today
  BY DEF Step, Begin, ReadRun, WriteRun, StartRun, WriteAccount, SettleRun, LiftRestriction,
     CheckQuota, Count, RecordOver, Fail, Keeps
<1>2. CASE WriteRun(s) \/ StartRun(s)
  BY <1>1, <1>2, WriteRunWrites, StartRunWrites DEF WriteRun, StartRun
<1>3. CASE SettleRun(s)
  <2>1. Lived
    BY <1>3 DEF SettleRun
  <2>2. CASE run' = run
    BY <1>1, <2>1, <2>2, LivedAlready
  <2>3. CASE run' # run
    BY <1>1, <1>3, <2>1, <2>3, SettleRunWrites
  <2> QED
    BY <2>2, <2>3
<1>4. CASE ~(WriteRun(s) \/ StartRun(s) \/ SettleRun(s))
  <2>1. UNCHANGED <<run, live>>
    BY <1>4 DEF Step, Begin, ReadRun, WriteAccount, LiftRestriction, CheckQuota, Count, RecordOver,
       Fail, Keeps, tables
  <2> QED
    BY <1>1, <2>1
<1> QED
  BY <1>2, <1>3, <1>4

LEMMA StepGrows ==
  ASSUME PlanInv, NEW s \in Slots, Step(s)
  PROVE  Grows /\ live' = [r \in Run |-> live'[r]] /\ today' \in Date /\ today' = today
BY StepRuns, LivedGrows DEF PlanInv, Tables

LEMMA StepGood ==
  ASSUME PlanInv, NEW s \in Slots, Step(s)
  PROVE  /\ run' \in [Run -> Row] /\ \A r \in Run : RowGood(r)'
         /\ \A t \in Slots : CopyGood(job[t])'
<1>1. Tables /\ CallsInv /\ UNCHANGED today
  BY StepRuns DEF PlanInv
<1>2. CASE UNCHANGED <<run, live>>
  <2>1. run' \in [Run -> Row] /\ \A r \in Run : RowGood(r)'
    BY <1>1, <1>2 DEF Tables, PlanInv, RowGood
  <2>2. ASSUME NEW t \in Slots PROVE CopyGood(job[t])'
    <3>1. CASE ReadRun(s) \/ \E k \in Calls : Begin(s, k)
      <4>1. CopyGood(job'[t])
        BY <3>1, CopiesRead
      <4> QED
        BY <1>1, <1>2, <4>1 DEF CopyGood
    <3>2. CASE ~(ReadRun(s) \/ \E k \in Calls : Begin(s, k))
      <4>1. job'[t].id = 0 \/ (job'[t].id = job[t].id /\ job'[t].copy = job[t].copy)
        BY <1>1, <3>2, CopiesStay
      <4>2. CopyGood(job[t])
        BY DEF PlanInv
      <4> QED
        BY <1>1, <1>2, <4>1, <4>2 DEF CopyGood
    <3> QED
      BY <3>1, <3>2
  <2> QED
    BY <2>1, <2>2
<1>3. ASSUME Lived, NEW n, NEW w, Writes(n, w), run' # run \/ live' # live
      PROVE  /\ run' \in [Run -> Row] /\ \A r \in Run : RowGood(r)'
             /\ \A t \in Slots : CopyGood(job[t])'
  <2>1. /\ run' \in [Run -> Row] /\ \A r \in Run : RowGood(r)'
        /\ \A t \in Slots : job[t].id # 0 =>
              /\ Good(job[t].copy, live'[job[t].id], today)
              /\ On(run'[job[t].id], today) /\ ~On(job[t].copy, today) => today \in live'[job[t].id]
    BY <1>1, <1>3, WriteKeeps
  <2>2. ~ReadRun(s) /\ ~(\E k \in Calls : Begin(s, k))
    BY <1>3 DEF ReadRun, Begin, Keeps, tables
  <2>3. ASSUME NEW t \in Slots PROVE CopyGood(job[t])'
    <3>1. job'[t].id = 0 \/ (job'[t].id = job[t].id /\ job'[t].copy = job[t].copy)
      BY <1>1, <2>2, CopiesStay
    <3> QED
      BY <1>1, <2>1, <3>1 DEF CopyGood
  <2> QED
    BY <2>1, <2>3
<1> QED
  BY <1>2, <1>3, StepRuns

\* Only a count changes the day's number, and who counts has the account to itself.
LEMMA CountTurn ==
  ASSUME PlanInv, NEW s \in Slots, Step(s)
  PROVE  UNCHANGED rows \/ (Count(s) /\ job[s].kind \in Counted /\ MyTurn(s) /\ job[s].id \in Run
                            /\ Room(rows[job[s].id][today], 1 + Before(live[job[s].id], today)))
<1>1. UNCHANGED rows \/ Count(s)
  BY DEF Step, Begin, ReadRun, WriteRun, StartRun, WriteAccount, SettleRun, LiftRestriction,
     CheckQuota, Count, RecordOver, Fail, Keeps, tables
<1>2. CASE Count(s)
  <2>1. JobOK(job[s]) /\ Holds(s) /\ job[s].at = "count"
    BY <1>2 DEF PlanInv, CallsInv, Count
  <2>2. job[s].kind \in Counted /\ job[s].id \in Run
    BY <2>1 DEF JobOK
  <2> QED
    BY <1>2, <2>1, <2>2 DEF Holds
<1> QED
  BY <1>1, <1>2

LEMMA StepEarned ==
  ASSUME PlanInv, NEW s \in Slots, Step(s)
  PROVE  Earned' /\ rows' \in [Run -> [Date -> Nat]]
<1>1. Tables /\ Earned /\ Grows /\ today' \in Date /\ today' = today /\ today \in Nat
  BY StepGrows DEF PlanInv, Tables, Date
<1>2. CASE UNCHANGED rows
  <2>1. today' >= today
    BY <1>1
  <2> QED
    BY <1>1, <1>2, <2>1, EarnedStays DEF Tables
<1>3. CASE Count(s) /\ job[s].id \in Run
           /\ Room(rows[job[s].id][today], 1 + Before(live[job[s].id], today))
  <2> DEFINE n == job[s].id
  <2>1. /\ rows' = [rows EXCEPT ![n][today] = @ + 1] /\ UNCHANGED <<today, live>>
        /\ n \in Run /\ Room(rows[n][today], 1 + Before(live[n], today))
    BY <1>3 DEF Count
  <2> HIDE DEF n
  <2>2. rows \in [Run -> [Date -> Nat]] /\ today \in Date
    BY <1>1 DEF Tables
  <2>3. rows' = [r \in Run |-> [d \in Date |->
                   IF r = n /\ d = today THEN rows[n][today] + 1 ELSE rows[r][d]]]
    BY <2>1, <2>2
  <2>4. rows' \in [Run -> [Date -> Nat]]
    BY <2>2, <2>3
  <2>5. ASSUME NEW r \in Run, NEW d \in Date
        PROVE  /\ d > today => rows'[r][d] = 0
               /\ Within(rows'[r][d], 1 + Before(live[r], d))
    <3>1. CASE r = n /\ d = today
      <4>1. rows'[r][d] = rows[n][today] + 1 /\ rows[n][today] \in Nat
        BY <2>2, <2>3, <3>1
      <4>2. Within(rows[n][today] + 1, 1 + Before(live[n], today))
        <5>1. live[n] \in SUBSET (Nat \ {0})
          BY <1>1, <2>1, Positive
        <5> QED
          BY <2>1, <2>2, <4>1, <5>1, QuotaIs
      <4>3. ~(d > today)
        BY <1>1, <3>1
      <4> QED
        BY <2>1, <3>1, <4>1, <4>2, <4>3
    <3>2. CASE ~(r = n /\ d = today)
      <4>1. rows'[r][d] = rows[r][d]
        BY <2>3, <3>2
      <4> QED
        BY <1>1, <4>1 DEF Earned
    <3> QED
      BY <3>1, <3>2
  <2> QED
    BY <2>1, <2>4, <2>5 DEF Earned
<1> QED
  BY <1>2, <1>3, CountTurn

\* What the quota allowed is within what the run has lived its way to.
LEMMA AllowedEarned ==
  ASSUME PlanInv, NEW s \in Slots, CheckQuota(s), Allowed(job[s].id, job[s].copy)
  PROVE  Room(rows[job[s].id][today], 1 + Before(live[job[s].id], today))
<1> DEFINE n == job[s].id
           c == job[s].copy
<1>1. Tables /\ CallsInv /\ JobOK(job[s]) /\ job[s].at = "check"
  BY DEF PlanInv, CallsInv, CheckQuota
<1>2. n \in Run /\ n # 0
  BY <1>1 DEF JobOK
<1>3. Good(c, live[n], today)
  BY <1>2 DEF PlanInv, CopyGood
<1>4. ~PausedOn(c) /\ rows[n][today] < Quota[DayOfRun(c)]
  BY DEF Allowed
<1> HIDE DEF n, c
<1>5. today \in Date /\ live[n] \in SUBSET (Nat \ {0}) /\ rows[n][today] \in Nat
  BY <1>1, <1>2, Positive DEF Tables
<1>6. DayOfRun(c) \in 1 .. 1 + Before(live[n], today)
  BY <1>3, <1>4, <1>5, DayLived
<1>7. Room(rows[n][today], 1 + Before(live[n], today))
  BY <1>4, <1>6 DEF Room
<1> QED
  BY <1>7 DEF n

\* Who steps, if it goes on, is at the head of the line still.
LEMMA HoldsOwn ==
  ASSUME PlanInv, NEW s \in Slots, Step(s)
  PROVE  Holds(s)'
<1>1. /\ Tables /\ CallsInv /\ JobOK(job[s]) /\ Holds(s)
      /\ Grows /\ today' \in Date /\ today' = today /\ today \in Nat
  BY StepGrows DEF PlanInv, CallsInv, Tables, Date
<1>2. \A r \in Run : Before(live'[r], today) = Before(live[r], today)
  <2>1. today' >= today /\ today <= today'
    BY <1>1
  <2> QED
    BY <1>1, <2>1, LiveStays
<1>3. ASSUME NEW j, Moves(s, j), ~(j.kind \in Counted /\ j.at \in {"settle", "lift", "count"})
      PROVE  Holds(s)'
  BY <1>1, <1>3, MovedIs DEF Holds
<1>4. CASE Ends(s)
  <2>1. Moves(s, Idle) /\ Idle.at = "idle"
    BY <1>4 DEF Ends, Moves, Idle
  <2> QED
    BY <1>3, <2>1
<1>5. CASE \E k \in Calls : Begin(s, k)
  <2>1. PICK k \in Calls : Begin(s, k)
    BY <1>5
  <2>2. Moves(s, Fields(k, IF k = "include" THEN "account" ELSE "read", 0, NoRun, status))
    BY <1>1, <2>1, BeginIs
  <2> QED
    BY <1>3, <2>2, FieldsAre
<1>6. CASE ReadRun(s)
  <2>1. CASE Moves(s, Learnt(job[s]))
    <3>1. Learnt(job[s]).kind = job[s].kind /\ Learnt(job[s]).at = After(job[s].kind, Found)
      BY FieldsAre DEF Learnt
    <3>2. job[s].kind \in Counted => After(job[s].kind, Found) \in {"event", "check"}
      BY DEF After, Counted
    <3> QED
      BY <1>3, <2>1, <3>1, <3>2
  <2> QED
    BY <1>1, <1>4, <1>6, <2>1, ReadIs
<1>7. ASSUME NEW step, GoesTo(s, step), UNCHANGED rows,
             job[s].kind \in Counted /\ step \in {"settle", "lift", "count"} =>
               MyTurn(s) /\ Room(rows[job[s].id][today], 1 + Before(live[job[s].id], today)),
             job[s].kind \in Counted /\ step \in {"settle", "lift", "count"} => job[s].id \in Run
      PROVE  Holds(s)'
  <2> DEFINE j == Fields(job[s].kind, step, job[s].id, job[s].copy, job[s].was)
  <2>1. Moves(s, j) /\ line' = line
    BY <1>1, <1>7, GoesIs DEF GoesTo
  <2>2. job'[s] = j /\ j.kind = job[s].kind /\ j.at = step /\ j.id = job[s].id
    BY <1>1, <2>1, MovedIs, FieldsAre
  <2> HIDE DEF j
  <2>3. MyTurn(s) => MyTurn(s)'
    BY <2>1 DEF MyTurn
  <2> QED
    BY <1>1, <1>2, <1>7, <2>2, <2>3 DEF Holds
<1>8. CASE CheckQuota(s)
  <2>1. job[s].at = "check" /\ MyTurn(s) /\ UNCHANGED rows
    BY <1>8 DEF CheckQuota, Keeps, tables
  <2>2. job[s].id \in Run
    BY <1>1, <2>1 DEF JobOK
  <2>3. CASE Allowed(job[s].id, job[s].copy)
    <3>1. GoesTo(s, "settle")
      BY <1>8, <2>3 DEF CheckQuota
    <3>2. Room(rows[job[s].id][today], 1 + Before(live[job[s].id], today))
      BY <1>8, <2>3, AllowedEarned
    <3> QED
      BY <1>7, <2>1, <2>2, <3>1, <3>2
  <2>4. CASE GoesTo(s, "event")
    BY <1>7, <2>1, <2>4
  <2> QED
    BY <1>4, <1>8, <2>3, <2>4 DEF CheckQuota
<1>9. CASE SettleRun(s) \/ LiftRestriction(s)
  <2>1. /\ job[s].at \in {"settle", "lift"} /\ UNCHANGED rows
        /\ Ends(s) \/ GoesTo(s, "lift") \/ GoesTo(s, "count")
    BY <1>9 DEF SettleRun, LiftRestriction, AfterSettle
  <2>2. job[s].id \in Run
    BY <1>1, <2>1 DEF JobOK
  <2>3. job[s].kind \in Counted =>
          MyTurn(s) /\ Room(rows[job[s].id][today], 1 + Before(live[job[s].id], today))
    BY <1>1, <2>1 DEF Holds
  <2> QED
    BY <1>4, <1>7, <2>1, <2>2, <2>3
<1>10. CASE WriteRun(s) \/ StartRun(s)
  <2>1. GoesTo(s, "account") /\ UNCHANGED rows
    BY <1>10 DEF WriteRun, StartRun
  <2> QED
    BY <1>7, <2>1
<1>11. CASE WriteAccount(s) \/ Count(s) \/ RecordOver(s) \/ Fail(s)
  BY <1>4, <1>11 DEF WriteAccount, Count, RecordOver, Fail
<1> QED
  BY <1>5, <1>6, <1>8, <1>9, <1>10, <1>11 DEF Step

LEMMA OthersStay ==
  ASSUME CallsInv, NEW s \in Slots, Step(s), NEW t \in Slots, t # s
  PROVE  job'[t] = job[t]
<1>1. \E j : Moves(s, j)
  <2>1. (\E k \in Calls : Begin(s, k)) \/ ReadRun(s) \/ Ends(s) \/ \E step : GoesTo(s, step)
    BY DEF Step, WriteRun, StartRun, WriteAccount, SettleRun, LiftRestriction, AfterSettle,
       CheckQuota, Count, RecordOver, Fail
  <2>2. Ends(s) => Moves(s, Idle)
    BY DEF Ends, Moves
  <2> QED
    BY <2>1, <2>2, BeginIs, ReadIs, GoesIs
<1> QED
  BY <1>1, MovedIs

\* And whoever holds the account holds it through the steps of others.
LEMMA HoldsOther ==
  ASSUME PlanInv, NEW s \in Slots, Step(s), NEW t \in Slots, t # s
  PROVE  Holds(t)'
<1>1. /\ Tables /\ CallsInv /\ JobOK(job[t]) /\ Holds(t)
      /\ Grows /\ today' \in Date /\ today' = today /\ today \in Nat
  BY StepGrows DEF PlanInv, CallsInv, Tables, Date
<1>2. \A r \in Run : Before(live'[r], today) = Before(live[r], today)
  <2>1. today' >= today /\ today <= today'
    BY <1>1
  <2> QED
    BY <1>1, <2>1, LiveStays
<1>3. job'[t] = job[t]
  BY <1>1, OthersStay
<1>4. ASSUME MyTurn(t) PROVE MyTurn(t)' /\ UNCHANGED rows
  <2>1. line # <<>> /\ line[1] = t
    BY <1>4 DEF MyTurn
  <2>2. line' # <<>> /\ line'[1] = t
    BY <1>1, <2>1, HeadStays DEF Tables
  <2>3. ~MyTurn(s)
    BY <2>1 DEF MyTurn
  <2> QED
    BY <2>2, <2>3, CountTurn DEF MyTurn
<1>5. job[t].kind \in Counted /\ job[t].at \in {"settle", "lift", "count"} => job[t].id \in Run
  BY <1>1 DEF JobOK
<1> QED
  BY <1>1, <1>2, <1>3, <1>4, <1>5 DEF Holds

-----------------------------------------------------------------------------
(* Midnight, and the beginning.                                            *)

LEMMA MidnightPlan ==
  ASSUME PlanInv, Midnight, CallsInv'
  PROVE  PlanInv'
<1>1. /\ Tables /\ Earned /\ today' = today + 1 /\ today < MaxDate
      /\ UNCHANGED <<run, rows, job, line>> /\ Lived
  BY DEF PlanInv, Midnight, tables
<1>2. /\ today \in Nat \ {0} /\ today' \in Date /\ today' >= today /\ Grows
      /\ \A r \in Run : live[r] \in SUBSET (Nat \ {0})
  BY <1>1, LivedGrows, Positive, ConstantsAssumption DEF Tables, Date
<1>3. Tables'
  <2>1. live' = [r \in Run |-> live'[r]] /\ \A r \in Run : live'[r] \subseteq 1 .. today'
    BY <1>1, <1>2, LivedGrows, LiveStays
  <2> QED
    BY <1>1, <1>2, <2>1 DEF Tables
<1>4. Earned'
  BY <1>1, <1>2, EarnedStays
<1>5. \A r \in Run : live'[r] = IF run[r].state = "running" THEN live[r] \cup {today'} ELSE live[r]
  BY <1>1 DEF Lived, WorksOn
<1>6. ASSUME NEW r \in Run PROVE RowGood(r)'
  <2>1. SUFFICES ASSUME run[r].state \in {"running", "paused"}
                 PROVE  Good(run[r], live'[r], today') /\ (run[r].state = "running" => today' \in live'[r])
    BY <1>1 DEF RowGood
  <2>2. Good(run[r], live[r], today) /\ (run[r].state = "running" => today \in live[r])
    BY <2>1 DEF PlanInv, RowGood
  <2>3. Good(run[r], live[r], today + 1)
    BY <1>2, <2>2, NextDay
  <2>4. Good(run[r], live[r] \cup {today'}, today')
    <3>1. today' \in Nat \ {0} /\ Good(run[r], live[r], today')
      BY <1>1, <1>2, <2>3
    <3> QED
      BY <1>2, <3>1, GoodMore
  <2> QED
    BY <1>1, <1>5, <2>3, <2>4
<1>7. ASSUME NEW s \in Slots PROVE CopyGood(job[s])' /\ Holds(s)'
  <2>1. job'[s] = job[s] /\ job[s].kind = "none"
    BY <1>1 DEF Midnight
  <2>2. job[s].id = 0
    BY <2>1 DEF PlanInv, CallsInv, JobOK
  <2>3. "none" \notin Counted
    BY DEF Counted
  <2> QED
    BY <2>1, <2>2, <2>3 DEF CopyGood, Holds
<1> QED
  BY <1>3, <1>4, <1>6, <1>7 DEF PlanInv

LEMMA StepPlan ==
  ASSUME PlanInv, NEW s \in Slots, Step(s), CallsInv'
  PROVE  PlanInv'
<1>1. Tables /\ Grows /\ live' = [r \in Run |-> live'[r]] /\ today' = today /\ today \in Date /\ today \in Nat
  BY StepGrows DEF PlanInv, Tables, Date
<1>2. Tables'
  <2>1. today' \in Date /\ today' >= today
    BY <1>1
  <2>2. \A r \in Run : live'[r] \subseteq 1 .. today'
    BY <1>1, <2>1, LiveStays
  <2>3. line' \in Seq(Slots)
    BY <1>1, HeadStays DEF Tables
  <2> QED
    BY <1>1, <2>1, <2>2, <2>3, StepGood, StepEarned DEF Tables
<1>3. ASSUME NEW t \in Slots PROVE Holds(t)'
  BY HoldsOwn, HoldsOther
<1> QED
  BY <1>2, <1>3, StepGood, StepEarned DEF PlanInv

LEMMA PlanInit == Init => PlanInv
<1> SUFFICES ASSUME Init PROVE PlanInv
  OBVIOUS
<1> DEFINE first == [state |-> "running", from |-> 1, until |-> 0, out |-> 0]
<1>1. CallsInv /\ 1 \in Date /\ 1 \in Run /\ PauseDays \in Nat /\ today = 1
  BY CallsStart, ConstantsAssumption DEF Init, Date, Run
<1>2. NoRun \in Row /\ first \in Row
  BY <1>1 DEF NoRun, Row
<1>3. [NoRun EXCEPT !.state = "running"] = first
  BY DEF NoRun
<1>4. run = [r \in Run |-> IF r = 1 THEN first ELSE NoRun]
  BY <1>3 DEF Init
<1>5. live = [r \in Run |-> IF r = 1 THEN {1} ELSE {}]
  BY DEF Init
<1>6. Tables
  <2>1. line \in Seq(Slots)
    BY DEF Init
  <2>2. run \in [Run -> Row]
    <3> HIDE DEF first
    <3> QED
      BY <1>2, <1>4
  <2>3. rows \in [Run -> [Date -> Nat]]
    BY DEF Init
  <2> QED
    BY <1>1, <1>5, <2>1, <2>2, <2>3 DEF Tables
<1>7. \A r \in Run : live[r] \in SUBSET (Nat \ {0})
  BY <1>6, Positive
<1>8. Earned
  <2>1. ASSUME NEW r \in Run, NEW d \in Date
        PROVE  rows[r][d] = 0 /\ Within(0, 1 + Before(live[r], d))
    BY <1>7, QuotaIs DEF Init
  <2> QED
    BY <2>1 DEF Earned
<1>9. ASSUME NEW r \in Run PROVE RowGood(r)
  <2>1. CASE r = 1
    <3>1. run[r] = first /\ live[r] = {1}
      BY <1>1, <1>4, <1>5, <2>1
    <3>2. first.state = "running" /\ first.until = 0 /\ first.from = 1
      OBVIOUS
    <3>3. ~On(first, 1) /\ Down(first, 1) = 0 /\ Credit(first, 1) = 0
      BY DEF On, Down, Credit
    <3> HIDE DEF first
    <3>4. Before({1}, 1) \in Nat
      <4>1. {1} \in SUBSET (Nat \ {0}) /\ 1 \in Nat \ {0}
        OBVIOUS
      <4> QED
        BY <4>1, BeforeIs
    <3>5. Good(first, {1}, 1)
      BY <1>1, <1>2, <3>2, <3>3, <3>4 DEF Good
    <3> QED
      BY <1>1, <3>1, <3>2, <3>5 DEF RowGood
  <2>2. CASE r # 1
    <3>1. run[r].state = "none"
      BY <1>4, <2>2 DEF NoRun
    <3> QED
      BY <3>1 DEF RowGood
  <2> QED
    BY <2>1, <2>2
<1>10. ASSUME NEW s \in Slots PROVE CopyGood(job[s]) /\ Holds(s)
  <2>1. job[s].id = 0 /\ job[s].at = "idle"
    BY DEF Init, Idle
  <2> QED
    BY <2>1 DEF CopyGood, Holds
<1> QED
  BY <1>1, <1>6, <1>8, <1>9, <1>10 DEF PlanInv

LEMMA PlanStep == PlanInv /\ [Next]_vars => PlanInv'
<1> SUFFICES ASSUME PlanInv, [Next]_vars PROVE PlanInv'
  OBVIOUS
<1>1. CallsInv'
  BY CallsStep DEF PlanInv
<1>2. CASE UNCHANGED vars
  BY <1>2 DEF vars, tables, PlanInv, CallsInv, Tables, Earned, RowGood, CopyGood, Holds, MyTurn
<1> QED
  BY <1>1, <1>2, MidnightPlan, StepPlan DEF Next

LEMMA InvIsPlan == PlanInv => PlanKept
<1> SUFFICES ASSUME PlanInv PROVE PlanKept
  OBVIOUS
<1>1. Tables /\ today \in Date /\ \A r \in Run : live[r] \in SUBSET (Nat \ {0})
  BY Positive DEF PlanInv, Tables
<1>2. DayNotAhead
  <2> SUFFICES ASSUME NEW r \in LiveRuns, ~PausedOn(run[r])
               PROVE  DayOfRun(run[r]) <= 1 + LivedBefore(r, today)
    BY DEF DayNotAhead
  <2>1. r \in Run /\ Good(run[r], live[r], today)
    BY DEF LiveRuns, PlanInv, RowGood
  <2>2. DayOfRun(run[r]) \in 1 .. 1 + Before(live[r], today)
    BY <1>1, <2>1, DayLived
  <2> QED
    BY <2>2 DEF Before, LivedBefore
<1>3. PlanEarned
  BY DEF PlanInv, Earned, PlanEarned, Before, LivedBefore
<1> QED
  BY <1>2, <1>3 DEF PlanKept

\* However warnings, early resumes and the ends of pauses meet, each on its own copy of
\* the run, a run is never on a later day of its plan than it has worked dates for, and
\* what was counted on a date was allowed on some day the run had worked its way to:
\* on any plan, also one that falls.
THEOREM PlanIsKept == Spec => []PlanKept
BY PlanInit, PlanStep, InvIsPlan, PTL DEF Spec
-----------------------------------------------------------------------------
(* Types.                                                                  *)

RestOK ==
  /\ status \in {"idle", "warming", "restricted", "excluded"}
  /\ over \in [Date -> Nat] /\ calls \in 0 .. MaxCalls

LEMMA RestStep == PlanInv /\ RestOK /\ [Next]_vars => RestOK'
<1> SUFFICES ASSUME PlanInv, RestOK, [Next]_vars PROVE RestOK'
  OBVIOUS
<1>1. status' \in {"idle", "warming", "restricted", "excluded"}
  <2>1. CASE UNCHANGED status
    BY <2>1 DEF RestOK
  <2>2. ASSUME NEW s \in Slots, WriteAccount(s) PROVE status' \in {"idle", "warming", "restricted", "excluded"}
    <3> DEFINE becomes == [warn |-> "restricted", resume |-> "warming", start |-> "warming",
                           stop |-> "idle", include |-> "idle", exclude |-> "excluded"]
    <3>1. status' = becomes[job[s].kind] /\ job[s].kind \in {"start", "warn", "resume", "stop", "exclude", "include"}
      BY <2>2 DEF WriteAccount, People
    <3> QED
      BY <3>1
  <2>3. ASSUME NEW s \in Slots, LiftRestriction(s) PROVE status' \in {"idle", "warming", "restricted", "excluded"}
    BY <2>3 DEF LiftRestriction, RestOK
  <2>4. UNCHANGED status \/ \E s \in Slots : WriteAccount(s) \/ LiftRestriction(s)
    BY DEF Next, Step, Midnight, Begin, ReadRun, WriteRun, StartRun, WriteAccount, SettleRun,
       LiftRestriction, CheckQuota, Count, RecordOver, Fail, Keeps, tables, vars
  <2> QED
    BY <2>1, <2>2, <2>3, <2>4
<1>2. over' \in [Date -> Nat]
  <2>1. over' = over \/ over' = [over EXCEPT ![today] = @ + 1]
    BY DEF Next, Step, Midnight, Begin, ReadRun, WriteRun, StartRun, WriteAccount, SettleRun,
       LiftRestriction, CheckQuota, Count, RecordOver, Fail, Keeps, tables, vars
  <2> QED
    BY <2>1 DEF RestOK
<1>3. calls' \in 0 .. MaxCalls
  <2>1. calls' = calls \/ (calls < MaxCalls /\ calls' = calls + 1)
    BY DEF Next, Step, Midnight, Begin, ReadRun, WriteRun, StartRun, WriteAccount, SettleRun,
       LiftRestriction, CheckQuota, Count, RecordOver, Fail, Keeps, tables, vars
  <2>2. MaxCalls \in Nat
    BY ConstantsAssumption
  <2> QED
    BY <2>1, <2>2 DEF RestOK
<1> QED
  BY <1>1, <1>2, <1>3 DEF RestOK

\* The tables, the calls and the line keep their shapes.
THEOREM TypesOK == Spec => []TypeOK
<1>1. Init => RestOK
  BY ConstantsAssumption DEF Init, RestOK
<1>2. PlanInv /\ RestOK => TypeOK
  <2> SUFFICES ASSUME PlanInv, RestOK PROVE TypeOK
    OBVIOUS
  <2>1. \A s \in Slots : job[s].kind \in Kind \cup {"none"} /\ job[s].id \in Run \cup {0}
    BY DEF PlanInv, CallsInv, JobOK
  <2>2. live \in [Run -> SUBSET Date]
    <3>1. today \in Date /\ live = [r \in Run |-> live[r]] /\ \A r \in Run : live[r] \subseteq 1 .. today
      BY DEF PlanInv, Tables
    <3>2. 1 .. today \subseteq Date
      BY <3>1, ConstantsAssumption DEF Date
    <3> QED
      BY <3>1, <3>2
  <2> QED
    BY <2>1, <2>2 DEF TypeOK, PlanInv, Tables, RestOK, Row
<1> QED
  BY <1>1, <1>2, PlanInit, PlanStep, RestStep, PTL DEF Spec
-----------------------------------------------------------------------------
(* Sums.                                                                   *)

\* g adds a up, step by step.
Adds(g, a, n) == g = [i \in 0 .. n |-> IF i = 0 THEN 0 ELSE g[i - 1] + a[i]]

LEMMA SumExists ==
  ASSUME NEW n \in Nat, NEW a \in [1 .. n -> Nat]
  PROVE  \E g : Adds(g, a, n)
<1> DEFINE P(m) == \E g \in [0 .. m -> Nat] : Adds(g, a, m)
           T == {m \in 0 .. n : ~P(m)}
<1>1. T = {}
  <2> SUFFICES ASSUME T # {} PROVE FALSE
    OBVIOUS
  <2>1. PICK m \in T : \A y \in T : ~(y < m)
    <3>1. T \in SUBSET Nat
      OBVIOUS
    <3> HIDE DEF T
    <3> QED
      BY <3>1, Smallest
  <2>2. CASE m = 0
    <3>1. [i \in 0 .. 0 |-> 0] = [i \in 0 .. 0 |-> IF i = 0 THEN 0 ELSE [j \in 0 .. 0 |-> 0][i - 1] + a[i]]
      OBVIOUS
    <3>2. Adds([i \in 0 .. 0 |-> 0], a, 0) /\ [i \in 0 .. 0 |-> 0] \in [0 .. 0 -> Nat]
      BY <3>1 DEF Adds
    <3> QED
      BY <2>2, <3>2
  <2>3. CASE m # 0
    <3>1. m - 1 \in 0 .. n /\ m - 1 < m /\ m \in 1 .. n
      BY <2>3
    <3>2. PICK g \in [0 .. m - 1 -> Nat] : Adds(g, a, m - 1)
      BY <2>1, <3>1
    <3> DEFINE h == [i \in 0 .. m |-> IF i < m THEN g[i] ELSE g[m - 1] + a[m]]
    <3>3. a[m] \in Nat /\ g[m - 1] \in Nat
      BY <3>1
    <3>4. h \in [0 .. m -> Nat]
      BY <3>1, <3>3
    <3>5. ASSUME NEW i \in 0 .. m
          PROVE  h[i] = IF i = 0 THEN 0 ELSE h[i - 1] + a[i]
      <4>1. CASE i = m
        <5>1. h[i] = g[m - 1] + a[m] /\ h[i - 1] = g[m - 1]
          BY <3>1, <4>1
        <5> QED
          BY <2>3, <4>1, <5>1
      <4>2. CASE i < m
        <5>1. i \in 0 .. m - 1
          BY <3>1, <4>2
        <5>2. g[i] = IF i = 0 THEN 0 ELSE g[i - 1] + a[i]
          BY <3>2, <5>1 DEF Adds
        <5>3. h[i] = g[i] /\ (i # 0 => h[i - 1] = g[i - 1])
          BY <4>2, <5>1
        <5> QED
          BY <5>2, <5>3
      <4> QED
        BY <4>1, <4>2
    <3>6. Adds(h, a, m)
      <4>1. h = [i \in 0 .. m |-> h[i]]
        BY <3>4
      <4> HIDE DEF h
      <4> QED
        BY <3>5, <4>1 DEF Adds
    <3> HIDE DEF h
    <3>7. P(m)
      BY <3>4, <3>6
    <3> QED
      BY <3>7
  <2> QED
    BY <2>2, <2>3
<1> QED
  BY <1>1

LEMMA SumIs ==
  ASSUME NEW n \in Nat, NEW a \in [1 .. n -> Nat]
  PROVE  \E g : /\ SumOf(a, n) = g[n] /\ g[0] = 0
                /\ \A i \in 1 .. n : g[i] = g[i - 1] + a[i]
<1> DEFINE g == CHOOSE sum : sum = [i \in 0 .. n |-> IF i = 0 THEN 0 ELSE sum[i - 1] + a[i]]
<1>1. SumOf(a, n) = g[n]
  BY Zenon DEF SumOf
<1>2. g = [i \in 0 .. n |-> IF i = 0 THEN 0 ELSE g[i - 1] + a[i]]
  BY SumExists, Zenon DEF Adds
<1> HIDE DEF g
<1>3. g[0] = 0 /\ \A i \in 1 .. n : g[i] = g[i - 1] + a[i]
  BY <1>2
<1> QED
  BY <1>1, <1>3

LEMMA SumIsNat ==
  ASSUME NEW n \in Nat, NEW a \in [1 .. n -> Nat], NEW g,
         g[0] = 0, \A i \in 1 .. n : g[i] = g[i - 1] + a[i]
  PROVE  \A i \in 0 .. n : g[i] \in Nat
<1> DEFINE T == {i \in 0 .. n : ~(g[i] \in Nat)}
<1> SUFFICES ASSUME T # {} PROVE FALSE
  OBVIOUS
<1>1. PICK m \in T : \A y \in T : ~(y < m)
  <2>1. T \in SUBSET Nat
    OBVIOUS
  <2> HIDE DEF T
  <2> QED
    BY <2>1, Smallest
<1>2. m # 0 /\ m \in 1 .. n
  OBVIOUS
<1>3. g[m - 1] \in Nat
  BY <1>1, <1>2
<1> QED
  BY <1>2, <1>3

LEMMA SumAddsUp ==
  ASSUME NEW n \in Nat, NEW a \in [1 .. n -> Nat]
  PROVE  SumOf(a, n) \in Nat
<1>1. PICK g : /\ SumOf(a, n) = g[n] /\ g[0] = 0
               /\ \A i \in 1 .. n : g[i] = g[i - 1] + a[i]
  BY SumIs
<1> QED
  BY <1>1, SumIsNat

\* One more of one is one more of all.
LEMMA SumOneMore ==
  ASSUME NEW n \in Nat, NEW a \in [1 .. n -> Nat], NEW b \in [1 .. n -> Nat], NEW k \in 1 .. n,
         b[k] = a[k] + 1, \A i \in 1 .. n : i # k => b[i] = a[i]
  PROVE  SumOf(a, n) \in Nat /\ SumOf(b, n) = SumOf(a, n) + 1
<1>1. PICK g : /\ SumOf(a, n) = g[n] /\ g[0] = 0
               /\ \A i \in 1 .. n : g[i] = g[i - 1] + a[i]
  BY SumIs
<1>2. PICK h : /\ SumOf(b, n) = h[n] /\ h[0] = 0
               /\ \A i \in 1 .. n : h[i] = h[i - 1] + b[i]
  BY SumIs
<1>3. \A i \in 0 .. n : g[i] \in Nat
  BY <1>1, SumIsNat
<1>4. \A i \in 0 .. n : h[i] = IF i < k THEN g[i] ELSE g[i] + 1
  <2> DEFINE T == {i \in 0 .. n : ~(h[i] = IF i < k THEN g[i] ELSE g[i] + 1)}
  <2> SUFFICES ASSUME T # {} PROVE FALSE
    OBVIOUS
  <2>1. PICK m \in T : \A y \in T : ~(y < m)
    <3>1. T \in SUBSET Nat
      OBVIOUS
    <3> HIDE DEF T
    <3> QED
      BY <3>1, Smallest
  <2>2. m # 0
    BY <1>1, <1>2
  <2>3. m \in 1 .. n /\ m - 1 \in 0 .. n /\ m - 1 < m
    BY <2>2
  <2>4. h[m - 1] = IF m - 1 < k THEN g[m - 1] ELSE g[m - 1] + 1
    BY <2>1, <2>3
  <2>5. h[m] = h[m - 1] + b[m] /\ g[m] = g[m - 1] + a[m] /\ a[m] \in Nat /\ g[m - 1] \in Nat
    BY <1>1, <1>2, <1>3, <2>3
  <2>6. h[m] = IF m < k THEN g[m] ELSE g[m] + 1
    <3>1. CASE m < k
      <4>1. m - 1 < k /\ b[m] = a[m]
        BY <2>3, <3>1
      <4> QED
        BY <2>4, <2>5, <3>1, <4>1
    <3>2. CASE m = k
      <4>1. m - 1 < k /\ b[m] = a[m] + 1
        BY <2>3, <3>2
      <4> QED
        BY <2>4, <2>5, <3>2, <4>1
    <3>3. CASE m > k
      <4>1. ~(m - 1 < k) /\ b[m] = a[m] /\ ~(m < k)
        BY <2>3, <3>3
      <4> QED
        BY <2>4, <2>5, <4>1
    <3> QED
      BY <2>3, <3>1, <3>2, <3>3
  <2> QED
    BY <2>6
<1>5. n \in 0 .. n /\ ~(n < k)
  OBVIOUS
<1> QED
  BY <1>1, <1>2, <1>3, <1>4, <1>5

\* Nothing more, or one more request on one date, in the sums of the week.
LEMMA WeekSame == UNCHANGED <<today, rows, over>> => SentWeek' = SentWeek
BY DEF SentWeek, InWeek, OnDate, ThisWeek

LEMMA WeekOneMore ==
  ASSUME today \in Date, rows \in [Run -> [Date -> Nat]], over \in [Date -> Nat], NEW n \in Run,
         rows' = [rows EXCEPT ![n][today] = @ + 1], UNCHANGED <<today, over>>
  PROVE  SentWeek \in Nat /\ SentWeek' = SentWeek + 1
<1> DEFINE a == [d \in Date |-> IF d \in ThisWeek THEN [e \in Date |-> OnDate(e)][d] ELSE 0]
           b == [d \in Date |-> IF d \in ThisWeek THEN [e \in Date |-> OnDate(e)'][d] ELSE 0]
<1>1. rows' = [r \in Run |-> [d \in Date |-> IF r = n /\ d = today THEN rows[r][d] + 1 ELSE rows[r][d]]]
  OBVIOUS
<1>2. ASSUME NEW d \in Date
      PROVE  OnDate(d) \in Nat /\ OnDate(d)' = IF d = today THEN OnDate(d) + 1 ELSE OnDate(d)
  <2> DEFINE x == [r \in Run |-> rows[r][d]]
             y == [r \in Run |-> rows'[r][d]]
  <2>1. x \in [1 .. MaxRuns -> Nat] /\ y \in [1 .. MaxRuns -> Nat]
    BY <1>1 DEF Run
  <2>2. OnDate(d) = over[d] + SumOf(x, MaxRuns) /\ OnDate(d)' = over[d] + SumOf(y, MaxRuns)
    BY DEF OnDate
  <2>3. MaxRuns \in Nat /\ over[d] \in Nat
    BY ConstantsAssumption
  <2>4. SumOf(x, MaxRuns) \in Nat
    <3> HIDE DEF x
    <3> QED
      BY <2>1, <2>3, SumAddsUp
  <2>5. CASE d = today
    <3>1. n \in 1 .. MaxRuns /\ y[n] = x[n] + 1 /\ \A r \in 1 .. MaxRuns : r # n => y[r] = x[r]
      BY <1>1, <2>5 DEF Run
    <3> HIDE DEF x, y
    <3>2. SumOf(y, MaxRuns) = SumOf(x, MaxRuns) + 1
      BY <2>1, <2>3, <3>1, SumOneMore
    <3> QED
      BY <2>2, <2>3, <2>4, <2>5, <3>2
  <2>6. CASE d # today
    <3>1. y = x
      BY <1>1, <2>6
    <3> HIDE DEF x, y
    <3> QED
      BY <2>2, <2>3, <2>4, <2>6, <3>1
  <2> QED
    BY <2>5, <2>6
<1>3. today \in ThisWeek /\ ThisWeek' = ThisWeek /\ MaxDate \in Nat
  BY ConstantsAssumption DEF ThisWeek, Date
<1>4. a \in [1 .. MaxDate -> Nat] /\ b \in [1 .. MaxDate -> Nat]
  BY <1>2 DEF Date
<1>5. /\ today \in 1 .. MaxDate /\ b[today] = a[today] + 1
      /\ \A d \in 1 .. MaxDate : d # today => b[d] = a[d]
  BY <1>2, <1>3 DEF Date
<1>6. SentWeek = SumOf(a, MaxDate) /\ SentWeek' = SumOf(b, MaxDate)
  BY <1>3 DEF SentWeek, InWeek
<1> HIDE DEF a, b
<1> QED
  BY <1>3, <1>4, <1>5, <1>6, SumOneMore

-----------------------------------------------------------------------------
(* The limit of the week.                                                  *)

\* Who is allowed has left a place in the week, and who records a request the plan did
\* not allow has the account to itself as well.
Leaves(s) ==
  /\ job[s].kind \in Counted /\ job[s].at \in {"settle", "lift", "count"} => SentWeek < WeekMax
  /\ job[s].at = "event" => MyTurn(s)

WeekInv == PlanInv /\ RestOK /\ \A s \in Slots : Leaves(s)

LEMMA OverTurn ==
  ASSUME WeekInv, NEW s \in Slots, Step(s)
  PROVE  UNCHANGED <<rows, over>> \/ MyTurn(s)
<1>1. UNCHANGED over \/ RecordOver(s)
  BY DEF Step, Begin, ReadRun, WriteRun, StartRun, WriteAccount, SettleRun, LiftRestriction,
     CheckQuota, Count, RecordOver, Fail, Keeps, tables
<1>2. RecordOver(s) => MyTurn(s)
  BY DEF WeekInv, Leaves, RecordOver
<1> QED
  BY <1>1, <1>2, CountTurn DEF WeekInv

LEMMA LeavesOther ==
  ASSUME WeekInv, NEW s \in Slots, Step(s), NEW t \in Slots, t # s
  PROVE  Leaves(t)'
<1>1. Tables /\ CallsInv /\ Leaves(t) /\ Holds(t) /\ PlanInv
  BY DEF WeekInv, PlanInv
<1>2. job'[t] = job[t]
  BY <1>1, OthersStay
<1>3. ASSUME MyTurn(t) PROVE MyTurn(t)' /\ SentWeek' = SentWeek
  <2>1. line # <<>> /\ line[1] = t
    BY <1>3 DEF MyTurn
  <2>2. line' # <<>> /\ line'[1] = t
    BY <1>1, <2>1, HeadStays DEF Tables
  <2>3. ~MyTurn(s)
    BY <2>1 DEF MyTurn
  <2>4. UNCHANGED <<today, rows, over>>
    BY <1>1, <2>3, OverTurn, StepRuns
  <2> QED
    BY <2>2, <2>4, WeekSame DEF MyTurn
<1> QED
  BY <1>1, <1>2, <1>3 DEF Leaves, Holds

LEMMA LeavesOwn ==
  ASSUME WeekInv, NEW s \in Slots, Step(s)
  PROVE  Leaves(s)'
<1>1. CallsInv /\ Leaves(s) /\ JobOK(job[s])
  BY DEF WeekInv, PlanInv, CallsInv
<1>2. ASSUME NEW j, Moves(s, j), ~(j.kind \in Counted /\ j.at \in {"settle", "lift", "count"}), j.at # "event"
      PROVE  Leaves(s)'
  BY <1>1, <1>2, MovedIs DEF Leaves
<1>3. CASE Ends(s)
  <2>1. Moves(s, Idle) /\ Idle.at = "idle"
    BY <1>3 DEF Ends, Moves, Idle
  <2> QED
    BY <1>2, <2>1
<1>4. CASE \E k \in Calls : Begin(s, k)
  <2>1. PICK k \in Calls : Begin(s, k)
    BY <1>4
  <2>2. Moves(s, Fields(k, IF k = "include" THEN "account" ELSE "read", 0, NoRun, status))
    BY <1>1, <2>1, BeginIs
  <2> QED
    BY <1>2, <2>2, FieldsAre
<1>5. CASE ReadRun(s)
  <2> DEFINE k == job[s].kind
  <2>1. CASE Moves(s, Learnt(job[s])) /\ (IF k = "start" THEN LiveRuns = {}
                                          ELSE k \in {"exclude", "byhand"} \/ LiveRuns # {})
    <3>1. Learnt(job[s]).kind = k /\ Learnt(job[s]).at = After(k, Found)
      BY FieldsAre DEF Learnt
    <3>2. CASE k \in Counted /\ Found = 0
      <4>1. k = "byhand"
        <5>1. LiveRuns = {}
          BY <3>2, NewestIsLive, ConstantsAssumption DEF Found, Run
        <5> QED
          BY <2>1, <3>2, <5>1 DEF Counted
      <4>2. MyTurn(s) /\ (UNCHANGED line \/ Ends(s))
        BY <1>5, <4>1 DEF ReadRun
      <4>3. CASE UNCHANGED line
        <5>1. MyTurn(s)'
          BY <4>2, <4>3 DEF MyTurn
        <5>2. job'[s] = Learnt(job[s]) /\ After(k, Found) = "event"
          BY <1>1, <2>1, <3>2, <4>1, MovedIs DEF After, Counted
        <5> QED
          BY <3>1, <5>1, <5>2 DEF Leaves
      <4> QED
        BY <1>3, <4>2, <4>3
    <3>3. CASE ~(k \in Counted /\ Found = 0)
      <4>1. After(k, Found) # "event" /\ (k \in Counted => After(k, Found) = "check")
        <5>1. CASE k \in Counted
          BY <3>3, <5>1 DEF After, Counted
        <5>2. CASE k \notin Counted
          BY <5>2 DEF After, Counted
        <5> QED
          BY <5>1, <5>2
      <4> QED
        BY <1>2, <2>1, <3>1, <4>1
    <3> QED
      BY <3>2, <3>3
  <2> QED
    BY <1>1, <1>3, <1>5, <2>1, ReadIs
<1>6. ASSUME NEW step, GoesTo(s, step), UNCHANGED <<today, rows, over>>,
             job[s].kind \in Counted /\ step \in {"settle", "lift", "count"} => SentWeek < WeekMax,
             step = "event" => MyTurn(s)
      PROVE  Leaves(s)'
  <2> DEFINE j == Fields(job[s].kind, step, job[s].id, job[s].copy, job[s].was)
  <2>1. Moves(s, j) /\ line' = line
    BY <1>1, <1>6, GoesIs DEF GoesTo
  <2>2. job'[s] = j /\ j.kind = job[s].kind /\ j.at = step
    BY <1>1, <2>1, MovedIs, FieldsAre
  <2> HIDE DEF j
  <2>3. MyTurn(s) => MyTurn(s)'
    BY <2>1 DEF MyTurn
  <2>4. SentWeek' = SentWeek
    BY <1>6, WeekSame
  <2> QED
    BY <1>6, <2>2, <2>3, <2>4 DEF Leaves
<1>7. CASE CheckQuota(s)
  <2>1. MyTurn(s) /\ UNCHANGED <<today, rows, over>>
    BY <1>7 DEF CheckQuota, Keeps, tables
  <2>2. CASE Allowed(job[s].id, job[s].copy)
    <3>1. GoesTo(s, "settle") /\ SentWeek < WeekMax
      BY <1>7, <2>2 DEF CheckQuota, Allowed, WeekCount
    <3> QED
      BY <1>6, <2>1, <3>1
  <2>3. CASE GoesTo(s, "event")
    BY <1>6, <2>1, <2>3
  <2> QED
    BY <1>3, <1>7, <2>2, <2>3 DEF CheckQuota
<1>8. CASE SettleRun(s) \/ LiftRestriction(s)
  <2>1. /\ job[s].at \in {"settle", "lift"} /\ UNCHANGED <<today, rows, over>>
        /\ Ends(s) \/ GoesTo(s, "lift") \/ GoesTo(s, "count")
    BY <1>8 DEF SettleRun, LiftRestriction, AfterSettle
  <2>2. job[s].kind \in Counted => SentWeek < WeekMax
    BY <1>1, <2>1 DEF Leaves
  <2> QED
    BY <1>3, <1>6, <2>1, <2>2
<1>9. CASE WriteRun(s) \/ StartRun(s)
  <2>1. GoesTo(s, "account") /\ UNCHANGED <<today, rows, over>>
    BY <1>9 DEF WriteRun, StartRun
  <2> QED
    BY <1>6, <2>1
<1>10. CASE WriteAccount(s) \/ Count(s) \/ RecordOver(s) \/ Fail(s)
  BY <1>3, <1>10 DEF WriteAccount, Count, RecordOver, Fail
<1> QED
  BY <1>4, <1>5, <1>7, <1>8, <1>9, <1>10 DEF Step

LEMMA WeekStep == WeekInv /\ [Next]_vars => WeekInv'
<1> SUFFICES ASSUME WeekInv, [Next]_vars PROVE WeekInv'
  OBVIOUS
<1>1. PlanInv' /\ RestOK'
  BY PlanStep, RestStep DEF WeekInv
<1>2. ASSUME NEW t \in Slots PROVE Leaves(t)'
  <2>1. CASE UNCHANGED vars
    <3>1. SentWeek' = SentWeek /\ UNCHANGED <<job, line>>
      BY <2>1, WeekSame DEF vars, tables
    <3> QED
      BY <3>1 DEF WeekInv, Leaves, MyTurn
  <2>2. CASE Midnight
    <3>1. job'[t] = job[t] /\ job[t].kind = "none" /\ JobOK(job[t])
      BY <2>2 DEF Midnight, WeekInv, PlanInv, CallsInv
    <3>2. "none" \notin Counted
      BY DEF Counted
    <3>3. job[t].at = "event" => MyTurn(t)
      BY DEF WeekInv, Leaves
    <3> QED
      BY <2>2, <3>1, <3>2, <3>3 DEF Leaves, Midnight, MyTurn
  <2>3. ASSUME NEW s \in Slots, Step(s) PROVE Leaves(t)'
    BY <2>3, LeavesOwn, LeavesOther
  <2> QED
    BY <2>1, <2>2, <2>3 DEF Next
<1> QED
  BY <1>1, <1>2 DEF WeekInv

LEMMA CountFits ==
  ASSUME WeekInv, [Next]_vars, NEW r \in Run, rows'[r][today] > rows[r][today]
  PROVE  SentWeek' <= WeekMax
<1>1. rows \in [Run -> [Date -> Nat]] /\ today \in Date /\ over \in [Date -> Nat]
  BY DEF WeekInv, PlanInv, Tables, RestOK
<1>2. rows' # rows
  <2>1. rows[r][today] \in Nat
    BY <1>1
  <2> QED
    BY <2>1
<1>3. PICK s \in Slots : Step(s)
  BY <1>2 DEF Next, Midnight, tables, vars
<1>4. Count(s) /\ job[s].kind \in Counted /\ job[s].id \in Run
  BY <1>2, <1>3, CountTurn DEF WeekInv
<1>5. /\ rows' = [rows EXCEPT ![job[s].id][today] = @ + 1]
      /\ UNCHANGED <<today, over>> /\ SentWeek < WeekMax
  BY <1>4 DEF Count, WeekInv, Leaves
<1>6. SentWeek \in Nat /\ SentWeek' = SentWeek + 1
  BY <1>1, <1>4, <1>5, WeekOneMore
<1> QED
  BY <1>5, <1>6, ConstantsAssumption

\* A request the plan allowed never takes the account past its limit of the week,
\* whatever runs it was on and whatever was sent by hand or beyond the allowance.
THEOREM WeekIsKept == Spec => WeeklyLimitKept
<1>1. Init => WeekInv
  <2>1. Init => RestOK
    BY ConstantsAssumption DEF Init, RestOK
  <2>2. ASSUME Init, NEW s \in Slots PROVE Leaves(s)
    BY <2>2 DEF Init, Idle, Leaves
  <2> QED
    BY <2>1, <2>2, PlanInit DEF WeekInv
<1>2. WeekInv /\ [Next]_vars => [\A r \in Run : rows'[r][today] > rows[r][today] => SentWeek' <= WeekMax]_vars
  BY CountFits
<1> QED
  BY <1>1, <1>2, WeekStep, PTL DEF Spec, WeeklyLimitKept
=============================================================================
