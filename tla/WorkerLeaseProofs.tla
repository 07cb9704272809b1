------------------------- MODULE WorkerLeaseProofs -------------------------
(* For any number of accounts and workers: one lease in force at a time, no  *)
(* warming in a cool-off, no second session within a lease, no warming in a  *)
(* rest.                                                                     *)
EXTENDS WorkerLease, FiniteSetTheorems, TLAPS

Timed(l) == "left" \in DOMAIN l /\ l.left \in Nat

\* A lease's time is a number, at most one lease has some left, and the portal
\* knows of every failure reported since it started.
Inv ==
    /\ \A l \in leases : Timed(l)
    /\ OneLiveLease
    /\ failed = coolingOff

\* A step that grants nothing and lets no lease gain time keeps what is live single.
LEMMA NothingGranted ==
    ASSUME Inv, leases' \subseteq leases
    PROVE  (\A l \in leases' : Timed(l)) /\ OneLiveLease'
BY DEF Inv, OneLiveLease, Live

\* A grant while nothing is live leaves one lease in force, the new one.
LEMMA GrantIsAlone ==
    ASSUME Inv, NobodyRuns, NEW a, NEW light, grantLease(a, light)
    PROVE  (\A l \in leases' : Timed(l)) /\ OneLiveLease'
<1> DEFINE new == [account |-> a, id |-> NewId, light |-> light, left |-> LeaseTime]
<1>1. Timed(new)  BY TimesAssumption DEF Timed
<1> HIDE DEF new
<1>2. leases' = (leases \ LeasesOf(a)) \cup {new}  BY DEF grantLease, new
<1>3. \A l \in leases : ~(l.left > 0)  BY DEF NobodyRuns, Live
<1>4. \A l \in Live' : l = new  BY <1>2, <1>3 DEF Live
<1> QED  BY <1>1, <1>2, <1>4 DEF Inv, OneLiveLease

\* A grant touches neither cool-offs nor their history.
LEMMA GrantKeeps ==
    ASSUME Inv, NEW w \in Workers, NEW light, NobodyRuns, Grant(w, light)
    PROVE  Inv'
BY GrantIsAlone DEF Grant, Inv, grantLease, history

\* A refusal or another read leaves the book alone.
LEMMA WaitKeeps ==
    ASSUME Inv, UNCHANGED <<leases, coolingOff, failed>>
    PROVE  Inv'
BY DEF Inv, OneLiveLease, Live

LEMMA Initially == Init => Inv
BY DEF Init, Inv, OneLiveLease, Live

\* Taking an account, from the request to the answer.
LEMMA RequestKeeps ==
    ASSUME Inv, NEW w \in Workers,
           (\E a \in Accounts : LeaseAccount(w, a)) \/ UrgentRead(w) \/ ReadyRead(w) \/ DutyRead(w)
    PROVE  Inv'
<1>1. ASSUME NEW a \in Accounts, LeaseAccount(w, a) PROVE Inv'
  <2>1. leases' \subseteq leases  BY <1>1 DEF LeaseAccount, Live
  <2>2. UNCHANGED <<coolingOff, failed>>  BY <1>1 DEF LeaseAccount, history
  <2> QED  BY <2>1, <2>2, NothingGranted DEF Inv
<1>2. ASSUME NEW stage, NextRead(w, stage) PROVE Inv'
  BY <1>2, WaitKeeps DEF NextRead, book, history
<1>3. Refuse(w) => Inv'
  BY WaitKeeps DEF Refuse, book, history
<1>4. CASE UrgentRead(w)
  BY <1>2, <1>3, <1>4, GrantKeeps DEF UrgentRead, StillNobody
<1>5. CASE ReadyRead(w)
  BY <1>2, <1>3, <1>5, GrantKeeps DEF ReadyRead, StillNobody
<1>6. CASE DutyRead(w)
  BY <1>3, <1>6, GrantKeeps DEF DutyRead, StillNobody
<1> QED  BY <1>1, <1>4, <1>5, <1>6

\* A report frees at most its own lease and writes a failure down twice alike.
LEMMA ReportKeeps ==
    ASSUME Inv, NEW r \in reports, RunFinished(r)
    PROVE  Inv'
<1>1. leases' \subseteq leases  BY DEF RunFinished, finishRun
<1>2. failed' = coolingOff'
  BY DEF RunFinished, finishRun, Cools, Inv
<1> QED  BY <1>1, <1>2, NothingGranted DEF Inv

\* The clock takes time from every lease; it gives none.
LEMMA TickKeeps == Inv /\ Tick => Inv'
<1> SUFFICES ASSUME Inv, Tick PROVE Inv'
  OBVIOUS
<1> DEFINE older(l) == [l EXCEPT !.left = Less(@)]
<1>1. leases' = {older(l) : l \in leases}  BY DEF Tick
<1>2. \A l \in leases : Timed(older(l)) /\ (older(l).left > 0 => l \in Live)
  BY DEF Inv, Timed, Less, Live
<1>3. failed' = coolingOff'  BY DEF Tick, Inv
<1> HIDE DEF older
<1>4. OneLiveLease'
  <2> SUFFICES ASSUME NEW l \in Live', NEW m \in Live' PROVE l = m
    BY DEF OneLiveLease
  <2>1. PICK x \in leases : l = older(x)  BY <1>1 DEF Live
  <2>2. PICK y \in leases : m = older(y)  BY <1>1 DEF Live
  <2>3. x \in Live /\ y \in Live  BY <1>2, <2>1, <2>2 DEF Live
  <2> QED  BY <2>1, <2>2, <2>3 DEF Inv, OneLiveLease
<1> QED  BY <1>1, <1>2, <1>3, <1>4 DEF Inv

LEMMA StepKeeps == Inv /\ [Next]_vars => Inv'
<1> SUFFICES ASSUME Inv, [Next]_vars PROVE Inv'
  OBVIOUS
<1>1. CASE UNCHANGED vars
  BY <1>1, WaitKeeps DEF vars, book, history
<1>2. ASSUME NEW w \in Workers, WorkerStep(w) PROVE Inv'
  <2>1. CASE EndRun(w) \/ SendReport(w) \/ WorkerDies(w)
    BY <2>1, WaitKeeps DEF EndRun, SendReport, WorkerDies, book, history
  <2> QED  BY <1>2, <2>1, RequestKeeps DEF WorkerStep
<1>3. ASSUME NEW r \in reports, RunFinished(r) PROVE Inv'
  BY <1>3, ReportKeeps
<1>4. CASE Sweep
  <2>1. leases' \subseteq leases  BY <1>4 DEF Sweep, Live
  <2> QED  BY <1>4, <2>1, NothingGranted DEF Inv, Sweep, history
<1>5. CASE Restart
  BY <1>5 DEF Restart, Inv, OneLiveLease, Live
<1> QED  BY <1>1, <1>2, <1>3, <1>4, <1>5, TickKeeps DEF Next

\* Never two leases in force, for any number of accounts and workers and
\* whatever is lost, late or repeated: scheduler.mjs asks again after its reads.
THEOREM OneAtATime == Spec => []OneLiveLease
<1>1. Inv => OneLiveLease  BY DEF Inv
<1> QED  BY <1>1, Initially, StepKeeps, PTL DEF Spec

-----------------------------------------------------------------------------
\* Cool-offs are numbers and every worker has a place for its request.
Shape ==
    /\ coolingOff \in [Accounts -> Nat]
    /\ asked = [w \in Workers |-> asked[w]]

LEMMA ShapeKeeps == Shape /\ [Next]_vars => Shape'
<1> SUFFICES ASSUME Shape, [Next]_vars PROVE Shape'
  OBVIOUS
<1>1. CoolOff \in Nat  BY TimesAssumption
<1> USE DEF Shape
<1>2. CASE UNCHANGED vars
  BY <1>2 DEF vars, book
<1>3. ASSUME NEW w \in Workers, NEW light, Grant(w, light) PROVE Shape'
  BY <1>3 DEF Grant, grantLease
<1>4. ASSUME NEW w \in Workers, NEW stage, NextRead(w, stage) PROVE Shape'
  BY <1>4 DEF NextRead, book
<1>5. ASSUME NEW w \in Workers, Refuse(w) PROVE Shape'
  BY <1>5 DEF Refuse, book
<1>6. ASSUME NEW w \in Workers, WorkerStep(w) PROVE Shape'
  <2>1. CASE \E a \in Accounts : LeaseAccount(w, a)
    BY <2>1 DEF LeaseAccount
  <2>2. CASE UrgentRead(w)
    BY <1>3, <1>4, <1>5, <2>2 DEF UrgentRead
  <2>3. CASE ReadyRead(w)
    BY <1>3, <1>4, <1>5, <2>3 DEF ReadyRead
  <2>4. CASE DutyRead(w)
    BY <1>3, <1>5, <2>4 DEF DutyRead
  <2>5. CASE EndRun(w) \/ SendReport(w) \/ WorkerDies(w)
    BY <2>5 DEF EndRun, SendReport, WorkerDies, book
  <2> QED  BY <1>6, <2>1, <2>2, <2>3, <2>4, <2>5 DEF WorkerStep
<1>7. ASSUME NEW r \in reports, RunFinished(r) PROVE Shape'
  BY <1>1, <1>7 DEF RunFinished, finishRun, Cools
<1>8. CASE Sweep  BY <1>8 DEF Sweep
<1>9. CASE Tick
  <2>1. \A a \in Accounts : Less(coolingOff[a]) \in Nat  BY DEF Less
  <2> QED  BY <1>9, <2>1 DEF Tick
<1>10. CASE Restart  BY <1>10 DEF Restart
<1> QED  BY <1>2, <1>6, <1>7, <1>8, <1>9, <1>10 DEF Next

\* Only the grant of its own request takes a worker's request off together
\* with a new lease, and what it hands out was not held back.
LEMMA HandedOutWasFree ==
    ASSUME Inv, Shape, [Next]_vars, NEW a \in Accounts, HandsOut(a, {"ready", "duty"})
    PROVE  failed[a] = 0
<1>1. PICK w \in Workers : asked[w].stage \in {"ready", "duty"} /\ asked'[w].stage = "none"
  BY DEF HandsOut
<1>2. PICK l \in leases' \ leases : l.account = a
  BY DEF HandsOut
<1>3. ~(leases' \subseteq leases) /\ asked' # asked
  BY <1>1, <1>2
<1>4. PICK v \in Workers : WorkerStep(v)
  <2>1. ~(\E r \in reports : RunFinished(r))
    BY <1>3 DEF RunFinished
  <2>2. ~Sweep /\ ~Tick
    BY <1>3 DEF Sweep, Tick
  <2>3. ~Restart
    BY <1>3 DEF Restart
  <2>4. ~UNCHANGED vars
    BY <1>3 DEF vars
  <2> QED  BY <2>1, <2>2, <2>3, <2>4 DEF Next
<1>5. PICK light : Grant(v, light) /\ (UrgentRead(v) \/ ReadyRead(v) \/ DutyRead(v))
             /\ (asked[v].stage \in {"ready", "duty"} => ~HeldBack(asked[v].account))
  <2>1. ~(EndRun(v) \/ SendReport(v) \/ WorkerDies(v))
    BY <1>3 DEF EndRun, SendReport, WorkerDies
  <2>2. ~(\E b \in Accounts : LeaseAccount(v, b))
    BY <1>3 DEF LeaseAccount, Live
  <2>3. ~Refuse(v) /\ \A stage : ~NextRead(v, stage)
    BY <1>3 DEF Refuse, NextRead, book
  <2>4. CASE UrgentRead(v)
    BY <2>3, <2>4 DEF UrgentRead
  <2>5. CASE ReadyRead(v)
    BY <2>3, <2>5 DEF ReadyRead, Ready
  <2>6. CASE DutyRead(v)
    BY <2>3, <2>6 DEF DutyRead, Duty
  <2> QED  BY <1>4, <2>1, <2>2, <2>4, <2>5, <2>6 DEF WorkerStep
<1>6. v = w
  BY <1>1, <1>5 DEF Grant, Shape
<1>7. a = asked[w].account
  <2>1. \A k \in leases' \ leases : k.account = asked[v].account
    BY <1>5 DEF Grant, grantLease
  <2> QED  BY <1>2, <1>6, <2>1
<1>8. ~(coolingOff[a] > 0)
  BY <1>1, <1>5, <1>6, <1>7 DEF HeldBack
<1> QED  BY <1>8 DEF Inv, Shape

\* No account is opened to warm it or to read its inbox in the cool-off after
\* a failure, whichever lease the failure was reported under.
THEOREM NoWarmingInCoolOff == Spec => CoolOffKept
<1>1. Init => Shape
  BY DEF Init, Shape
<1>2. Inv /\ Shape /\ [Next]_vars
          => [\A a \in Accounts : HandsOut(a, {"ready", "duty"}) => failed[a] = 0]_vars
  BY HandedOutWasFree
<1> QED  BY <1>1, <1>2, Initially, StepKeeps, ShapeKeeps, PTL DEF Spec, CoolOffKept

-----------------------------------------------------------------------------
(* What leases, reports and browsers know of each other.  Their ids tie them  *)
(* together, so that the first thing is that an id is new.                    *)

Finite == IsFiniteSet(leases) /\ IsFiniteSet(reports)

LEMMA FiniteImage ==
    ASSUME NEW S, IsFiniteSet(S), NEW f
    PROVE  IsFiniteSet({f[x] : x \in S})
<1> DEFINE T == {f[x] : x \in S}
           g == [x \in S |-> f[x]]
<1>1. g \in Surjection(S, T)  BY DEF Surjection
<1> QED  BY <1>1, FS_Surjection

\* randomUUID is modelled by an id that nothing has: there always is one.
LEMMA NewIdIsFresh ==
    ASSUME TypeOK, Finite
    PROVE  NewId \in Nat \ {0} /\ NewId \notin Ids
<1>1. IsFiniteSet({l.id : l \in leases})
  <2> DEFINE f == [l \in leases |-> l.id]
  <2>1. {l.id : l \in leases} = {f[l] : l \in leases}  OBVIOUS
  <2> HIDE DEF f
  <2> QED  BY <2>1, FiniteImage DEF Finite
<1>2. IsFiniteSet({r.id : r \in reports})
  <2> DEFINE f == [r \in reports |-> r.id]
  <2>1. {r.id : r \in reports} = {f[r] : r \in reports}  OBVIOUS
  <2> HIDE DEF f
  <2> QED  BY <2>1, FiniteImage DEF Finite
<1>3. IsFiniteSet({worker[w].id : w \in Workers})
  <2> DEFINE f == [w \in Workers |-> worker[w].id]
  <2>1. {worker[w].id : w \in Workers} = {f[w] : w \in Workers}  OBVIOUS
  <2> HIDE DEF f
  <2> QED  BY <2>1, FiniteImage, WorkersAssumption
<1>4. IsFiniteSet(Ids)  BY <1>1, <1>2, <1>3, FS_Union DEF Ids
<1>5. PICK n \in Nat : n = Cardinality(Ids)  BY <1>4, FS_CardinalityType
<1>6. \E i \in 1..(n + 1) : i \notin Ids
  <2> SUFFICES ASSUME 1..(n + 1) \in SUBSET Ids PROVE FALSE
    OBVIOUS
  <2>1. Cardinality(1..(n + 1)) <= n  BY <1>4, <1>5, FS_Subset
  <2>2. Cardinality(1..(n + 1)) = n + 1  BY FS_Interval
  <2> QED  BY <2>1, <2>2
<1>7. NewId \in 1..(n + 1) /\ NewId \notin Ids  BY <1>5, <1>6 DEF NewId
<1> QED  BY <1>7

Busy(w) == worker[w].pc # "idle"

\* One lease an account, expired or not.
OnePerAccount == \A l, m \in leases : l.account = m.account => l = m

\* Of a day's session that nobody was given the account after, the portal knows
\* the lease or none at all; and such a session's report says it went well.
Latest ==
    /\ \A l \in leases, r \in reports : r.latest /\ l.account = r.account => l.id = r.id /\ ~l.light
    /\ \A l \in leases, w \in Workers :
           worker[w].latest /\ l.account = worker[w].account => l.id = worker[w].id /\ ~l.light
    /\ \A r \in reports : r.latest => r.ok
    /\ \A w \in Workers : worker[w].pc = "reporting" /\ worker[w].latest => worker[w].ok

\* Two sessions under way have different ids, and no report speaks of a
\* session whose browser is still open.
OwnIds ==
    /\ \A v, w \in Workers : Busy(v) /\ Busy(w) /\ worker[v].id = worker[w].id => v = w
    /\ \A w \in Workers, r \in reports : worker[w].pc = "running" => r.id # worker[w].id

\* A worker that is asking does nothing else, and asks for and works on accounts.
Asking ==
    \A w \in Workers :
        /\ worker[w].pc = "idle" => worker[w] = AtRest
        /\ worker[w].pc # "idle" => worker[w].account \in Accounts
        /\ asked[w].stage # "none" => worker[w].pc = "idle" /\ asked[w].account \in Accounts

\* The browser of a worker that has neither outrun its lease nor been forgotten
\* is open under a lease with as much time left as the browser has.
UnderLease ==
    \A w \in Workers :
        worker[w].pc = "running" /\ ~worker[w].stray /\ worker[w].age < LeaseTime
            => \E l \in leases : l.id = worker[w].id /\ l.left = LeaseTime - worker[w].age

\* An account that is tired by its history rests in the book.
Rested == \A a \in Accounts : tired[a] <= resting[a]

BookInv == TypeOK /\ Finite /\ OnePerAccount /\ Latest /\ OwnIds /\ Asking /\ UnderLease /\ Rested

\* What a step does that touches neither the workers nor what is on its way.
LEMMA BookOnly ==
    ASSUME BookInv, TypeOK', leases' \subseteq leases, Asking', Rested',
           \A l \in Live : l \in leases', UNCHANGED <<worker, reports>>
    PROVE  BookInv'
<1>1. Finite'  BY FS_Subset DEF BookInv, Finite
<1>2. OnePerAccount' /\ Latest' /\ OwnIds'
  BY DEF BookInv, OnePerAccount, Latest, OwnIds, Busy
<1>3. UnderLease'
  <2> SUFFICES ASSUME NEW w \in Workers, worker[w].pc = "running", ~worker[w].stray,
                      worker[w].age < LeaseTime
               PROVE  \E l \in leases' : l.id = worker[w].id /\ l.left = LeaseTime - worker[w].age
    BY DEF UnderLease
  <2>1. PICK l \in leases : l.id = worker[w].id /\ l.left = LeaseTime - worker[w].age
    BY DEF BookInv, UnderLease
  <2>2. worker[w].age \in Nat /\ LeaseTime \in Nat
    BY TimesAssumption DEF BookInv, TypeOK, Doing
  <2>3. l \in Live  BY <2>1, <2>2 DEF Live
  <2> QED  BY <2>1, <2>3
<1> QED  BY <1>1, <1>2, <1>3 DEF BookInv

LEMMA BookInitially == Init => BookInv
<1> SUFFICES ASSUME Init PROVE BookInv
  OBVIOUS
<1> USE DEF Init
<1>1. TypeOK
  BY TimesAssumption DEF TypeOK, AtRest, NoRequest, Stages, Doing
<1>2. Finite  BY FS_EmptySet DEF Finite
<1>3. OnePerAccount /\ Latest /\ OwnIds /\ UnderLease
  BY DEF OnePerAccount, Latest, OwnIds, UnderLease, Busy, AtRest
<1>4. Asking /\ Rested  BY DEF Asking, Rested, NoRequest, AtRest
<1> QED  BY <1>1, <1>2, <1>3, <1>4 DEF BookInv

\* A grant: the new lease has an id of its own, and nobody else's is in force.
LEMMA GrantKeepsBook ==
    ASSUME BookInv, NEW w \in Workers, NEW light \in BOOLEAN, NobodyRuns,
           asked[w].stage # "none", ~light => resting[asked[w].account] = 0, Grant(w, light)
    PROVE  BookInv'
<1> DEFINE a == asked[w].account
           new == [account |-> a, id |-> NewId, light |-> light, left |-> LeaseTime]
           other(v) == Overtaken(a, worker[v])
           opened == [other(w) EXCEPT !.pc = "running", !.account = a, !.id = NewId, !.latest = ~light]
<1>1. TypeOK /\ Finite /\ OnePerAccount /\ Latest /\ OwnIds /\ Asking /\ UnderLease /\ Rested
  BY DEF BookInv
<1>2. NewId \in Nat \ {0} /\ NewId \notin Ids  BY <1>1, NewIdIsFresh
<1>3. a \in Accounts /\ worker[w] = AtRest  BY <1>1 DEF Asking
<1>4. LeaseTime \in Nat \ {0}  BY TimesAssumption
<1>5. new \in Lease /\ new.id = NewId /\ new.light = light /\ new.left = LeaseTime /\ new.account = a
  BY <1>2, <1>3, <1>4 DEF Lease
<1>6. leases' = (leases \ LeasesOf(a)) \cup {new} /\ resting' = Starts(a, light)
      /\ asked' = [asked EXCEPT ![w] = NoRequest]
      /\ \/ worker' = [v \in Workers |-> other(v)]
         \/ worker' = [[v \in Workers |-> other(v)] EXCEPT ![w] = opened]
      /\ reports' = {Overtaken(a, r) : r \in reports}
      /\ UNCHANGED <<coolingOff, urgentEnded, leftOpen, failed, tired>>
  BY DEF Grant, grantLease, history
<1>7. \A v \in Workers :
          /\ other(v) \in Doing
          /\ other(v).pc = worker[v].pc /\ other(v).account = worker[v].account
          /\ other(v).id = worker[v].id /\ other(v).age = worker[v].age
          /\ other(v).stray = worker[v].stray /\ other(v).ok = worker[v].ok
          /\ other(v).latest => worker[v].latest /\ worker[v].account # a
          /\ worker[v] = AtRest => other(v) = AtRest
  <2> SUFFICES ASSUME NEW v \in Workers
               PROVE  /\ other(v) \in Doing
                      /\ other(v).pc = worker[v].pc /\ other(v).account = worker[v].account
                      /\ other(v).id = worker[v].id /\ other(v).age = worker[v].age
                      /\ other(v).stray = worker[v].stray /\ other(v).ok = worker[v].ok
                      /\ other(v).latest => worker[v].latest /\ worker[v].account # a
                      /\ worker[v] = AtRest => other(v) = AtRest
    OBVIOUS
  <2>1. worker[v] \in Doing  BY <1>1 DEF TypeOK
  <2>2. ASSUME worker[v] = AtRest PROVE other(v) = AtRest
    <3>1. Nobody # a  BY <1>3, NobodyAssumption
    <3>2. AtRest.latest = FALSE  BY DEF AtRest
    <3>3. other(v) = [AtRest EXCEPT !.latest = FALSE]  BY <2>2, <3>2 DEF Overtaken
    <3> HIDE DEF other
    <3>4. [AtRest EXCEPT !.latest = FALSE] = AtRest
      <4>1. AtRest \in [pc : {"idle"}, account : {Nobody}, id : {0}, age : {0}, stray : BOOLEAN,
                        latest : BOOLEAN, ok : BOOLEAN, tries : {0}]  BY DEF AtRest
      <4> QED  BY <3>2, <4>1
    <3> QED  BY <3>3, <3>4
  <2> QED  BY <2>1, <2>2 DEF Doing, Overtaken
<1>8. /\ opened.pc = "running" /\ opened.account = a /\ opened.id = NewId /\ opened.age = 0
       /\ ~opened.stray /\ opened.latest = ~light /\ opened \in Doing
  <2>1. other(w) = AtRest /\ other(w) \in Doing  BY <1>3, <1>7
  <2>2. opened = [AtRest EXCEPT !.pc = "running", !.account = a, !.id = NewId, !.latest = ~light]
    BY <2>1
  <2> HIDE DEF other, opened, a
  <2>3. opened = [pc |-> "running", account |-> a, id |-> NewId, age |-> 0, stray |-> FALSE,
                  latest |-> ~light, ok |-> FALSE, tries |-> 0]
    BY <2>2 DEF AtRest
  <2>4. 0 \in 0..RunTime /\ NewId \in Nat /\ (~light) \in BOOLEAN  BY <1>2, TimesAssumption
  <2> DEFINE day == ~light
  <2> HIDE DEF day
  <2>5. opened = [pc |-> "running", account |-> a, id |-> NewId, age |-> 0, stray |-> FALSE,
                  latest |-> day, ok |-> FALSE, tries |-> 0]
    BY <2>3 DEF day
  <2>6. /\ opened \in Doing /\ opened.pc = "running" /\ opened.account = a /\ opened.id = NewId
        /\ opened.age = 0 /\ opened.stray = FALSE /\ opened.latest = day
    BY <1>3, <2>4, <2>5 DEF Doing, day
  <2> QED  BY <2>6 DEF day
<1>9. \A r \in reports : LET x == Overtaken(a, r) IN
          /\ x \in Report /\ x.account = r.account /\ x.id = r.id /\ x.ok = r.ok
          /\ x.latest => r.latest /\ r.account # a
  BY <1>1 DEF TypeOK, Report, Overtaken
<1> HIDE DEF new, opened, other
<1>10. TypeOK'
  <2>1. leases' \subseteq Lease  BY <1>1, <1>5, <1>6 DEF TypeOK
  <2>2. resting' \in [Accounts -> 0..Rest]
    BY <1>1, <1>6, TimesAssumption DEF TypeOK, Starts
  <2>3. asked' \in [Workers -> [stage : Stages, account : Accounts \cup {Nobody}]]
    BY <1>1, <1>6 DEF TypeOK, NoRequest, Stages
  <2>5. worker' \in [Workers -> Doing]
    BY <1>6, <1>7, <1>8
  <2>6. reports' \subseteq Report  BY <1>6, <1>9
  <2> QED  BY <1>1, <1>6, <2>1, <2>2, <2>3, <2>5, <2>6 DEF TypeOK
<1>11. Finite'
  <2>1. IsFiniteSet(leases \ LeasesOf(a))  BY <1>1, FS_Subset DEF Finite
  <2> DEFINE f == [r \in reports |-> Overtaken(a, r)]
  <2>2. reports' = {f[r] : r \in reports}  BY <1>6
  <2> HIDE DEF f
  <2>3. IsFiniteSet({f[r] : r \in reports})  BY <1>1, FiniteImage DEF Finite
  <2> QED  BY <1>1, <1>6, <2>1, <2>2, <2>3, FS_AddElement DEF Finite
<1>12. OnePerAccount'
  BY <1>1, <1>5, <1>6 DEF OnePerAccount, LeasesOf
<1>13. \A v \in Workers : v # w => worker'[v] = other(v)
  BY <1>6
<1>14. worker'[w] = other(w) \/ worker'[w] = opened
  BY <1>6
<1>15. \A v \in Workers : worker[v].id # NewId
  BY <1>2 DEF Ids
<1>16. \A r \in reports' : r.id # NewId
  <2>1. \A r \in reports : r.id # NewId  BY <1>2 DEF Ids
  <2> QED  BY <1>6, <1>9, <2>1
<1>17. \A l \in leases : l.id # NewId
  BY <1>2 DEF Ids
<1>18. worker[w].pc = "idle" /\ ~worker[w].latest  BY <1>3 DEF AtRest
<1>19. Latest'
  <2>1. ASSUME NEW l \in leases', NEW r \in reports', r.latest
        PROVE  (l.account = r.account => l.id = r.id /\ ~l.light) /\ r.ok
    <3>1. PICK q \in reports : r = Overtaken(a, q)  BY <1>6
    <3>2. q.latest /\ q.account # a /\ r.account = q.account /\ r.id = q.id /\ r.ok = q.ok
      BY <1>9, <2>1, <3>1
    <3> QED  BY <1>1, <1>5, <1>6, <3>2 DEF Latest
  <2>2. ASSUME NEW l \in leases', NEW v \in Workers, worker'[v].latest, l.account = worker'[v].account
        PROVE  l.id = worker'[v].id /\ ~l.light
    <3>1. CASE worker'[v] = other(v)
      BY <1>1, <1>5, <1>6, <1>7, <2>2, <3>1 DEF Latest
    <3>2. CASE worker'[v] = opened
      BY <1>5, <1>6, <1>8, <2>2, <3>2 DEF LeasesOf
    <3> QED  BY <1>13, <1>14, <3>1, <3>2
  <2>3. ASSUME NEW v \in Workers, worker'[v].pc = "reporting", worker'[v].latest
        PROVE  worker'[v].ok
    BY <1>1, <1>7, <1>13, <1>14, <1>8, <2>3 DEF Latest
  <2> HIDE DEF a
  <2>4. \A r \in reports' : r.latest => r.ok
    <3> SUFFICES ASSUME NEW r \in reports', r.latest PROVE r.ok
      OBVIOUS
    <3>1. PICK q \in reports : r = Overtaken(a, q)  BY <1>6
    <3>2. q.latest /\ r.ok = q.ok  BY <1>9, <3>1
    <3> QED  BY <1>1, <3>2 DEF Latest
  <2> QED  BY <2>1, <2>2, <2>3, <2>4 DEF Latest
<1>20. OwnIds'
  <2>1. ASSUME NEW u \in Workers, NEW v \in Workers, worker'[u].pc # "idle", worker'[v].pc # "idle",
               worker'[u].id = worker'[v].id
        PROVE  u = v
    BY <1>1, <1>7, <1>13, <1>14, <1>15, <1>18, <1>8, <2>1 DEF OwnIds, Busy
  <2>2. ASSUME NEW v \in Workers, NEW r \in reports', worker'[v].pc = "running"
        PROVE  r.id # worker'[v].id
    <3>1. PICK q \in reports : r = Overtaken(a, q)  BY <1>6
    <3>2. r.id = q.id  BY <1>9, <3>1
    <3> QED  BY <1>1, <1>7, <1>13, <1>14, <1>16, <1>18, <1>8, <2>2, <3>2 DEF OwnIds
  <2> QED  BY <2>1, <2>2 DEF OwnIds, Busy
<1>21. Asking'
  <2>1. asked'[w] = NoRequest /\ \A v \in Workers : v # w => asked'[v] = asked[v]
    BY <1>1, <1>6 DEF TypeOK
  <2> QED  BY <1>1, <1>3, <1>7, <1>13, <1>14, <1>18, <1>8, <2>1 DEF Asking, NoRequest
<1>22. UnderLease'
  <2> SUFFICES ASSUME NEW v \in Workers, worker'[v].pc = "running", ~worker'[v].stray,
                      worker'[v].age < LeaseTime
               PROVE  \E l \in leases' : l.id = worker'[v].id /\ l.left = LeaseTime - worker'[v].age
    BY DEF UnderLease
  <2>1. CASE v = w
    <3>1. worker'[w] = opened  BY <1>7, <1>14, <1>18, <2>1
    <3>2. new.left = LeaseTime - worker'[w].age  BY <1>4, <1>5, <1>8, <3>1
    <3> QED  BY <1>5, <1>6, <1>8, <2>1, <3>1, <3>2
  <2>2. CASE v # w
    <3>1. PICK l \in leases : l.id = worker[v].id /\ l.left = LeaseTime - worker[v].age
      BY <1>1, <1>7, <1>13, <2>2 DEF UnderLease
    <3>2. l.left > 0
      BY <1>1, <1>4, <1>7, <1>13, <2>2, <3>1 DEF TypeOK, Doing
    <3> QED  BY <3>1, <3>2 DEF NobodyRuns, Live
  <2> QED  BY <2>1, <2>2
<1>23. Rested'
  <2> SUFFICES ASSUME NEW b \in Accounts PROVE tired[b] <= resting'[b]
    BY <1>6 DEF Rested
  <2>1. tired[b] <= resting[b]  BY <1>1 DEF Rested
  <2>2. CASE light \/ b # a
    BY <1>1, <1>6, <2>1, <2>2 DEF Starts, TypeOK
  <2>3. CASE ~light /\ b = a
    BY <1>1, <1>6, <2>1, <2>3 DEF Starts, TypeOK
  <2> QED  BY <2>2, <2>3
<1> QED  BY <1>10, <1>11, <1>12, <1>19, <1>20, <1>21, <1>22, <1>23 DEF BookInv

\* Taking an account, from the request to the answer.
LEMMA RequestKeepsBook ==
    ASSUME BookInv, NEW w \in Workers,
           (\E a \in Accounts : LeaseAccount(w, a)) \/ UrgentRead(w) \/ ReadyRead(w) \/ DutyRead(w)
    PROVE  BookInv'
<1>1. TypeOK /\ Asking /\ Rested  BY DEF BookInv
<1>2. ASSUME NEW a \in Accounts, LeaseAccount(w, a) PROVE BookInv'
  <2>1. PICK stage \in {"urgent", "ready"} :
            asked' = [asked EXCEPT ![w] = [stage |-> stage, account |-> a]]
    BY <1>2 DEF LeaseAccount
  <2>2. worker[w].pc = "idle" /\ leases' = Live
        /\ UNCHANGED <<coolingOff, resting, urgentEnded, worker, reports, leftOpen, failed, tired>>
    BY <1>2 DEF LeaseAccount, history
  <2>3. asked' \in [Workers -> [stage : Stages, account : Accounts \cup {Nobody}]]
    BY <1>1, <2>1 DEF TypeOK, Stages
  <2>4. TypeOK'  BY <1>1, <2>2, <2>3 DEF TypeOK, Live
  <2>5. Asking'  BY <1>1, <2>1, <2>2 DEF Asking, TypeOK
  <2>6. Rested'  BY <1>1, <2>2 DEF Rested
  <2> QED  BY <2>2, <2>4, <2>5, <2>6, BookOnly DEF Live
<1>3. ASSUME NEW stage \in {"ready", "duty"}, NextRead(w, stage), asked[w].stage # "none" PROVE BookInv'
  <2>1. asked' = [asked EXCEPT ![w].stage = stage]
        /\ UNCHANGED <<book, worker, reports, leftOpen, history>>
    BY <1>3 DEF NextRead
  <2>2. TypeOK'  BY <1>1, <2>1 DEF TypeOK, Stages, book, history
  <2>3. Asking'  BY <1>1, <1>3, <2>1 DEF Asking, TypeOK
  <2>4. Rested'  BY <1>1, <2>1 DEF Rested, book, history
  <2> QED  BY <2>1, <2>2, <2>3, <2>4, BookOnly DEF book, Live
<1>4. ASSUME Refuse(w) PROVE BookInv'
  <2>1. asked' = [asked EXCEPT ![w] = NoRequest]
        /\ UNCHANGED <<book, worker, reports, leftOpen, history>>
    BY <1>4 DEF Refuse
  <2>2. TypeOK'  BY <1>1, <2>1 DEF TypeOK, Stages, NoRequest, book, history
  <2>3. Asking'  BY <1>1, <2>1 DEF Asking, TypeOK, NoRequest
  <2>4. Rested'  BY <1>1, <2>1 DEF Rested, book, history
  <2> QED  BY <2>1, <2>2, <2>3, <2>4, BookOnly DEF book, Live
<1>5. CASE UrgentRead(w)
  BY <1>3, <1>4, <1>5, GrantKeepsBook DEF UrgentRead, StillNobody
<1>6. CASE ReadyRead(w)
  BY <1>3, <1>4, <1>6, GrantKeepsBook DEF ReadyRead, StillNobody, Ready
<1>7. CASE DutyRead(w)
  BY <1>4, <1>7, GrantKeepsBook DEF DutyRead, StillNobody
<1> QED  BY <1>2, <1>5, <1>6, <1>7

\* The visit ends: what is reported is still the session's own id.
LEMMA EndRunKeepsBook ==
    ASSUME BookInv, NEW w \in Workers, EndRun(w)
    PROVE  BookInv'
<1>1. TypeOK /\ Asking /\ Rested /\ Latest /\ OwnIds /\ UnderLease  BY DEF BookInv
<1>2. PICK ok \in BOOLEAN :
          worker' = [worker EXCEPT ![w] = [worker[w] EXCEPT !.pc = "reporting", !.ok = ok,
                                     !.tries = 2, !.latest = @ /\ ok, !.age = 0, !.stray = FALSE]]
  BY DEF EndRun
<1>3. PICK x \in Doing :
          /\ worker' = [worker EXCEPT ![w] = x]
          /\ x.pc = "reporting" /\ x.id = worker[w].id /\ x.account = worker[w].account
          /\ x.latest => worker[w].latest /\ x.ok
  <2>1. worker[w] \in Doing /\ 0 \in 0..RunTime /\ 2 \in 0..2
    BY <1>1, TimesAssumption DEF TypeOK
  <2> DEFINE l == worker[w].latest /\ ok
             x == [worker[w] EXCEPT !.pc = "reporting", !.ok = ok, !.tries = 2,
                                    !.latest = l, !.age = 0, !.stray = FALSE]
  <2>2. l \in BOOLEAN /\ (l => worker[w].latest /\ ok)  OBVIOUS
  <2>3. worker' = [worker EXCEPT ![w] = x]  BY <1>2
  <2> HIDE DEF l
  <2>4. /\ x \in Doing /\ x.latest = l /\ x.ok = ok /\ x.id = worker[w].id
        /\ x.account = worker[w].account /\ x.pc = "reporting"
    BY <1>2, <2>1, <2>2 DEF Doing
  <2> HIDE DEF x
  <2>5. x.latest => worker[w].latest /\ x.ok  BY <2>2, <2>4
  <2> QED  BY <2>3, <2>4, <2>5
<1>4. worker[w].pc = "running" /\ UNCHANGED <<book, asked, reports, history>>
  BY DEF EndRun
<1>5. leftOpen' \subseteq Workers \X Accounts
  <2>1. Browser(w) \in Workers \X Accounts  BY <1>1, <1>4 DEF Browser, Asking
  <2> QED  BY <1>1, <2>1 DEF EndRun, LeftBy, TypeOK
<1>6. TypeOK'
  <2>1. worker' \in [Workers -> Doing]  BY <1>1, <1>3 DEF TypeOK
  <2> QED  BY <1>1, <1>4, <1>5, <2>1 DEF TypeOK, book, history
<1>7. \A v \in Workers :
          /\ v # w => worker'[v] = worker[v]
          /\ worker'[v].id = worker[v].id /\ worker'[v].account = worker[v].account
          /\ worker'[v].latest => worker[v].latest
          /\ v = w /\ worker'[v].latest => worker'[v].ok
          /\ worker'[v].pc = "running" => v # w
          /\ worker'[v].pc # "idle" => worker[v].pc # "idle"
          /\ worker'[v].pc = "idle" => v # w
  <2>1. \A v \in Workers : worker'[v] = IF v = w THEN x ELSE worker[v]
    BY <1>1, <1>3 DEF TypeOK
  <2> QED  BY <1>3, <1>4, <2>1
<1>8. Latest'  BY <1>1, <1>4, <1>7 DEF Latest, book
<1>9. OwnIds'  BY <1>1, <1>4, <1>7 DEF OwnIds, Busy
<1>10. Asking'  BY <1>1, <1>4, <1>7 DEF Asking
<1>11. UnderLease'  BY <1>1, <1>4, <1>7 DEF UnderLease, book
<1> QED  BY <1>4, <1>6, <1>8, <1>9, <1>10, <1>11
         DEF BookInv, Finite, OnePerAccount, Rested, book, history

\* A worker that goes to rest leaves what others know as it was.
LEMMA RestKeeps ==
    ASSUME TypeOK, Latest, OwnIds, Asking, UnderLease, NEW w \in Workers,
           worker' = [worker EXCEPT ![w] = AtRest], worker[w].pc # "idle",
           UNCHANGED <<leases, asked>>
    PROVE  /\ worker' \in [Workers -> Doing]
           /\ \A v \in Workers : worker'[v].latest => v # w
           /\ \A u, v \in Workers : worker'[u].pc # "idle" /\ worker'[v].pc # "idle"
                                       /\ worker'[u].id = worker'[v].id => u = v
           /\ Asking' /\ UnderLease'
           /\ \A v \in Workers : worker'[v].pc # "idle" => v # w /\ worker'[v] = worker[v]
           /\ \A v \in Workers : v # w => worker'[v] = worker[v]
<1>1. AtRest \in Doing
  BY TimesAssumption DEF AtRest, Doing
<1>2. \A v \in Workers : worker'[v] = IF v = w THEN AtRest ELSE worker[v]
  BY DEF TypeOK
<1>3. AtRest.pc = "idle" /\ ~AtRest.latest  BY DEF AtRest
<1>4. \A v \in Workers : worker'[v].pc # "idle" => v # w /\ worker'[v] = worker[v]
  BY <1>2, <1>3
<1>5. Asking'  BY <1>2, <1>3 DEF Asking
<1>6. UnderLease'  BY <1>4 DEF UnderLease
<1>7. worker' \in [Workers -> Doing]
  BY <1>1 DEF TypeOK
<1> QED  BY <1>2, <1>3, <1>4, <1>5, <1>6, <1>7 DEF OwnIds, Busy

LEMMA WorkerDiesKeepsBook ==
    ASSUME BookInv, NEW w \in Workers, WorkerDies(w)
    PROVE  BookInv'
<1>1. TypeOK /\ Asking /\ Rested /\ Latest /\ OwnIds /\ UnderLease  BY DEF BookInv
<1>2. worker[w].pc # "idle" /\ worker' = [worker EXCEPT ![w] = AtRest]
      /\ UNCHANGED <<leases, coolingOff, resting, urgentEnded, asked, reports, failed, tired>>
  BY DEF WorkerDies, book, history
<1>3. OwnIds' /\ Asking' /\ UnderLease'
  BY <1>1, <1>2, RestKeeps DEF OwnIds, Busy
<1>4. Latest'  BY <1>1, <1>2, RestKeeps DEF Latest
<1>5. leftOpen' \subseteq Workers \X Accounts
  <2>1. Browser(w) \in Workers \X Accounts  BY <1>1, <1>2 DEF Browser, Asking
  <2> QED  BY <1>1, <2>1 DEF WorkerDies, TypeOK
<1>6. TypeOK'  BY <1>1, <1>2, <1>5, RestKeeps DEF TypeOK
<1> QED  BY <1>2, <1>3, <1>6, <1>4 DEF BookInv, Finite, OnePerAccount, Rested

\* A report carries the session's id, which no open browser has.
LEMMA SendReportKeepsBook ==
    ASSUME BookInv, NEW w \in Workers, SendReport(w)
    PROVE  BookInv'
<1>1. TypeOK /\ Finite /\ Asking /\ Rested /\ Latest /\ OwnIds /\ UnderLease  BY DEF BookInv
<1>2. worker[w].pc = "reporting" /\ reports' \in {reports, reports \cup {ReportOf(w)}}
      /\ UNCHANGED <<leases, coolingOff, resting, urgentEnded, asked, leftOpen, failed, tired>>
  BY DEF SendReport, book, history
<1>3. worker[w].account \in Accounts  BY <1>1, <1>2 DEF Asking
<1>4. ReportOf(w) \in Report /\ ReportOf(w).id = worker[w].id /\ ReportOf(w).ok = worker[w].ok
      /\ ReportOf(w).latest = worker[w].latest /\ ReportOf(w).account = worker[w].account
  BY <1>1, <1>3 DEF TypeOK, Report, ReportOf, Doing
<1>5. reports' \subseteq Report /\ IsFiniteSet(reports')
  <2>1. IsFiniteSet(reports \cup {ReportOf(w)})  BY <1>1, FS_AddElement DEF Finite
  <2> QED  BY <1>1, <1>2, <1>4, <2>1 DEF TypeOK, Finite
<1>6. /\ \A l \in leases, r \in reports' : r.latest /\ l.account = r.account
                                              => l.id = r.id /\ ~l.light
      /\ \A r \in reports' : r.latest => r.ok
  BY <1>1, <1>2, <1>4 DEF Latest
<1>7. \A v \in Workers, r \in reports' : worker[v].pc = "running" => r.id # worker[v].id
  BY <1>1, <1>2, <1>4 DEF OwnIds, Busy
<1>8. CASE worker' = [worker EXCEPT ![w] = AtRest]
  <2>1. /\ OwnIds' /\ Asking' /\ UnderLease'
        /\ \A v \in Workers : worker'[v].latest => v # w /\ worker'[v] = worker[v]
    BY <1>1, <1>2, <1>7, <1>8, RestKeeps DEF OwnIds, Busy
  <2>3. Latest'  BY <1>1, <1>2, <1>6, <2>1 DEF Latest
  <2>2. TypeOK'  BY <1>1, <1>2, <1>5, <1>8, RestKeeps DEF TypeOK
  <2> QED  BY <1>2, <1>5, <2>1, <2>2, <2>3 DEF BookInv, Finite, OnePerAccount, Rested
<1>9. CASE worker' = [worker EXCEPT ![w].tries = 1]
  <2>1. \A v \in Workers :
          /\ v # w => worker'[v] = worker[v]
          /\ worker'[v].id = worker[v].id /\ worker'[v].latest = worker[v].latest
          /\ worker'[v].ok = worker[v].ok
          /\ worker'[v].account = worker[v].account /\ worker'[v].pc = worker[v].pc
          /\ worker'[v].age = worker[v].age /\ worker'[v].stray = worker[v].stray
    BY <1>1, <1>9 DEF TypeOK
  <2>2. TypeOK'  BY <1>1, <1>2, <1>5, <1>9 DEF TypeOK, Doing
  <2>3. Latest' /\ OwnIds'  BY <1>1, <1>2, <1>6, <1>7, <2>1 DEF Latest, OwnIds, Busy
  <2>4. Asking'  BY <1>1, <1>2, <2>1 DEF Asking
  <2>5. UnderLease'  BY <1>1, <1>2, <2>1 DEF UnderLease
  <2> QED  BY <1>2, <1>5, <2>2, <2>3, <2>4, <2>5 DEF BookInv, Finite, OnePerAccount, Rested
<1> QED  BY <1>8, <1>9 DEF SendReport

\* A report frees the lease it names, which is no open browser's, and what the
\* book makes of it is what it was for.
LEMMA ReportKeepsBook ==
    ASSUME BookInv, NEW r \in reports, RunFinished(r)
    PROVE  BookInv'
<1> DEFINE a == r.account
           held == LeasesOf(a)
           isLight == \E l \in held : l.light
           counts == r.ok /\ (held = {} \/ releaseLease(a, r.id) # {})
<1>1. TypeOK /\ Finite /\ OnePerAccount /\ Asking /\ Rested /\ Latest /\ OwnIds /\ UnderLease
  BY DEF BookInv
<1>2. /\ leases' = leases \ releaseLease(a, r.id)
      /\ urgentEnded' = IF isLight THEN [urgentEnded EXCEPT ![a] = Gap] ELSE urgentEnded
      /\ resting' = IF ~isLight /\ counts THEN [resting EXCEPT ![a] = Rest] ELSE resting
      /\ coolingOff' = Cools(r)
      /\ failed' = IF r.ok THEN failed ELSE [failed EXCEPT ![a] = CoolOff]
      /\ tired' = IF r.latest THEN [tired EXCEPT ![a] = Rest] ELSE tired
      /\ reports' = reports \ {r} /\ UNCHANGED <<asked, worker, leftOpen>>
  BY DEF RunFinished, finishRun
<1>3. r \in Report /\ a \in Accounts  BY <1>1 DEF TypeOK, Report
<1>4. r.latest => counts /\ ~isLight
  <2>1. r.latest => r.ok /\ \A l \in held : l.id = r.id /\ ~l.light
    BY <1>1 DEF Latest, LeasesOf
  <2> QED  BY <2>1 DEF releaseLease
<1> HIDE DEF isLight, counts, held
<1>5. TypeOK'
  <2>1. Gap \in 0..Gap /\ Rest \in 0..Rest /\ CoolOff \in 0..CoolOff  BY TimesAssumption
  <2>2. coolingOff' \in [Accounts -> 0..CoolOff]  BY <1>1, <1>2, <2>1 DEF TypeOK, Cools
  <2>3. failed' \in [Accounts -> 0..CoolOff]  BY <1>1, <1>2, <2>1 DEF TypeOK
  <2>4. urgentEnded' \in [Accounts -> 0..Gap]  BY <1>1, <1>2, <2>1 DEF TypeOK
  <2>5. resting' \in [Accounts -> 0..Rest]  BY <1>1, <1>2, <2>1 DEF TypeOK
  <2>6. tired' \in [Accounts -> 0..Rest]  BY <1>1, <1>2, <2>1 DEF TypeOK
  <2> QED  BY <1>1, <1>2, <2>2, <2>3, <2>4, <2>5, <2>6 DEF TypeOK
<1>6. Finite'  BY <1>1, <1>2, FS_Subset DEF Finite
<1>7. OnePerAccount' /\ Latest' /\ OwnIds' /\ Asking'
  BY <1>1, <1>2 DEF OnePerAccount, Latest, OwnIds, Asking, Busy
<1>8. UnderLease'
  BY <1>1, <1>2 DEF UnderLease, OwnIds, releaseLease
<1>9. Rested'
  <2> SUFFICES ASSUME NEW b \in Accounts PROVE tired'[b] <= resting'[b]
    BY DEF Rested
  <2>1. tired[b] <= resting[b] /\ tired[b] \in 0..Rest /\ resting[b] \in 0..Rest
    BY <1>1 DEF Rested, TypeOK
  <2>2. Rest \in Nat  BY TimesAssumption
  <2>3. tired'[b] = IF b = a /\ r.latest THEN Rest ELSE tired[b]
    BY <1>1, <1>2 DEF TypeOK
  <2>4. resting'[b] = IF b = a /\ ~isLight /\ counts THEN Rest ELSE resting[b]
    BY <1>1, <1>2 DEF TypeOK
  <2> QED  BY <1>4, <2>1, <2>2, <2>3, <2>4
<1> QED  BY <1>5, <1>6, <1>7, <1>8, <1>9 DEF BookInv

\* The clock takes from a browser's lease what it takes from the browser.
LEMMA TickKeepsBook ==
    ASSUME BookInv, Tick
    PROVE  BookInv'
<1> DEFINE older(l) == [l EXCEPT !.left = Less(@)]
           on(w) == [worker[w] EXCEPT !.age = IF worker[w].pc = "running" THEN @ + 1 ELSE @]
<1>1. TypeOK /\ Finite /\ OnePerAccount /\ Asking /\ Rested /\ Latest /\ OwnIds /\ UnderLease
  BY DEF BookInv
<1>2. /\ \A w \in Workers : asked[w].stage = "none" /\ ~Overdue(w)
      /\ leases' = {older(l) : l \in leases}
      /\ coolingOff' = [b \in Accounts |-> Less(coolingOff[b])]
      /\ resting' = [b \in Accounts |-> Less(resting[b])]
      /\ urgentEnded' = [b \in Accounts |-> Less(urgentEnded[b])]
      /\ failed' = [b \in Accounts |-> Less(failed[b])]
      /\ tired' = [b \in Accounts |-> Less(tired[b])]
      /\ worker' = [w \in Workers |-> on(w)]
      /\ UNCHANGED <<asked, reports, leftOpen>>
  BY DEF Tick
<1>3. \A n \in Nat : \A m \in 0..n : Less(m) \in 0..n
  BY DEF Less
<1>4. \A l \in leases : /\ older(l) \in Lease /\ older(l).account = l.account /\ older(l).id = l.id
                        /\ older(l).light = l.light /\ older(l).left = Less(l.left)
  BY <1>1, <1>3, TimesAssumption DEF TypeOK, Lease
<1>5. \A w \in Workers :
          /\ on(w).pc = worker[w].pc /\ on(w).account = worker[w].account /\ on(w).id = worker[w].id
          /\ on(w).latest = worker[w].latest /\ on(w).stray = worker[w].stray /\ on(w).ok = worker[w].ok
          /\ worker[w].pc = "running" => on(w).age = worker[w].age + 1
          /\ worker[w].pc # "running" => on(w) = worker[w]
          /\ on(w) \in Doing
  <2> SUFFICES ASSUME NEW w \in Workers
               PROVE  /\ on(w).pc = worker[w].pc /\ on(w).account = worker[w].account
                      /\ on(w).id = worker[w].id
                      /\ on(w).latest = worker[w].latest /\ on(w).stray = worker[w].stray
                      /\ on(w).ok = worker[w].ok
                      /\ worker[w].pc = "running" => on(w).age = worker[w].age + 1
                      /\ worker[w].pc # "running" => on(w) = worker[w]
                      /\ on(w) \in Doing
    OBVIOUS
  <2>1. worker[w] \in Doing
    BY <1>1 DEF TypeOK
  <2>2. RunTime \in Nat /\ (worker[w].pc = "running" => worker[w].age # RunTime)
    BY <1>2, TimesAssumption DEF Overdue
  <2> QED  BY <2>1, <2>2 DEF Doing
<1> HIDE DEF older, on
<1>6. TypeOK'
  <2>1. leases' \subseteq Lease  BY <1>2, <1>4
  <2>2. worker' \in [Workers -> Doing]
    BY <1>2, <1>5
  <2>3. coolingOff' \in [Accounts -> 0..CoolOff] /\ failed' \in [Accounts -> 0..CoolOff]
    BY <1>1, <1>2, <1>3, TimesAssumption DEF TypeOK
  <2>4. resting' \in [Accounts -> 0..Rest] /\ tired' \in [Accounts -> 0..Rest]
    BY <1>1, <1>2, <1>3, TimesAssumption DEF TypeOK
  <2>5. urgentEnded' \in [Accounts -> 0..Gap]
    BY <1>1, <1>2, <1>3, TimesAssumption DEF TypeOK
  <2> QED  BY <1>1, <1>2, <2>1, <2>2, <2>3, <2>4, <2>5 DEF TypeOK
<1>7. Finite'
  <2> DEFINE f == [l \in leases |-> older(l)]
  <2>1. leases' = {f[l] : l \in leases}  BY <1>2
  <2> HIDE DEF f
  <2>2. IsFiniteSet({f[l] : l \in leases})  BY <1>1, FiniteImage DEF Finite
  <2> QED  BY <1>1, <1>2, <2>1, <2>2 DEF Finite
<1>8. OnePerAccount'  BY <1>1, <1>2, <1>4 DEF OnePerAccount
<1>9. \A w \in Workers : worker'[w] = on(w)  BY <1>2
<1>10. Latest'  BY <1>1, <1>2, <1>4, <1>5, <1>9 DEF Latest, Busy
<1>11. OwnIds'  BY <1>1, <1>2, <1>5, <1>9 DEF OwnIds, Busy
<1>12. Asking'  BY <1>1, <1>2, <1>5, <1>9 DEF Asking
<1>13. UnderLease'
  <2> SUFFICES ASSUME NEW w \in Workers, on(w).pc = "running", ~on(w).stray, on(w).age < LeaseTime
               PROVE  \E l \in leases' : l.id = on(w).id /\ l.left = LeaseTime - on(w).age
    BY <1>9 DEF UnderLease
  <2>1. worker[w].age \in Nat /\ LeaseTime \in Nat /\ on(w).age = worker[w].age + 1
    BY <1>1, <1>5, TimesAssumption DEF TypeOK, Doing
  <2>2. PICK l \in leases : l.id = worker[w].id /\ l.left = LeaseTime - worker[w].age
    BY <1>1, <1>5, <2>1 DEF UnderLease
  <2>3. Less(l.left) = LeaseTime - on(w).age  BY <2>1, <2>2 DEF Less
  <2> QED  BY <1>2, <1>4, <1>5, <2>2, <2>3
<1>14. Rested'
  <2>1. \A m, n \in Nat : m <= n => Less(m) <= Less(n)  BY DEF Less
  <2> QED  BY <1>1, <1>2, <2>1 DEF Rested, TypeOK
<1> QED  BY <1>6, <1>7, <1>8, <1>10, <1>11, <1>12, <1>13, <1>14 DEF BookInv

\* A portal that restarts has no lease to speak of; every open browser is a stray.
LEMMA RestartKeepsBook ==
    ASSUME BookInv, Restart
    PROVE  BookInv'
<1> DEFINE on(w) == [worker[w] EXCEPT !.stray = (worker[w].pc = "running")]
<1>1. TypeOK /\ Finite /\ OnePerAccount /\ Asking /\ Rested /\ Latest /\ OwnIds /\ UnderLease
  BY DEF BookInv
<1>2. /\ leases' = {} /\ reports' = reports /\ leftOpen' = leftOpen
      /\ coolingOff' = [a \in Accounts |-> 0] /\ failed' = [a \in Accounts |-> 0]
      /\ resting' = [a \in Accounts |-> 0] /\ tired' = [a \in Accounts |-> 0]
      /\ urgentEnded' = [a \in Accounts |-> 0]
      /\ asked' = [w \in Workers |-> NoRequest]
      /\ worker' = [w \in Workers |-> on(w)]
  BY DEF Restart
<1>3. \A w \in Workers :
          /\ on(w).pc = worker[w].pc /\ on(w).account = worker[w].account /\ on(w).id = worker[w].id
          /\ on(w).stray = (worker[w].pc = "running")
          /\ on(w).latest = worker[w].latest /\ on(w).ok = worker[w].ok
          /\ worker[w] = AtRest => on(w) = AtRest
          /\ on(w) \in Doing
  <2> SUFFICES ASSUME NEW w \in Workers
               PROVE  /\ on(w).pc = worker[w].pc /\ on(w).account = worker[w].account
                      /\ on(w).id = worker[w].id
                      /\ on(w).stray = (worker[w].pc = "running")
                      /\ on(w).latest = worker[w].latest /\ on(w).ok = worker[w].ok
                      /\ worker[w] = AtRest => on(w) = AtRest
                      /\ on(w) \in Doing
    OBVIOUS
  <2>1. worker[w] \in Doing
    BY <1>1 DEF TypeOK
  <2>2. ASSUME worker[w] = AtRest PROVE on(w) = AtRest
    <3>1. AtRest.stray = FALSE /\ (AtRest.pc = "running") = FALSE  BY DEF AtRest
    <3>2. on(w) = [AtRest EXCEPT !.stray = FALSE]  BY <2>2, <3>1
    <3> HIDE DEF on
    <3>3. [AtRest EXCEPT !.stray = FALSE] = AtRest
      <4>1. AtRest \in [pc : {"idle"}, account : {Nobody}, id : {0}, age : {0}, stray : BOOLEAN,
                        latest : BOOLEAN, ok : BOOLEAN, tries : {0}]  BY DEF AtRest
      <4> QED  BY <3>1, <4>1
    <3> QED  BY <3>2, <3>3
  <2> QED  BY <2>1, <2>2 DEF Doing
<1> HIDE DEF on
<1>4. TypeOK'
  <2>1. worker' \in [Workers -> Doing]
    BY <1>2, <1>3
  <2> QED  BY <1>1, <1>2, <2>1, TimesAssumption DEF TypeOK, NoRequest, Stages
<1>5. Finite'  BY <1>1, <1>2, FS_EmptySet DEF Finite
<1>6. \A w \in Workers : worker'[w] = on(w)  BY <1>2
<1>7. OnePerAccount' /\ Rested'
  BY <1>2 DEF OnePerAccount, Rested
<1>8. Latest'  BY <1>1, <1>2, <1>3, <1>6 DEF Latest
<1>9. OwnIds'  BY <1>1, <1>2, <1>3, <1>6 DEF OwnIds, Busy
<1>10. Asking'  BY <1>1, <1>2, <1>3, <1>6 DEF Asking, NoRequest
<1>11. UnderLease'  BY <1>3, <1>6 DEF UnderLease
<1> QED  BY <1>4, <1>5, <1>7, <1>9, <1>10, <1>11, <1>8 DEF BookInv

LEMMA StepKeepsBook == BookInv /\ [Next]_vars => BookInv'
<1> SUFFICES ASSUME BookInv, [Next]_vars PROVE BookInv'
  OBVIOUS
<1>1. CASE UNCHANGED vars
  BY <1>1 DEF vars, book, history, BookInv, TypeOK, Finite, OnePerAccount, Latest, OwnIds,
              Asking, UnderLease, Rested, Busy
<1>2. ASSUME NEW w \in Workers, WorkerStep(w) PROVE BookInv'
  BY <1>2, RequestKeepsBook, EndRunKeepsBook, SendReportKeepsBook, WorkerDiesKeepsBook
     DEF WorkerStep
<1>3. ASSUME NEW r \in reports, RunFinished(r) PROVE BookInv'
  BY <1>3, ReportKeepsBook
<1>4. CASE Sweep
  <2>1. leases' = Live /\ UNCHANGED <<coolingOff, resting, urgentEnded, asked, worker, reports,
                                      leftOpen, failed, tired>>
    BY <1>4 DEF Sweep, history
  <2>2. TypeOK'  BY <2>1 DEF BookInv, TypeOK, Live
  <2>3. Asking' /\ Rested'  BY <2>1 DEF BookInv, Asking, Rested
  <2> QED  BY <2>1, <2>2, <2>3, BookOnly DEF Live
<1> QED  BY <1>1, <1>2, <1>3, <1>4, TickKeepsBook, RestartKeepsBook DEF Next

-----------------------------------------------------------------------------
\* Two browsers under leases in force would be two leases in force.
LEMMA OneBrowser == Inv /\ BookInv => TwoBrowsersOnlyPastLease
<1> SUFFICES ASSUME Inv, BookInv, NEW b \in OpenBrowsers, NEW c \in OpenBrowsers, b # c,
                    ~PastLease(b), ~PastLease(c)
             PROVE  FALSE
  BY DEF TwoBrowsersOnlyPastLease
<1>1. PICK v \in Workers : worker[v].pc = "running" /\ b = Browser(v)
  BY DEF OpenBrowsers, PastLease
<1>2. PICK w \in Workers : worker[w].pc = "running" /\ c = Browser(w)
  BY DEF OpenBrowsers, PastLease
<1>3. \A x \in {v, w} : ~worker[x].stray /\ ~(worker[x].age >= LeaseTime)
  BY <1>1, <1>2 DEF PastLease, Browser
<1>4. v # w
  BY <1>1, <1>2
<1>5. LeaseTime \in Nat /\ worker[v].age \in Nat /\ worker[w].age \in Nat
  BY TimesAssumption DEF BookInv, TypeOK, Doing
<1>6. worker[v].age < LeaseTime /\ worker[w].age < LeaseTime
  BY <1>3, <1>5
<1>7. PICK l \in leases : l.id = worker[v].id /\ l.left = LeaseTime - worker[v].age
  BY <1>3, <1>6, <1>1 DEF BookInv, UnderLease
<1>8. PICK m \in leases : m.id = worker[w].id /\ m.left = LeaseTime - worker[w].age
  BY <1>3, <1>6, <1>2 DEF BookInv, UnderLease
<1>9. l.left > 0 /\ m.left > 0  BY <1>5, <1>6, <1>7, <1>8
<1>10. l = m  BY <1>9 DEF Inv, OneLiveLease, Live
<1> QED  BY <1>7, <1>8, <1>10, <1>1, <1>2, <1>4 DEF BookInv, OwnIds, Busy

\* At most one browser is open that has neither outrun its lease, nor been
\* forgotten by a restart, nor been left open by a session that ended, whatever
\* reports are late, lost or repeated: releaseLease (scheduler.mjs) frees an
\* account only for the lease's own id.
THEOREM OneBrowserInTime == Spec => []TwoBrowsersOnlyPastLease
<1> QED  BY Initially, StepKeeps, BookInitially, StepKeepsBook, OneBrowser, PTL DEF Spec

\* What HandedOutWasFree says of cool-offs, of the rest after a day's session.
LEMMA HandedOutHadRested ==
    ASSUME BookInv, [Next]_vars, NEW a \in Accounts, HandsOut(a, {"ready"})
    PROVE  tired[a] = 0
<1>1. PICK w \in Workers : asked[w].stage = "ready" /\ asked'[w].stage = "none"
  BY DEF HandsOut
<1>2. PICK l \in leases' \ leases : l.account = a
  BY DEF HandsOut
<1>3. ~(leases' \subseteq leases) /\ asked' # asked
  BY <1>1, <1>2
<1>4. TypeOK  BY DEF BookInv
<1>5. PICK v \in Workers : WorkerStep(v)
  <2>1. ~(\E r \in reports : RunFinished(r))  BY <1>3 DEF RunFinished
  <2>2. ~Sweep /\ ~Tick /\ ~Restart /\ ~UNCHANGED vars  BY <1>3 DEF Sweep, Tick, Restart, vars
  <2> QED  BY <2>1, <2>2 DEF Next
<1>6. PICK light : Grant(v, light) /\ (UrgentRead(v) \/ ReadyRead(v) \/ DutyRead(v))
             /\ (asked[v].stage = "ready" => Ready(asked[v].account))
  <2>1. ~(EndRun(v) \/ SendReport(v) \/ WorkerDies(v))
    BY <1>3 DEF EndRun, SendReport, WorkerDies
  <2>2. ~(\E b \in Accounts : LeaseAccount(v, b))
    BY <1>3 DEF LeaseAccount, Live
  <2>3. ~Refuse(v) /\ \A stage : ~NextRead(v, stage)
    BY <1>3 DEF Refuse, NextRead, book
  <2>4. CASE UrgentRead(v)  BY <2>3, <2>4 DEF UrgentRead
  <2>5. CASE ReadyRead(v)  BY <2>3, <2>5 DEF ReadyRead
  <2>6. CASE DutyRead(v)  BY <2>3, <2>6 DEF DutyRead
  <2> QED  BY <1>5, <2>1, <2>2, <2>4, <2>5, <2>6 DEF WorkerStep
<1>7. v = w
  BY <1>1, <1>4, <1>6 DEF Grant, TypeOK
<1>8. a = asked[w].account
  <2>1. \A k \in leases' \ leases : k.account = asked[v].account
    BY <1>6 DEF Grant, grantLease
  <2> QED  BY <1>2, <1>7, <2>1
<1>9. resting[a] = 0  BY <1>1, <1>6, <1>7, <1>8 DEF Ready
<1> QED  BY <1>9 DEF BookInv, Rested, TypeOK

\* Between the report of a day's session that went well, if the account was not
\* handed out once more before it came, and the next day's session lies the
\* rest: the session's own lease is in the book or none is (scheduler.mjs:1116).
THEOREM TheRestIsKept == Spec => RestKept
<1>1. BookInv /\ [Next]_vars => [\A a \in Accounts : HandsOut(a, {"ready"}) => tired[a] = 0]_vars
  BY HandedOutHadRested
<1> QED  BY <1>1, BookInitially, StepKeepsBook, PTL DEF Spec, RestKept

\* The shapes of the variables, ids that grow without bound among them.
THEOREM TypesOK == Spec => []TypeOK
<1>1. BookInv => TypeOK  BY DEF BookInv
<1> QED  BY <1>1, BookInitially, StepKeepsBook, PTL DEF Spec
=============================================================================
