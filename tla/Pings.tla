-------------------------------- MODULE Pings --------------------------------
(***************************************************************************)
(* The next step of one dialog (triage/pings.mjs, triage/today.mjs): a      *)
(* ping is a task of the CRM with the key of the step it stands for.        *)
(*                                                                          *)
(* A reconciliation reads the dialog, then the contact's tasks and status,  *)
(* computes what the next step is, and writes task after task: each write   *)
(* is a request of its own and a failed one is only logged.  Meanwhile the  *)
(* dialog goes on, people set and move pings, set statuses and close tasks. *)
(*                                                                          *)
(* Abstracted: one contact, in a campaign, with one conversation; dates to  *)
(* an age of the last step (nothing is due, the silence has lasted as long  *)
(* as the campaign says, it is out of the two weeks looked at); who a task  *)
(* is assigned to and how many fit in a day.  Times are numbered: what      *)
(* happens in the dialog and what people do takes the next number, a task   *)
(* is made at the latest one.                                               *)
(***************************************************************************)
EXTENDS Naturals, Sequences, FiniteSets, FiniteSetsExt

CONSTANTS
  Cold, Warm, \* steps of silence for who never answered, and for who did
  Chosen,     \* statuses people set: any of LEAD_STATUSES
  MaxEvents,  \* bound: what happens in the dialog
  MaxActs,    \* bound: what people do
  MaxFaults   \* bound: failed requests and restarts

Closing == {"no_response", "not_interested", "not_icp", "bad_timing"}
LeadStatuses == Closing \cup {"new", "in_progress", "responded", "qualified", "booked_call"}

ASSUME PingsAssumption ==
  /\ {Cold, Warm, MaxEvents, MaxActs, MaxFaults} \subseteq Nat
  /\ Chosen \subseteq LeadStatuses

VARIABLES
  clock,   \* the latest number given
  dialog,  \* the conversation and what of ours is still to appear in it
  status,  \* contacts.lead_status, and since when it is bad_timing
  tasks,   \* the contact's tasks in the queue Outbound, in the order they were made
  pass,    \* the reconciliation: where it is and what it has read
  hand,    \* the request of a person that is being served
  acts, events, faults,
  closed,  \* tasks people closed while no reconciliation had read them
  kept     \* the status people set while no reconciliation had read it

crm == <<status, tasks>>
seen == <<closed, kept>>
bounds == <<acts, events, faults>>
pingsVars == <<clock, dialog, crm, pass, hand, bounds, seen>>

None == "none"

-----------------------------------------------------------------------------
(* What the next step is: desiredPing, laterPing.                          *)

NewDialog == [in |-> 0, last |-> None, stored |-> 0, trailing |-> 0, pend |-> {}, age |-> 0]

NoKey == <<"no ping">>
Outside == [key |-> <<"outside">>, basis |-> 0, due |-> FALSE]
Step(key, basis) == [key |-> key, basis |-> basis, due |-> FALSE]
Manual(n) == <<"manual", n>>
IsSystem(key) == key[1] \in {"first", "reply", "silent", "later"}

\* ours that were queued after their latest answer
Ours(d) == {n \in d.pend : n > d.in}
Silence(d) == (IF d.last = "out" THEN d.trailing ELSE 0) + Cardinality(Ours(d))
LastOut(d) == Max(Ours(d) \cup {IF d.last = "out" THEN d.stored ELSE 0})
Steps(d) == IF d.in > 0 THEN Warm ELSE Cold
OutOfSteps(d) == d.last # None /\ Silence(d) > Steps(d)

NextStep(d) ==
  CASE d.last = "in" /\ Ours(d) = {} -> Step(<<"reply", d.in>>, d.in)
    [] d.last = None /\ d.pend = {}  -> Step(<<"first">>, 1)
    [] OTHER                         -> Step(<<"silent", d.in, Silence(d)>>, LastOut(d))

DesiredPing(d) ==
  IF OutOfSteps(d)
  THEN [key |-> NoKey, basis |-> LastOut(d), due |-> d.age = 1]
  ELSE IF d.age = 2 THEN Outside ELSE NextStep(d)

\* bad_timing: one step a month later, unless they have written since
Later(d, st) ==
  LET next == DesiredPing(d)
  IN IF st.is # "bad_timing" \/ (next.key[1] = "reply" /\ next.basis > st.since)
     THEN next
     ELSE Step(<<"later", st.since>>, st.since)

-----------------------------------------------------------------------------
(* What to do about the tasks: planPingChanges.                            *)

Superseded(want, ts) ==
  {i \in DOMAIN ts : /\ ts[i].open /\ ts[i].key # want.key
                     /\ (IsSystem(ts[i].key) \/ want.basis > ts[i].made)}

\* slip: only an open task counts as the step's
OpenOnes(want, ts) == {i \in DOMAIN ts : ts[i].open /\ ts[i].key = want.key}

OfStep(want, ts) == {i \in DOMAIN ts : ts[i].key = want.key}

NoAction == [op |-> None, id |-> 0, key |-> NoKey]

ToReopen(want, ts) == [op |-> "reopen", id |-> Max(OfStep(want, ts)), key |-> want.key]

\* a person's own open task stands for the step
ToCreate(want, ts) ==
  IF \E i \in DOMAIN ts \ Superseded(want, ts) : ts[i].open
  THEN NoAction
  ELSE [op |-> "create", id |-> 0, key |-> want.key]

\* nothing to do, or nothing but what is already open
NothingToDo(want, ts) == want.key = NoKey \/ \E i \in OfStep(want, ts) : ts[i].open

\* slip: a task of the step is opened again whoever closed it
ReopensAny(want, ts) ==
  IF NothingToDo(want, ts) THEN NoAction
  ELSE IF OfStep(want, ts) # {} THEN ToReopen(want, ts) ELSE ToCreate(want, ts)

\* slip: a step that has a task is not opened again
NeverReopens(want, ts) ==
  IF NothingToDo(want, ts) \/ OfStep(want, ts) # {} THEN NoAction ELSE ToCreate(want, ts)

\* the step's task, after the others are superseded
Finally(want, ts) ==
  LET same == OfStep(want, ts)
  IN IF NothingToDo(want, ts) \/ (same # {} /\ ~ts[Max(same)].sup) THEN NoAction
     ELSE IF same # {} THEN ToReopen(want, ts) ELSE ToCreate(want, ts)

-----------------------------------------------------------------------------
(* The reconciliation: reconcilePings.                                     *)

Off == [at |-> "off", dialog |-> NewDialog, want |-> Outside, got |-> {}, contact |-> None,
        closing |-> {}, last |-> NoAction]

Fault == faults < MaxFaults /\ faults' = faults + 1

\* what of ours is queued cannot be read: nothing is, and the step before is as old as it is
QueueUnread == {[dialog EXCEPT !.pend = {}, !.age = a] : a \in {x \in 0 .. 2 : x >= dialog.age}}

\* gatherDialogs; who comes while one runs gets its result
Gather ==
  /\ pass.at = "off"
  /\ \E d \in {dialog} \cup QueueUnread :
       /\ \/ d = dialog /\ UNCHANGED faults
          \/ d.pend # dialog.pend /\ Fault
       /\ pass' = [Off EXCEPT !.at = "gathered", !.dialog = d]
  /\ UNCHANGED <<clock, dialog, crm, hand, acts, events, seen>>

\* the request is answered, or fails and is logged
Done(writes) ==
  \/ writes /\ UNCHANGED faults
  \/ Fault /\ UNCHANGED crm

\* who is in bad_timing; when that cannot be read the dialog alone decides
ReadLater ==
  /\ pass.at = "gathered"
  /\ \E want \in {Later(pass.dialog, status), DesiredPing(pass.dialog)} :
       /\ \/ want = Later(pass.dialog, status) /\ UNCHANGED faults
          \/ want # Later(pass.dialog, status) /\ Fault
       /\ pass' = [pass EXCEPT !.want = want,
                               !.at = IF want = Outside THEN "extra" ELSE "reading"]
  /\ UNCHANGED <<clock, dialog, crm, hand, acts, events, seen>>

\* tasksOf and contactsOf, side by side
ReadTasks ==
  /\ pass.at = "reading" /\ "tasks" \notin pass.got
  /\ pass' = [pass EXCEPT
       !.got = @ \cup {"tasks"},
       !.closing = {<<i, tasks[i].key>> : i \in Superseded(pass.want, tasks)},
       !.last = Finally(pass.want, tasks)]
  /\ UNCHANGED <<clock, dialog, crm, hand, bounds, seen>>

ReadContact ==
  /\ pass.at = "reading" /\ "contact" \notin pass.got
  /\ pass' = [pass EXCEPT !.got = @ \cup {"contact"}, !.contact = status.is]
  /\ UNCHANGED <<clock, dialog, crm, hand, bounds, seen>>

StillTrying == {"new", "in_progress"}

\* the steps are over and nobody answered: the status says so
NoResponse ==
  /\ pass.at = "reading" /\ pass.got = {"tasks", "contact"}
  /\ IF pass.want.due /\ pass.contact \in StillTrying
     THEN Done(status' = [status EXCEPT !.is = "no_response"] /\ UNCHANGED tasks)
     ELSE UNCHANGED <<crm, faults>>
  /\ pass' = [pass EXCEPT !.at = "acting"]
  /\ UNCHANGED <<clock, dialog, hand, acts, events, seen>>

\* applyAction: every write sets the key that was read
Supersede ==
  /\ pass.at = "acting"
  /\ \E t \in pass.closing :
       /\ Done(/\ tasks' = [tasks EXCEPT ![t[1]] = [@ EXCEPT !.open = FALSE, !.sup = TRUE, !.key = t[2]]]
               /\ UNCHANGED status)
       /\ pass' = [pass EXCEPT !.closing = @ \ {t}]
  /\ UNCHANGED <<clock, dialog, hand, acts, events, seen>>

Reopen(a) ==
  /\ a.op = "reopen"
  /\ tasks' = [tasks EXCEPT ![a.id] = [@ EXCEPT !.open = TRUE, !.sup = FALSE, !.key = a.key]]
Create(a) ==
  /\ a.op = "create"
  /\ tasks' = Append(tasks, [key |-> a.key, open |-> TRUE, sup |-> FALSE, made |-> clock])

Act ==
  /\ pass.at = "acting" /\ pass.closing = {}
  /\ IF pass.last.op = None
     THEN UNCHANGED <<crm, faults>>
     ELSE Done((Reopen(pass.last) \/ Create(pass.last)) /\ UNCHANGED status)
  /\ pass' = [pass EXCEPT !.at = "answered"]
  /\ UNCHANGED <<clock, dialog, hand, acts, events, seen>>

\* a contact whose tasks are left alone is read for its status
ReadExtra ==
  /\ pass.at = "extra"
  /\ pass' = [pass EXCEPT !.at = "answered", !.contact = status.is]
  /\ UNCHANGED <<clock, dialog, crm, hand, bounds, seen>>

AutoRepliedFrom == {"new", "in_progress"}

\* leadReplied, repliedStatusDue
RepliedStatusDue(d, was) ==
  /\ d.in > 0
  /\ was \in AutoRepliedFrom \/ (was = "no_response" /\ d.last = "in")

Responded ==
  /\ pass.at = "answered"
  /\ IF RepliedStatusDue(pass.dialog, pass.contact)
     THEN Done(status' = [status EXCEPT !.is = "responded"] /\ UNCHANGED tasks)
     ELSE UNCHANGED <<crm, faults>>
  /\ pass' = Off
  /\ UNCHANGED <<clock, dialog, hand, acts, events, seen>>

\* a read fails, or the portal restarts
Ends ==
  /\ pass.at # "off" /\ Fault
  /\ pass' = Off
  /\ UNCHANGED <<clock, dialog, crm, hand, acts, events, seen>>

Reconcile ==
  \/ Gather \/ ReadLater \/ ReadTasks \/ ReadContact \/ NoResponse
  \/ Supersede \/ Act \/ ReadExtra \/ Responded

-----------------------------------------------------------------------------
(* The dialog.                                                             *)

Happens(d) ==
  /\ events < MaxEvents /\ events' = events + 1
  /\ clock' = clock + 1 /\ dialog' = d
  /\ UNCHANGED <<crm, pass, hand, acts, faults, seen>>

\* an answer is stored
TheyWrite ==
  Happens([dialog EXCEPT !.in = clock + 1, !.last = "in", !.stored = clock + 1,
                         !.trailing = 0, !.age = 0])

WeQueue == Happens([dialog EXCEPT !.pend = @ \cup {clock + 1}, !.age = 0])

\* a message of ours is seen in the thread
Appears(n) ==
  /\ n \in dialog.pend
  /\ Happens([dialog EXCEPT !.pend = @ \ {n}, !.last = "out", !.stored = clock + 1,
                            !.trailing = @ + 1, !.age = 0])

\* it is cancelled, fails or expires
Dropped(n) ==
  /\ n \in dialog.pend
  /\ Happens([dialog EXCEPT !.pend = @ \ {n}])

DaysPass == dialog.age < 2 /\ Happens([dialog EXCEPT !.age = @ + 1])

Dialog ==
  \/ TheyWrite \/ WeQueue \/ DaysPass
  \/ \E n \in dialog.pend : Appears(n) \/ Dropped(n)

-----------------------------------------------------------------------------
(* People.                                                                 *)

NoRequest == [at |-> "idle", task |-> 0, to |-> None, left |-> {}]
Quiet == pass.at \in {"off", "gathered"}
Open == {i \in DOMAIN tasks : tasks[i].open}
Click == acts < MaxActs /\ acts' = acts + 1 /\ hand.at = "idle"

\* setManualPing: a task of the list, which may be old by now, or the newest open one
PingRead ==
  /\ Click
  /\ \E t \in DOMAIN tasks \cup {IF Open = {} THEN 0 ELSE Max(Open)} :
       hand' = [NoRequest EXCEPT !.at = "ping", !.task = t]
  /\ UNCHANGED <<clock, dialog, crm, pass, events, faults, seen>>

PingWrite ==
  /\ hand.at = "ping" /\ hand' = NoRequest /\ clock' = clock + 1
  /\ IF hand.task = 0
     THEN tasks' = Append(tasks, [key |-> Manual(clock'), open |-> TRUE, sup |-> FALSE,
                                  made |-> clock'])
     ELSE tasks' = [tasks EXCEPT ![hand.task] = [@ EXCEPT !.key = Manual(clock'), !.sup = FALSE]]
  /\ closed' = closed \ {hand.task}
  /\ UNCHANGED <<dialog, status, pass, bounds, kept>>

\* setContactStatus: the contact, its status, its open tasks, each of them; what ends
\* the lead is written with its reason even where it stands
StatusRead(s) ==
  /\ Click /\ s \in Chosen
  /\ hand' = [NoRequest EXCEPT !.at = IF s \notin Closing /\ status.is = s THEN "tasks" ELSE "status",
                               !.to = s]
  /\ UNCHANGED <<clock, dialog, crm, pass, events, faults, seen>>

StatusWrite ==
  /\ hand.at = "status" /\ hand' = [hand EXCEPT !.at = "tasks"] /\ clock' = clock + 1
  /\ status' = [is |-> hand.to,
                since |-> IF hand.to = "bad_timing" /\ status.is # hand.to
                          THEN clock' ELSE status.since]
  /\ kept' = IF Quiet THEN hand.to ELSE None
  /\ UNCHANGED <<dialog, tasks, pass, bounds, closed>>

StatusTasks ==
  /\ hand.at = "tasks"
  /\ hand' = IF hand.to \notin Closing \/ Open = {} THEN NoRequest
             ELSE [hand EXCEPT !.at = "close", !.left = Open]
  /\ UNCHANGED <<clock, dialog, crm, pass, bounds, seen>>

Closes(t) ==
  /\ tasks' = [tasks EXCEPT ![t].open = FALSE]
  /\ closed' = IF tasks[t].open /\ Quiet THEN closed \cup {t} ELSE closed
  /\ UNCHANGED <<clock, dialog, status, pass, events, faults, kept>>

StatusCloses(t) ==
  /\ hand.at = "close" /\ t \in hand.left /\ Closes(t) /\ UNCHANGED acts
  /\ hand' = IF hand.left = {t} THEN NoRequest ELSE [hand EXCEPT !.left = @ \ {t}]

\* in the CRM itself
CloseTask(t) == Click /\ t \in Open /\ Closes(t) /\ UNCHANGED hand

People ==
  \/ PingRead \/ PingWrite \/ StatusWrite \/ StatusTasks
  \/ \E s \in Chosen : StatusRead(s)
  \/ \E t \in DOMAIN tasks : StatusCloses(t) \/ CloseTask(t)

-----------------------------------------------------------------------------

PingsInit ==
  /\ clock = 1 /\ acts = 0 /\ events = 0 /\ faults = 0
  /\ dialog = NewDialog
  /\ status = [is |-> "new", since |-> 0]
  /\ tasks = <<>>
  /\ pass = Off /\ hand = NoRequest
  /\ closed = {} /\ kept = None

PingsNext ==
  \/ Reconcile \/ Ends
  \/ Dialog \/ People

PingsSpec == PingsInit /\ [][PingsNext]_pingsVars

\* the timer comes every two minutes and every request of a pass ends
PingsFairSpec == PingsSpec /\ WF_pingsVars(Reconcile)

-----------------------------------------------------------------------------
(* What must hold.                                                         *)

PingsTypeOK ==
  /\ clock \in 1 .. 1 + MaxEvents + MaxActs
  /\ dialog.pend \subseteq 1 .. clock /\ dialog.last \in {None, "in", "out"} /\ dialog.age \in 0 .. 2
  /\ status.is \in LeadStatuses
  /\ \A i \in DOMAIN tasks : /\ {tasks[i].open, tasks[i].sup} \subseteq BOOLEAN
                             /\ tasks[i].made \in 1 .. clock
  /\ closed \subseteq DOMAIN tasks /\ kept \in Chosen \cup {None}

\* A step of a dialog has one task ever, however many call for a reconciliation at
\* once, whatever fails half-way and whatever people move meanwhile (planPingChanges
\* looks for the key; `running` lets one reconciliation through).
OnePingPerStep ==
  \A i, j \in DOMAIN tasks : tasks[i].key = tasks[j].key => i = j

\* A reconciliation may replace it: no answer to any step, or an answer that counts.
Lifted(was, is) ==
  \/ was \in StillTrying /\ is = "no_response"
  \/ was \in AutoRepliedFrom \cup {"no_response"} /\ is = "responded" /\ dialog.in > 0

\* What people decided stands: a ping they closed is not opened again, nor the same
\* step put under another task; and a status they set gives way only where it says
\* that nothing came of it yet - new and in_progress to no_response, these three to
\* responded, and to that only once the person has written - unless a reconciliation
\* had read the CRM before they decided.
DecisionsKept ==
  /\ \A i \in closed, j \in DOMAIN tasks : tasks[j].key = tasks[i].key => ~tasks[j].open
  /\ kept # None => status.is = kept \/ Lifted(kept, status.is)

\* The step the dialog is at, and nothing else of the system's, is what is open; or a
\* person's own ping is, or a person closed it.  And the lead's status says what came of
\* it: that they answered, or did not.
Aligned ==
  LET want == Later(dialog, status)
      own == {i \in Open : ~IsSystem(tasks[i].key)}
  IN want # Outside =>
       /\ \A i \in Open \ own : tasks[i].key = want.key
       /\ want.key = NoKey \/ Open # {} \/ \E i \in OfStep(want, tasks) : ~tasks[i].sup
       /\ ~RepliedStatusDue(dialog, status.is)
       /\ ~(want.due /\ status.is \in StillTrying)

\* Once the dialog rests and people let go, the tasks come to say what the next step
\* is, and keep saying it: no dialog is lost between two steps, whatever failed, was
\* cancelled, or was decided on an older reading.
PingsSettle == <>[]Aligned
=============================================================================
