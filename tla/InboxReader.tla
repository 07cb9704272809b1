----------------------------- MODULE InboxReader -----------------------------
(***************************************************************************)
(* Reading a sending mailbox's inbox (esp/inbound.mjs pollInboxes,         *)
(* esp/gmail.mjs inboxSince, pollInbox and postpone of server.mjs): what   *)
(* arrived since a cursor is matched to our letters and journaled, an      *)
(* auto-reply moves the person's next letter, a policy bounce raises an    *)
(* alarm about the sender, and then the cursor is written.                 *)
(*                                                                         *)
(* The timer never reads twice at the same time; a person may ask for a    *)
(* read whenever (POST /inbox/poll).  Journal lines survive a restart, the *)
(* cursor is in the state file.                                            *)
(*                                                                         *)
(* Abstracted: the words of a message to its kind, the ways a letter is    *)
(* found to the letter it answers; a message that is our own, the          *)
(* warm-up's or a stranger's is left like an answer to a letter the        *)
(* journal does not know.                                                  *)
(***************************************************************************)
EXTENDS Naturals, Sequences, FiniteSets

CONSTANTS
  Letters,     \* letters this mailbox sends
  Kinds,       \* of messages: "reply" (or an unsubscribe, a plain bounce), "autoreply",
               \* "policy" (a 5.7 bounce)
  Timer, Hand, \* who reads: the five-minute timer, a person
  Readers,     \* which of them read at all
  CatchUp,     \* INBOX_CATCH_UP_MAX
  Page,        \* maxResults of the list
  NewerThan,   \* newer_than, in days
  MaxArrived,  \* bound: messages that arrive
  MaxFaults    \* bound: errors, restarts, cursors Google forgets

ASSUME ConstantsAssumption ==
  /\ Timer # Hand /\ Readers \subseteq {Timer, Hand}
  /\ {CatchUp, Page, NewerThan, MaxArrived, MaxFaults} \subseteq Nat

VARIABLES
  letters,  \* "none", "out" (delivered), "told" (message.sent is journaled)
  inbox,    \* what arrived, in order; the place in it is the history id
  told,     \* how often each message was journaled (counted to two)
  acted,    \* how often it moved a letter, as an auto-reply, or raised an alarm, as a bounce
  cursor,   \* of state.espInboxCursors: a place in inbox, or none
  saved,    \* the cursor in the state file
  poll,     \* each reader's pass
  skipped,  \* messages a cursor was taken past without reading them
  overlap,  \* two passes ran at the same time
  faults

vars == <<letters, inbox, told, acted, cursor, saved, poll, skipped, overlap, faults>>

NoCursor == MaxArrived + 1
Arrived == 1 .. Len(inbox)
Off == [at |-> "off", list |-> {}, newest |-> FALSE, next |-> 0, left |-> {}, acts |-> FALSE]

-----------------------------------------------------------------------------
(* Gmail: inboxSince.                                                      *)

Here(i) == ~inbox[i].gone

Since(c) == {i \in Arrived : i > c}

\* the last days of the inbox, at most a page, the newest first
Recent ==
  LET days == {i \in Arrived : Here(i) /\ inbox[i].age <= NewerThan}
  IN {i \in days : Cardinality({j \in days : j > i}) < Page}

\* the history id a read goes on from
HistoryId == Len(inbox)

\* the list, the cursor to go on from, and what the list leaves out: what came since,
\* the oldest first, or a catch-up, the newest first
Fetched(c, known) ==
  IF known /\ c # NoCursor /\ Cardinality(Since(c)) <= CatchUp
  THEN [Off EXCEPT !.at = "fetched", !.next = HistoryId, !.list = {i \in Since(c) : Here(i)}]
  ELSE [Off EXCEPT !.at = "fetched", !.next = HistoryId, !.list = Recent,
                   !.newest = Cardinality(Recent) > 1,
                   !.left = {i \in Arrived \ Recent : Here(i) /\ told[i] = 0}]

-----------------------------------------------------------------------------
(* One pass over the mailbox: pollInboxes.                                 *)

Working(r) == poll[r].at # "off"

\* slip: a pass that ends leaves its reader busy
NeverFree(r, c) == IF c.at = "off" THEN poll ELSE [poll EXCEPT ![r] = c]

Goes(r, c) == [poll EXCEPT ![r] = c]

\* startSequence: the timer's next pass begins when its last one has ended
Fetch(r) ==
  /\ ~Working(r)
  /\ \E known \in (IF faults < MaxFaults THEN BOOLEAN ELSE {TRUE}) :
       /\ poll' = Goes(r, Fetched(cursor, known))
       /\ faults' = IF known THEN faults ELSE faults + 1
  /\ overlap' = (overlap \/ \E o \in Readers \ {r} : Working(o))
  /\ UNCHANGED <<letters, inbox, told, acted, cursor, saved, skipped>>

\* slip: what an earlier pass journaled is not looked up
NotSeen(i) == FALSE

Seen(i) == told[i] > 0

\* the letter it answers is one the journal calls sent
Ours(i) == letters[inbox[i].letter] = "told"

\* what is left of a pass's list (the order of less than two messages says nothing)
Rest(c, list) == [c EXCEPT !.list = list, !.newest = @ /\ Cardinality(list) > 1, !.acts = FALSE]

\* the journal is read once for the whole list; processInbound leaves what it has seen
\* and what is not ours
ReadJournal(r) ==
  /\ poll[r].at = "fetched"
  /\ poll' = Goes(r, [Rest(poll[r], {i \in poll[r].list : ~Seen(i) /\ Ours(i)}) EXCEPT !.at = "write"])
  /\ UNCHANGED <<letters, inbox, told, acted, cursor, saved, skipped, overlap, faults>>

IsFirst(c, i) == i \in c.list /\ \A j \in c.list : IF c.newest THEN j <= i ELSE j >= i

\* recordAboutContact; then postpone, or the sender.alert of a policy bounce
WriteOne(r) ==
  /\ poll[r].at = "write"
  /\ \E i \in poll[r].list :
       /\ IsFirst(poll[r], i)
       /\ IF poll[r].acts
          THEN acted' = [acted EXCEPT ![i] = IF @ = 0 THEN 1 ELSE 2] /\ UNCHANGED told
          ELSE told' = [told EXCEPT ![i] = IF @ = 0 THEN 1 ELSE 2] /\ UNCHANGED acted
       /\ poll' = Goes(r, IF poll[r].acts \/ inbox[i].kind = "reply" THEN Rest(poll[r], poll[r].list \ {i})
                          ELSE [poll[r] EXCEPT !.acts = TRUE])
  /\ UNCHANGED <<letters, inbox, cursor, saved, skipped, overlap, faults>>

\* the list is done: the cursor, in memory and then in the file
MoveCursor(r) ==
  /\ poll[r].at = "write" /\ poll[r].list = {}
  /\ cursor' = poll[r].next /\ skipped' = skipped \cup poll[r].left
  /\ poll' = Goes(r, [poll[r] EXCEPT !.at = "save", !.next = 0, !.left = {}])
  /\ UNCHANGED <<letters, inbox, told, acted, saved, overlap, faults>>

SaveCursor(r) ==
  /\ poll[r].at = "save"
  /\ saved' = cursor
  /\ poll' = Goes(r, Off)
  /\ UNCHANGED <<letters, inbox, told, acted, cursor, skipped, overlap, faults>>

\* slip: a message that cannot be journaled is passed over
PassedOver(r) == Rest(poll[r], {i \in poll[r].list : ~IsFirst(poll[r], i)})

\* an error ends the mailbox's part of the pass
Ends(r) == Off

\* Google refuses, the journal or the state file cannot be written
Throws(r) ==
  /\ Working(r) /\ faults < MaxFaults
  /\ poll' = Goes(r, Ends(r)) /\ faults' = faults + 1
  /\ UNCHANGED <<letters, inbox, told, acted, cursor, saved, skipped, overlap>>

Restart ==
  /\ faults < MaxFaults /\ faults' = faults + 1
  /\ poll' = [r \in Readers |-> Off]
  /\ cursor' = saved
  /\ UNCHANGED <<letters, inbox, told, acted, saved, skipped, overlap>>

-----------------------------------------------------------------------------
(* Around it.                                                              *)

\* a letter goes out (recordSending, the connector), and is then journaled (recordSent)
Deliver(l) ==
  /\ letters[l] = "none"
  /\ letters' = [letters EXCEPT ![l] = "out"]
  /\ UNCHANGED <<inbox, told, acted, cursor, saved, poll, skipped, overlap, faults>>

RecordSent(l) ==
  /\ letters[l] = "out"
  /\ letters' = [letters EXCEPT ![l] = "told"]
  /\ UNCHANGED <<inbox, told, acted, cursor, saved, poll, skipped, overlap, faults>>

\* a message arrives about a letter that is out
Arrive(l, k) ==
  /\ Len(inbox) < MaxArrived /\ letters[l] # "none"
  /\ inbox' = Append(inbox, [letter |-> l, kind |-> k, age |-> 0, gone |-> FALSE,
                             known |-> letters[l] = "told"])
  /\ UNCHANGED <<letters, told, acted, cursor, saved, poll, skipped, overlap, faults>>

\* somebody deletes a message before it is read
Delete(i) ==
  /\ Here(i) /\ told[i] = 0
  /\ inbox' = [inbox EXCEPT ![i].gone = TRUE, ![i].age = 0]
  /\ UNCHANGED <<letters, told, acted, cursor, saved, poll, skipped, overlap, faults>>

DayPasses ==
  /\ \A r \in Readers : ~Working(r)
  /\ \E i \in Arrived : Here(i) /\ inbox[i].age <= NewerThan
  /\ inbox' = [i \in Arrived |-> IF Here(i) THEN [inbox[i] EXCEPT !.age = IF @ <= NewerThan THEN @ + 1 ELSE @]
                                  ELSE inbox[i]]
  /\ UNCHANGED <<letters, told, acted, cursor, saved, poll, skipped, overlap, faults>>

Init ==
  /\ letters = [l \in Letters |-> "none"] /\ inbox = <<>>
  /\ told = [i \in 1 .. MaxArrived |-> 0] /\ acted = [i \in 1 .. MaxArrived |-> 0]
  /\ cursor = NoCursor /\ saved = NoCursor
  /\ poll = [r \in Readers |-> Off] /\ skipped = {} /\ overlap = FALSE /\ faults = 0

Poll(r) ==
  \/ Fetch(r) \/ ReadJournal(r) \/ WriteOne(r)
  \/ MoveCursor(r) \/ SaveCursor(r)

Next ==
  \/ \E r \in Readers : Poll(r) \/ Throws(r)
  \/ Restart
  \/ \E l \in Letters : Deliver(l) \/ RecordSent(l)
  \/ \E l \in Letters, k \in Kinds : Arrive(l, k)
  \/ \E i \in Arrived : Delete(i)
  \/ DayPasses

Spec == Init /\ [][Next]_vars

\* the timer reads for ever, and every call it makes ends
FairSpec == Spec /\ WF_vars(Timer \in Readers /\ Poll(Timer))
-----------------------------------------------------------------------------
(* Properties.                                                             *)

TypeOK ==
  /\ letters \in [Letters -> {"none", "out", "told"}]
  /\ \A i \in Arrived : /\ inbox[i].letter \in Letters /\ inbox[i].kind \in Kinds
                        /\ inbox[i].age \in 0 .. NewerThan + 1
  /\ {cursor, saved} \subseteq 0 .. NoCursor
  /\ \A r \in Readers : /\ poll[r].at \in {"off", "fetched", "write", "save"}
                        /\ poll[r].list \subseteq Arrived /\ poll[r].next \in 0 .. Len(inbox)
                        /\ poll[r].acts \in BOOLEAN
  /\ skipped \subseteq Arrived /\ faults \in 0 .. MaxFaults

\* A message is journaled once, however often it is read: after an error in the middle
\* of a list, a restart on an older cursor, a cursor Google forgot - unless two passes
\* ran at once (processInbound).
Once == ~overlap => \A i \in Arrived : told[i] <= 1

\* An auto-reply moves the person's letter, a policy bounce raises its alarm, at most
\* once, wherever a pass is cut off (processInbound: journaled first).
ActedOnce == ~overlap => \A i \in Arrived : acted[i] <= 1

\* A message that is read again is neither journaled nor acted on again.
OnceEach == Once /\ ActedOnce

Answers(i) == i \in Arrived /\ inbox[i].known /\ Here(i)

\* No cursor, in memory or in the file, lies behind an answer that is not journaled,
\* but for those a catch-up left out; an answer to a letter that was not yet journaled
\* as sent when it arrived is not promised anything (pollInboxes).
CursorHonest ==
  \A c \in {cursor, saved} \ {NoCursor} : \A i \in 1 .. c :
    Answers(i) /\ i \notin skipped => told[i] > 0

\* Every answer to a letter the journal knew of is journaled in the end, if nobody
\* deletes it and no catch-up leaves it out.
AnswersRead ==
  \A i \in 1 .. MaxArrived :
    Answers(i) ~> (told[i] > 0 \/ ~Answers(i) \/ i \in skipped)
=============================================================================
