----------------------------- MODULE SendersProofs -----------------------------
(***************************************************************************)
(* What holds of the mailboxes (Senders) for any number of them, of single *)
(* letters, replies, checks, reviews, days and faults: at most one letter  *)
(* of each writer after a stop, one step of the ramp and one pause by the  *)
(* alarms a day, and a day's letters within the allowances and the         *)
(* domain's limit.                                                         *)
(***************************************************************************)
EXTENDS Senders, FiniteSetTheorems, TLAPS

-----------------------------------------------------------------------------
(* The shape of the state, as far as the proofs need it.                   *)

Statuses == {"active", "paused", "retired"}
Kinds == {"sending", "sent", "failed", "status", "alert", "stage", "ceiling", "domain"}

\* what waits to be appended
Entry ==
  {e \in [kind : Kinds, of : Senders \cup {NoOne}, to : Nat \cup Statuses \cup {""},
          by : Writers \cup Checks \cup Reviews \cup {Person}] :
     /\ e.by \in Writers => e.kind \in {"sending", "sent", "failed", "status"}
     /\ e.by \notin Writers => e.kind \notin {"sending", "sent", "failed"}
     /\ e.kind \notin {"domain", "alert"} => e.of \in Senders
     /\ e.kind = "stage" => e.to \in Stage
     /\ e.kind = "status" => e.to \in Statuses
     /\ e.kind = "ceiling" => e.to \in Nat}

Mailbox == [status : Statuses, stage : Stage, ceiling : Nat, moved : Nat, wrote : SUBSET Nat]

Places == {"idle", "ready", "queued", "gate", "provider", "refused"}
Letter == [at : Places, of : Senders \cup {NoOne}, ledger : [Senders -> Int], allow : [Senders -> Nat]]

Tables ==
  /\ sender \in [Senders -> Mailbox] /\ day \in Nat
  /\ used \in [Senders -> Int]

\* A letter on its way has a mailbox; one that is not begun has no allowance.
Letters ==
  /\ writer \in [Writers -> Letter]
  /\ \A w \in Writers :
       /\ writer[w].at \in {"queued", "gate", "provider", "refused"} => writer[w].of \in Senders
       /\ writer[w].at = "idle" => \A s \in Senders : writer[w].allow[s] = 0

\* Whoever waits for an append waits for one, about the mailbox it writes from.
InLine ==
  /\ queue \in Seq(Entry)
  /\ \A i \in DOMAIN queue : queue[i].by \in Writers =>
       writer[queue[i].by].at = "queued" /\ writer[queue[i].by].of = queue[i].of
  /\ \A i, j \in DOMAIN queue : queue[i].by \in Writers /\ queue[i].by = queue[j].by => i = j

BaseInv == Tables /\ Letters /\ InLine

\* What checks and reviews have still to do.
CheckJob == [at : {"idle", "next", "queued", "alarm"}, of : Senders \cup {NoOne}, todo : SUBSET Senders]
ReviewJob ==
  {r \in [at : {"idle", "next", "queued"}, of : Senders \cup {NoOne}, todo : SUBSET (Senders \X Stage)] :
     r.at = "idle" => r.todo = {}}
Works == check \in [Checks -> CheckJob] /\ review \in [Reviews -> ReviewJob]

-----------------------------------------------------------------------------
(* Small facts.                                                            *)

LEMMA AllowFacts ==
  /\ Stage \subseteq Nat \ {0}
  /\ \A k \in Stage : Allow[k] \in Nat
  /\ Len(Allow) \in Stage /\ 1 \in Stage
BY AllowAssumption DEF Stage

LEMMA MinNat ==
  ASSUME NEW a \in Nat, NEW b \in Nat
  PROVE  /\ Min({a, b}) \in Nat /\ Min({a, b}) <= a /\ Min({a, b}) <= b
         /\ Max({a, b}) \in Nat /\ Max({a, b}) >= a /\ Max({a, b}) >= b
         /\ Max({a, b}) \in {a, b}
BY DEF Min, Max

LEMMA QueueFacts ==
  ASSUME NEW S, NEW q \in Seq(S)
  PROVE  /\ \A e \in S : Append(q, e) \in Seq(S)
         /\ q # <<>> => Head(q) \in S /\ Tail(q) \in Seq(S)
OBVIOUS

\* What can send is stopped neither itself nor with its domain.
LEMMA CanSendIs ==
  ASSUME NEW s \in Senders, CanSend(s)
  PROVE  ~Stopped(s)
BY DEF CanSend, EffectiveStatus, Stopped

\* What the fold makes of a line.
LEMMA Folded ==
  ASSUME sender \in [Senders -> Mailbox], day \in Nat, NEW e \in Entry
  PROVE  /\ Fold(e) \in [Senders -> Mailbox]
         /\ \A s \in Senders :
              /\ e.kind = "stage" /\ e.of = s =>
                   Fold(e)[s].stage = e.to /\ Fold(e)[s].moved = day
              /\ ~(e.kind = "stage" /\ e.of = s) =>
                   Fold(e)[s].stage = sender[s].stage /\ Fold(e)[s].moved = sender[s].moved
<1> DEFINE o == e.of
           m == sender[o]
<1>0. ASSUME o \in Senders
      PROVE  m \in Mailbox
  BY <1>0
<1>1. CASE e.kind = "status"
  <2> DEFINE new == [m EXCEPT !.status = e.to]
  <2>1. o \in Senders /\ e.to \in Statuses
    BY <1>1 DEF Entry
  <2>2. new \in Mailbox /\ new.stage = m.stage /\ new.moved = m.moved
    BY <1>0, <2>1 DEF Mailbox
  <2>3. Fold(e) = [sender EXCEPT ![o] = new]
    BY <1>1 DEF Fold
  <2> HIDE DEF new
  <2> QED
    BY <1>1, <2>1, <2>2, <2>3
<1>2. CASE e.kind = "stage"
  <2> DEFINE one == [m EXCEPT !.stage = e.to]
             two == [one EXCEPT !.moved = day]
             new == [two EXCEPT !.wrote = {}]
  <2>1. o \in Senders /\ e.to \in Stage
    BY <1>2 DEF Entry
  <2>2. one \in Mailbox /\ one.stage = e.to
    BY <1>0, <2>1 DEF Mailbox
  <2>3. Fold(e) = [sender EXCEPT ![o] = new]
    BY <1>2, <2>1, Zenon DEF Fold
  <2> HIDE DEF one
  <2>4. two \in Mailbox /\ two.stage = e.to /\ two.moved = day
    BY <2>2 DEF Mailbox
  <2> HIDE DEF two
  <2>5. new \in Mailbox /\ new.stage = e.to /\ new.moved = day
    BY <2>4 DEF Mailbox
  <2> HIDE DEF new
  <2> QED
    BY <1>2, <2>1, <2>3, <2>5
<1>3. CASE e.kind = "ceiling"
  <2> DEFINE new == [m EXCEPT !.ceiling = e.to]
  <2>1. o \in Senders /\ e.to \in Nat
    BY <1>3 DEF Entry
  <2>2. new \in Mailbox /\ new.stage = m.stage /\ new.moved = m.moved
    BY <1>0, <2>1 DEF Mailbox
  <2>3. Fold(e) = [sender EXCEPT ![o] = new]
    BY <1>3 DEF Fold
  <2> HIDE DEF new
  <2> QED
    BY <1>3, <2>1, <2>2, <2>3
<1>4. CASE e.kind = "sent"
  <2> DEFINE new == [m EXCEPT !.wrote = @ \cup {day}]
  <2>1. o \in Senders
    BY <1>4 DEF Entry
  <2>2. new \in Mailbox /\ new.stage = m.stage /\ new.moved = m.moved
    BY <1>0, <2>1 DEF Mailbox
  <2>3. Fold(e) = [sender EXCEPT ![o] = new]
    BY <1>4 DEF Fold
  <2> HIDE DEF new
  <2> QED
    BY <1>4, <2>1, <2>2, <2>3
<1>5. CASE e.kind \notin {"status", "stage", "ceiling", "sent"}
  BY <1>5 DEF Fold
<1> QED
  BY <1>1, <1>2, <1>3, <1>4, <1>5

-----------------------------------------------------------------------------
(* Where a writer goes.                                                    *)

\* writer w is at `at' with the mailbox `of'; the others stay where they are
Becomes(w, at, of) ==
  /\ writer' \in [Writers -> Letter]
  /\ \A x \in Writers \ {w} : writer'[x] = writer[x]
  /\ writer'[w].at = at /\ writer'[w].of = of

Keeps(w) == writer'[w].ledger = writer[w].ledger /\ writer'[w].allow = writer[w].allow

LEMMA AtChanges ==
  ASSUME Letters, NEW w \in Writers, NEW at \in Places, writer' = [writer EXCEPT ![w].at = at]
  PROVE  Becomes(w, at, writer[w].of) /\ Keeps(w)
<1> DEFINE c == [writer[w] EXCEPT !.at = at]
<1>1. writer[w] \in Letter
  BY DEF Letters
<1>2. /\ c \in Letter /\ c.at = at /\ c.of = writer[w].of
      /\ c.ledger = writer[w].ledger /\ c.allow = writer[w].allow
  BY <1>1 DEF Letter
<1>3. writer' = [writer EXCEPT ![w] = c]
  OBVIOUS
<1> HIDE DEF c
<1> QED
  BY <1>2, <1>3 DEF Letters, Becomes, Keeps

LEMMA IdleIs ==
  /\ IdleWriter \in Letter /\ IdleWriter.at = "idle" /\ IdleWriter.of = NoOne
  /\ \A s \in Senders : IdleWriter.allow[s] = 0
BY DEF IdleWriter, Letter, Places

LEMMA Idles ==
  ASSUME Letters, NEW w \in Writers, writer' = [writer EXCEPT ![w] = IdleWriter]
  PROVE  Becomes(w, "idle", NoOne) /\ \A s \in Senders : writer'[w].allow[s] = 0
BY IdleIs DEF Letters, Becomes

\* After a letter a writer is ready for the next one, or idle.
LEMMA NextIs ==
  ASSUME Letters, NEW w \in Writers, NEW l \in [Senders -> Int]
  PROVE  LET c == NextLetter(w, l) IN
           /\ c \in Letter /\ c.of = NoOne
           /\ \/ c.at = "ready" /\ c.allow = writer[w].allow
              \/ c.at = "idle" /\ \A s \in Senders : c.allow[s] = 0
<1>1. writer[w] \in Letter
  BY DEF Letters
<1>2. CASE w = Pass
  <2> DEFINE one == [writer[w] EXCEPT !.at = "ready"]
             two == [one EXCEPT !.of = NoOne]
             new == [two EXCEPT !.ledger = l]
  <2>1. one \in Letter /\ one.at = "ready" /\ one.allow = writer[w].allow
    BY <1>1 DEF Letter, Places
  <2>2. NextLetter(w, l) = new
    BY <1>2 DEF NextLetter
  <2> HIDE DEF one
  <2>3. two \in Letter /\ two.at = "ready" /\ two.of = NoOne /\ two.allow = writer[w].allow
    BY <2>1 DEF Letter
  <2> HIDE DEF two
  <2>4. new \in Letter /\ new.at = "ready" /\ new.of = NoOne /\ new.allow = writer[w].allow
    BY <2>3 DEF Letter
  <2> HIDE DEF new
  <2> QED
    BY <2>2, <2>4
<1>3. CASE w # Pass
  BY <1>3, IdleIs DEF NextLetter
<1> QED
  BY <1>2, <1>3

LEMMA RememberedIs ==
  ASSUME Letters, NEW w \in Writers, NEW s \in Senders, NEW k \in {1, -1}
  PROVE  Remembered(w, s, k) \in [Senders -> Int]
<1>1. writer[w].ledger \in [Senders -> Int]
  BY DEF Letters, Letter
<1> QED
  BY <1>1 DEF Remembered

\* Who is not waiting for an append goes on by itself, or begins to wait for one.
LEMMA MovesOn ==
  ASSUME BaseInv, NEW w \in Writers, writer[w].at # "queued", NEW at, NEW of,
         Becomes(w, at, of), UNCHANGED <<sender, day, used>>,
         at \in {"queued", "gate", "provider", "refused"} => of \in Senders,
         at = "idle" => \A s \in Senders : writer'[w].allow[s] = 0,
         \/ UNCHANGED queue
         \/ at = "queued" /\ \E e \in Entry : e.by = w /\ e.of = of /\ queue' = Append(queue, e)
  PROVE  BaseInv'
<1> USE DEF BaseInv
<1>1. Tables'
  BY DEF Tables
<1>2. Letters'
  BY DEF Letters, Becomes
<1>3. CASE UNCHANGED queue
  <2>1. \A i \in DOMAIN queue : queue[i].by # w
    BY DEF InLine
  <2> QED
    BY <1>1, <1>2, <1>3, <2>1 DEF InLine, Becomes
<1>4. ASSUME at = "queued", NEW e \in Entry, e.by = w, e.of = of, queue' = Append(queue, e)
      PROVE  BaseInv'
  <2>1. \A i \in DOMAIN queue : queue[i].by # w
    BY DEF InLine
  <2>2. /\ queue' \in Seq(Entry) /\ DOMAIN queue' = DOMAIN queue \cup {Len(queue) + 1}
        /\ \A i \in DOMAIN queue : queue'[i] = queue[i]
        /\ queue'[Len(queue) + 1] = e
    BY <1>4 DEF InLine
  <2> QED
    BY <1>1, <1>2, <1>4, <2>1, <2>2 DEF InLine, Becomes
<1> QED
  BY <1>3, <1>4

\* Checks, reviews and people leave the letters alone.
LEMMA OthersPut ==
  ASSUME BaseInv, UNCHANGED <<sender, day, used, writer>>,
         \/ UNCHANGED queue
         \/ \E e \in Entry : e.by \notin Writers /\ queue' = Append(queue, e)
  PROVE  BaseInv'
<1> USE DEF BaseInv
<1>1. Tables' /\ Letters'
  BY DEF Tables, Letters
<1>2. CASE UNCHANGED queue
  BY <1>1, <1>2 DEF InLine
<1>3. ASSUME NEW e \in Entry, e.by \notin Writers, queue' = Append(queue, e)
      PROVE  BaseInv'
  <2>1. /\ queue' \in Seq(Entry) /\ DOMAIN queue' = DOMAIN queue \cup {Len(queue) + 1}
        /\ \A i \in DOMAIN queue : queue'[i] = queue[i]
        /\ queue'[Len(queue) + 1] = e
    BY <1>3 DEF InLine
  <2> QED
    BY <1>1, <1>3, <2>1 DEF InLine
<1> QED
  BY <1>2, <1>3

-----------------------------------------------------------------------------
(* What each step of a writer is.                                          *)

Sends(w, s, kind) ==
  \E e \in Entry : e.by = w /\ e.of = s /\ e.kind = kind /\ queue' = Append(queue, e)

LEMMA WriterPuts ==
  ASSUME NEW w \in Writers, NEW s \in Senders, NEW kind \in {"sending", "sent", "failed"},
         Enqueue(kind, s, "", w)
  PROVE  Sends(w, s, kind)
<1> DEFINE e == [kind |-> kind, of |-> s, to |-> "", by |-> w]
<1>1. e \in Entry /\ e.by = w /\ e.of = s /\ e.kind = kind
  BY DEF Entry, Kinds
<1> QED
  BY <1>1, Zenon DEF Enqueue, Sends

LEMMA ColdNat ==
  ASSUME Tables, NEW s \in Senders
  PROVE  ColdAllowance(s) \in Nat
<1>1. sender[s] \in Mailbox
  BY DEF Tables
<1>2. sender[s].ceiling \in Nat /\ Allow[sender[s].stage] \in Nat
  BY <1>1, AllowFacts DEF Mailbox
<1> QED
  BY <1>2, MinNat DEF ColdAllowance

LEMMA ReadFirstIs ==
  ASSUME BaseInv, NEW w \in Writers, ReadFirst(w)
  PROVE  /\ \E of \in Senders \cup {NoOne} : Becomes(w, "ready", of)
         /\ \A s \in Senders : writer'[w].allow[s] = ColdAllowance(s)
         /\ writer[w].at = "idle" /\ UNCHANGED <<journal, queue, bounds, seen>>
<1>1. PICK s \in Senders \cup {NoOne} :
        writer' = [writer EXCEPT ![w] = [at |-> "ready", of |-> s, ledger |-> used,
                                         allow |-> [t \in Senders |-> ColdAllowance(t)]]]
  BY DEF ReadFirst
<1> DEFINE c == [at |-> "ready", of |-> s, ledger |-> used,
                 allow |-> [t \in Senders |-> ColdAllowance(t)]]
<1>2. c \in Letter /\ c.at = "ready" /\ c.of = s /\ \A t \in Senders : c.allow[t] = ColdAllowance(t)
  BY ColdNat DEF BaseInv, Tables, Letter, Places
<1>3. writer' = [writer EXCEPT ![w] = c]
  BY <1>1
<1> HIDE DEF c
<1>4. Becomes(w, "ready", s) /\ \A t \in Senders : writer'[w].allow[t] = ColdAllowance(t)
  BY <1>2, <1>3 DEF Becomes, BaseInv, Letters
<1> QED
  BY <1>4 DEF ReadFirst

LEMMA AttemptIs ==
  ASSUME BaseInv, NEW w \in Writers, NEW s \in Senders, Attempt(w, s)
  PROVE  /\ Becomes(w, "queued", s) /\ Keeps(w) /\ Sends(w, s, "sending")
         /\ writer[w].at = "ready" /\ writer[w].ledger[s] < writer[w].allow[s]
         /\ UNCHANGED <<journal, bounds, seen>>
<1> DEFINE one == [writer[w] EXCEPT !.at = "queued"]
           new == [one EXCEPT !.of = s]
<1>1. writer[w] \in Letter
  BY DEF BaseInv, Letters
<1>2. /\ one \in Letter /\ one.at = "queued"
      /\ one.ledger = writer[w].ledger /\ one.allow = writer[w].allow
  BY <1>1 DEF Letter, Places
<1>3. writer' = [writer EXCEPT ![w] = new]
  BY Zenon DEF Attempt
<1> HIDE DEF one
<1>4. /\ new \in Letter /\ new.at = "queued" /\ new.of = s
      /\ new.ledger = writer[w].ledger /\ new.allow = writer[w].allow
  BY <1>2 DEF Letter
<1> HIDE DEF new
<1>5. Becomes(w, "queued", s) /\ Keeps(w)
  BY <1>3, <1>4 DEF Becomes, Keeps, BaseInv, Letters
<1>6. Sends(w, s, "sending")
  BY WriterPuts DEF Attempt
<1>7. Room(w, s)
  BY DEF Attempt
<1>8. writer[w].ledger[s] < writer[w].allow[s]
  BY <1>7, Zenon DEF Room
<1> QED
  BY <1>5, <1>6, <1>8 DEF Attempt

LEMMA QuickReplyIs ==
  ASSUME BaseInv, NEW w \in Writers, NEW s \in Senders, QuickReply(w, s)
  PROVE  /\ Becomes(w, "queued", s) /\ Keeps(w) /\ Sends(w, s, "sending")
         /\ writer[w].at = "idle" /\ w \in Replies
         /\ UNCHANGED <<journal, bounds, seen>>
<1> DEFINE one == [writer[w] EXCEPT !.at = "queued"]
           new == [one EXCEPT !.of = s]
<1>1. writer[w] \in Letter
  BY DEF BaseInv, Letters
<1>2. /\ one \in Letter /\ one.at = "queued"
      /\ one.ledger = writer[w].ledger /\ one.allow = writer[w].allow
  BY <1>1 DEF Letter, Places
<1>3. writer' = [writer EXCEPT ![w] = new]
  BY Zenon DEF QuickReply
<1> HIDE DEF one
<1>4. /\ new \in Letter /\ new.at = "queued" /\ new.of = s
      /\ new.ledger = writer[w].ledger /\ new.allow = writer[w].allow
  BY <1>2 DEF Letter
<1> HIDE DEF new
<1>5. Becomes(w, "queued", s) /\ Keeps(w)
  BY <1>3, <1>4 DEF Becomes, Keeps, BaseInv, Letters
<1>6. Sends(w, s, "sending")
  BY WriterPuts DEF QuickReply
<1> QED
  BY <1>5, <1>6 DEF QuickReply

LEMMA GateIs ==
  ASSUME BaseInv, NEW w \in Writers, Gate(w)
  PROVE  /\ \/ Becomes(w, "provider", writer[w].of) /\ CanSend(writer[w].of) /\ UNCHANGED queue
            \/ Becomes(w, "queued", writer[w].of) /\ Sends(w, writer[w].of, "failed")
         /\ Keeps(w) /\ writer[w].at = "gate" /\ writer[w].of \in Senders
         /\ UNCHANGED <<journal, bounds, seen>>
<1>1. writer[w].of \in Senders /\ "provider" \in Places /\ "queued" \in Places
  BY DEF Gate, BaseInv, Letters, Places
<1> QED
  BY <1>1, AtChanges, WriterPuts DEF Gate, BaseInv

LEMMA AcceptedIs ==
  ASSUME BaseInv, NEW w \in Writers, Accepted(w)
  PROVE  /\ Becomes(w, "queued", writer[w].of) /\ Sends(w, writer[w].of, "sent") /\ Keeps(w)
         /\ writer[w].at = "provider" /\ writer[w].of \in Senders /\ Taken(w)
         /\ UNCHANGED <<journal, bounds, unheard, top, blind, base>>
<1>1. writer[w].of \in Senders /\ "queued" \in Places
  BY DEF Accepted, BaseInv, Letters, Places
<1> QED
  BY <1>1, AtChanges, WriterPuts DEF Accepted, BaseInv

LEMMA AnswerLostIs ==
  ASSUME BaseInv, NEW w \in Writers, AnswerLost(w)
  PROVE  /\ \/ /\ \/ Becomes(w, "ready", NoOne) /\ writer'[w].allow = writer[w].allow
                  \/ Becomes(w, "idle", NoOne) /\ \A s \in Senders : writer'[w].allow[s] = 0
               /\ UNCHANGED <<queue, unheard>>
            \/ /\ Becomes(w, "queued", writer[w].of) /\ Sends(w, writer[w].of, "failed") /\ Keeps(w)
               /\ unheard' = [unheard EXCEPT ![writer[w].of] = @ + 1]
         /\ writer[w].at = "provider" /\ writer[w].of \in Senders /\ Taken(w)
         /\ UNCHANGED <<journal, day, top, blind, base>>
<1>1. writer[w].of \in Senders /\ "queued" \in Places /\ writer[w].ledger \in [Senders -> Int]
  BY DEF AnswerLost, BaseInv, Letters, Letter, Places
<1>2. CASE w = Pass /\ writer' = [writer EXCEPT ![w] = NextLetter(w, writer[w].ledger)]
           /\ UNCHANGED <<queue, unheard>>
  <2>1. \/ Becomes(w, "ready", NoOne) /\ writer'[w].allow = writer[w].allow
        \/ Becomes(w, "idle", NoOne) /\ \A s \in Senders : writer'[w].allow[s] = 0
    BY <1>1, <1>2, NextIs DEF Becomes, BaseInv, Letters
  <2> QED
    BY <1>1, <1>2, <2>1 DEF AnswerLost
<1>3. CASE w # Pass /\ Enqueue("failed", writer[w].of, "", w)
           /\ writer' = [writer EXCEPT ![w].at = "queued"]
           /\ unheard' = [unheard EXCEPT ![writer[w].of] = @ + 1]
  BY <1>1, <1>3, AtChanges, WriterPuts DEF AnswerLost, BaseInv
<1> QED
  BY <1>2, <1>3 DEF AnswerLost

LEMMA RefusedIs ==
  ASSUME BaseInv, NEW w \in Writers, Refused(w) \/ AfterPause(w)
  PROVE  /\ Becomes(w, "queued", writer[w].of) /\ Keeps(w)
         /\ Sends(w, writer[w].of, "failed") \/ Sends(w, writer[w].of, "status")
         /\ writer[w].at \in {"provider", "refused"} /\ writer[w].of \in Senders
         /\ UNCHANGED <<journal, bounds, seen>>
<1>1. writer[w].of \in Senders /\ "queued" \in Places
  BY DEF Refused, AfterPause, BaseInv, Letters, Places
<1>2. CASE Enqueue("failed", writer[w].of, "", w)
  BY <1>1, <1>2, AtChanges, WriterPuts DEF Refused, AfterPause, BaseInv
<1>3. CASE Enqueue("status", writer[w].of, "paused", w)
  <2>1. Sends(w, writer[w].of, "status")
    BY <1>1, <1>3 DEF Enqueue, Sends, Entry, Kinds, Statuses
  <2> QED
    BY <1>1, <2>1, AtChanges DEF Refused, AfterPause, BaseInv
<1> QED
  BY <1>2, <1>3 DEF Refused, AfterPause

-----------------------------------------------------------------------------
(* What an append that lands, or fails, is.                                *)

\* writer w is done with its letter
Ended(w) ==
  \/ Becomes(w, "ready", NoOne) /\ writer'[w].allow = writer[w].allow
  \/ Becomes(w, "idle", NoOne) /\ \A s \in Senders : writer'[w].allow[s] = 0

LEMMA HeadIs ==
  ASSUME BaseInv, queue # <<>>
  PROVE  /\ Head(queue) \in Entry /\ Head(queue) = queue[1] /\ 1 \in DOMAIN queue
         /\ Head(queue).by \in Writers =>
              /\ writer[Head(queue).by].at = "queued"
              /\ writer[Head(queue).by].of = Head(queue).of
              /\ Head(queue).of \in Senders
<1>1. queue \in Seq(Entry)
  BY DEF BaseInv, InLine
<1>2. Head(queue) \in Entry /\ Head(queue) = queue[1] /\ 1 \in DOMAIN queue
  BY <1>1
<1>3. Head(queue).by \in Writers => Head(queue).of \in Senders
  BY <1>2 DEF Entry
<1> QED
  BY <1>2, <1>3 DEF BaseInv, InLine

LEMMA EndedIs ==
  ASSUME Letters, NEW w \in Writers, NEW l \in [Senders -> Int],
         writer' = [writer EXCEPT ![w] = NextLetter(w, l)]
  PROVE  Ended(w)
BY NextIs DEF Ended, Becomes, Letters

\* The writer whose line lands goes on: to the gate, to the report of a refusal, or
\* to its next letter.
LEMMA LandedWriter ==
  ASSUME BaseInv, Lands, NEW w \in Writers, Head(queue).by = w
  PROVE  /\ Head(queue).kind = "sending" => Becomes(w, "gate", Head(queue).of)
                                            /\ writer'[w].allow = writer[w].allow
         /\ Head(queue).kind = "status" => Becomes(w, "refused", Head(queue).of) /\ Keeps(w)
         /\ Head(queue).kind \in {"failed", "sent"} => Ended(w)
<1> DEFINE e == Head(queue)
<1>1. /\ e \in Entry /\ e.of \in Senders /\ writer[w].of = e.of /\ queue # <<>>
      /\ e.kind \in {"sending", "sent", "failed", "status"}
  BY HeadIs DEF Lands, Entry
<1>2. Letters /\ writer[w] \in Letter /\ writer[w].ledger \in [Senders -> Int]
  BY DEF BaseInv, Letters, Letter
<1>3. writer' = [writer EXCEPT ![w] = WriterGoesOn(e)]
  BY DEF Lands, Landed
<1>4. CASE e.kind = "sending"
  <2> DEFINE l == Remembered(w, e.of, 1)
             one == [writer[w] EXCEPT !.at = "gate"]
             new == [one EXCEPT !.ledger = l]
  <2>1. l \in [Senders -> Int]
    BY <1>1, <1>2, RememberedIs
  <2>2. WriterGoesOn(e) = new
    BY <1>4 DEF WriterGoesOn
  <2> HIDE DEF l
  <2>3. one \in Letter /\ one.at = "gate" /\ one.of = e.of /\ one.allow = writer[w].allow
    BY <1>1, <1>2 DEF Letter, Places
  <2> HIDE DEF one
  <2>4. new \in Letter /\ new.at = "gate" /\ new.of = e.of /\ new.allow = writer[w].allow
    BY <2>1, <2>3 DEF Letter
  <2> HIDE DEF new
  <2> QED
    BY <1>2, <1>3, <1>4, <2>2, <2>4 DEF Becomes, Letters
<1>5. CASE e.kind = "status"
  <2>1. writer' = [writer EXCEPT ![w].at = "refused"]
    BY <1>3, <1>5 DEF WriterGoesOn
  <2>2. "refused" \in Places
    BY DEF Places
  <2> QED
    BY <1>1, <1>2, <1>5, <2>1, <2>2, AtChanges
<1>6. CASE e.kind = "failed"
  <2>1. Remembered(w, e.of, -1) \in [Senders -> Int]
    BY <1>1, <1>2, RememberedIs
  <2>2. writer' = [writer EXCEPT ![w] = NextLetter(w, Remembered(w, e.of, -1))]
    BY <1>3, <1>6 DEF WriterGoesOn
  <2> QED
    BY <1>2, <1>6, <2>1, <2>2, EndedIs
<1>7. CASE e.kind = "sent"
  <2>1. writer' = [writer EXCEPT ![w] = NextLetter(w, writer[w].ledger)]
    BY <1>3, <1>7 DEF WriterGoesOn
  <2> QED
    BY <1>2, <1>7, <2>1, EndedIs
<1> QED
  BY <1>1, <1>4, <1>5, <1>6, <1>7

\* The first of the line goes; only its writer may move.
LEMMA LineMoves ==
  ASSUME BaseInv, queue # <<>>, queue' = Tail(queue),
         \A w \in Writers : w # Head(queue).by => writer'[w] = writer[w]
  PROVE  InLine'
<1>1. queue \in Seq(Entry) /\ Head(queue) = queue[1] /\ 1 \in DOMAIN queue
  BY HeadIs DEF BaseInv, InLine
<1>2. /\ queue' \in Seq(Entry)
      /\ \A i \in DOMAIN queue' : i + 1 \in DOMAIN queue /\ i + 1 # 1 /\ queue'[i] = queue[i + 1]
  BY <1>1
<1>3. \A i \in DOMAIN queue' : queue'[i].by \in Writers =>
        queue'[i].by # Head(queue).by /\ writer[queue'[i].by].at = "queued"
        /\ writer[queue'[i].by].of = queue'[i].of
  BY <1>1, <1>2 DEF BaseInv, InLine
<1>4. \A i, j \in DOMAIN queue' : queue'[i].by \in Writers /\ queue'[i].by = queue'[j].by => i = j
  <2> TAKE i, j \in DOMAIN queue'
  <2> HAVE queue'[i].by \in Writers /\ queue'[i].by = queue'[j].by
  <2>1. i + 1 = j + 1
    BY <1>2 DEF BaseInv, InLine
  <2>2. i \in Nat /\ j \in Nat
    BY <1>2
  <2> QED
    BY <2>1, <2>2
<1> QED
  BY <1>2, <1>3, <1>4 DEF InLine

LEMMA LedgerIs ==
  ASSUME Tables, NEW e \in Entry
  PROVE  /\ Ledger(e) \in [Senders -> Int]
         /\ \A s \in Senders :
              Ledger(e)[s] = IF e.of # s THEN used[s]
                             ELSE IF e.kind = "sending" THEN used[s] + 1
                             ELSE IF e.kind = "failed" THEN used[s] - 1
                             ELSE used[s]
<1>1. CASE e.kind = "sending"
  <2>1. e.of \in Senders /\ Ledger(e) = [used EXCEPT ![e.of] = @ + 1]
    BY <1>1 DEF Ledger, Entry
  <2> QED
    BY <1>1, <2>1 DEF Tables
<1>2. CASE e.kind = "failed"
  <2>1. e.of \in Senders /\ Ledger(e) = [used EXCEPT ![e.of] = @ - 1]
    BY <1>2 DEF Ledger, Entry
  <2> QED
    BY <1>2, <2>1 DEF Tables
<1>3. CASE e.kind \notin {"sending", "failed"}
  BY <1>3 DEF Ledger, Tables
<1> QED
  BY <1>1, <1>2, <1>3

LEMMA WriterMoves ==
  ASSUME Letters, NEW w \in Writers, NEW at, NEW of, Becomes(w, at, of),
         at \in {"queued", "gate", "provider", "refused"} => of \in Senders,
         at = "idle" => \A s \in Senders : writer'[w].allow[s] = 0
  PROVE  Letters' /\ \A x \in Writers : x # w => writer'[x] = writer[x]
BY DEF Letters, Becomes

LEMMA LandsBase ==
  ASSUME BaseInv, Lands
  PROVE  BaseInv'
<1> DEFINE e == Head(queue)
<1>1. e \in Entry /\ queue # <<>> /\ Tables
  BY HeadIs DEF Lands, BaseInv
<1>2. sender' = Fold(e) /\ used' = Ledger(e) /\ day' = day
  BY DEF Lands, bounds
<1>3. Tables'
  BY <1>1, <1>2, Folded, LedgerIs DEF Tables
<1>4. CASE e.by \in Writers
  <2> DEFINE w == e.by
  <2>1. e.of \in Senders /\ e.kind \in {"sending", "sent", "failed", "status"} /\ w \in Writers
    BY <1>1, <1>4 DEF Entry
  <2>2. Becomes(w, "gate", e.of) \/ Becomes(w, "refused", e.of) \/ Ended(w)
    BY <2>1, LandedWriter
  <2> HIDE DEF w, e
  <2>3. Letters' /\ \A x \in Writers : x # w => writer'[x] = writer[x]
    BY <2>1, <2>2, WriterMoves DEF BaseInv, Ended
  <2> USE DEF w, e
  <2>4. InLine'
    BY <1>1, <2>3, LineMoves DEF Lands
  <2> QED
    BY <1>3, <2>3, <2>4 DEF BaseInv
<1>5. CASE e.by \notin Writers
  <2>1. writer' = writer
    BY <1>5 DEF Lands, Landed
  <2>2. Letters'
    BY <2>1 DEF BaseInv, Letters
  <2>3. InLine'
    BY <1>1, <2>1, LineMoves DEF Lands
  <2> QED
    BY <1>3, <2>2, <2>3 DEF BaseInv
<1> QED
  BY <1>4, <1>5

-----------------------------------------------------------------------------
(* An append that fails, and what checks, reviews and people do.           *)

LEMMA LandFailsBase ==
  ASSUME BaseInv, LandFails
  PROVE  /\ BaseInv'
         /\ \A w \in Writers : writer'[w] # writer[w] => writer'[w].at \in {"idle", "ready"}
<1> DEFINE e == Head(queue)
           unsaid == e.by \in Singles \cup Replies /\ e.kind \in {"sent", "status"}
           f == [kind |-> "failed", of |-> e.of, to |-> "", by |-> e.by]
<1>1. /\ e \in Entry /\ e = queue[1] /\ queue # <<>> /\ queue \in Seq(Entry)
      /\ Letters /\ writer \in [Writers -> Letter]
  BY HeadIs DEF LandFails, BaseInv, InLine, Letters
<1>2. Tables'
  BY DEF BaseInv, Tables, LandFails, journal
<1>3. CASE unsaid
  <2>1. writer' = writer /\ queue' = Append(Tail(queue), f) /\ e.by \in Writers
    BY <1>3 DEF LandFails, Writers
  <2>2. /\ writer[e.by].at = "queued" /\ writer[e.by].of = e.of /\ e.of \in Senders
    BY <1>1, <2>1, HeadIs
  <2>3. f \in Entry
    BY <1>1, <2>1, <2>2 DEF Entry, Kinds
  <2>4. f.by = e.by /\ f.of = e.of
    OBVIOUS
  <2> HIDE DEF f
  <2>5. /\ queue' \in Seq(Entry) /\ DOMAIN queue' = 1 .. Len(queue)
        /\ \A i \in 1 .. Len(queue) : i # Len(queue) =>
             i + 1 \in DOMAIN queue /\ i + 1 # 1 /\ queue'[i] = queue[i + 1]
        /\ queue'[Len(queue)] = f
    BY <1>1, <2>1, <2>3
  <2>6. \A i \in DOMAIN queue' : i # Len(queue) => queue'[i].by # e.by
    BY <1>1, <2>1, <2>5 DEF BaseInv, InLine
  <2>7. \A i \in DOMAIN queue' : queue'[i].by \in Writers =>
          writer'[queue'[i].by].at = "queued" /\ writer'[queue'[i].by].of = queue'[i].of
    <3> TAKE i \in DOMAIN queue'
    <3>1. CASE i = Len(queue)
      BY <3>1, <2>1, <2>2, <2>4, <2>5
    <3>2. CASE i # Len(queue)
      BY <3>2, <2>1, <2>5 DEF BaseInv, InLine
    <3> QED
      BY <3>1, <3>2
  <2>8. \A i, j \in DOMAIN queue' : queue'[i].by \in Writers /\ queue'[i].by = queue'[j].by => i = j
    <3> TAKE i, j \in DOMAIN queue'
    <3> HAVE queue'[i].by \in Writers /\ queue'[i].by = queue'[j].by
    <3>1. CASE i = Len(queue) \/ j = Len(queue)
      BY <3>1, <2>4, <2>5, <2>6
    <3>2. CASE i # Len(queue) /\ j # Len(queue)
      <4>1. i + 1 = j + 1
        BY <3>2, <2>5 DEF BaseInv, InLine
      <4>2. i \in Nat /\ j \in Nat
        BY <2>5
      <4> QED
        BY <4>1, <4>2
    <3> QED
      BY <3>1, <3>2
  <2> QED
    BY <1>1, <1>2, <2>1, <2>5, <2>7, <2>8 DEF BaseInv, InLine, Letters
<1>4. CASE ~unsaid /\ e.by \in Writers
  <2> DEFINE w == e.by
  <2>1. queue' = Tail(queue) /\ w \in Writers /\ writer[w].ledger \in [Senders -> Int]
    BY <1>1, <1>4 DEF LandFails, Letter
  <2>2. \/ writer' = [writer EXCEPT ![w] = IdleWriter]
        \/ writer' = [writer EXCEPT ![w] = NextLetter(w, writer[w].ledger)]
    BY <1>4 DEF LandFails
  <2> HIDE DEF w, unsaid
  <2>3. Ended(w)
    BY <1>1, <2>1, <2>2, Idles, EndedIs DEF Ended
  <2>4. Letters' /\ (\A x \in Writers : x # w => writer'[x] = writer[x])
        /\ writer'[w].at \in {"idle", "ready"}
    BY <1>1, <2>1, <2>3, WriterMoves DEF Ended, Becomes
  <2>5. InLine'
    BY <1>1, <2>1, <2>4, LineMoves DEF w
  <2> QED
    BY <1>2, <2>4, <2>5 DEF BaseInv
<1>5. CASE e.by \notin Writers
  <2>1. ~unsaid
    BY <1>5 DEF Writers
  <2>2. queue' = Tail(queue) /\ writer' = writer
    <3>1. e.kind # "failed"
      BY <1>1, <1>5 DEF Entry
    <3> QED
      BY <1>5, <2>1, <3>1 DEF LandFails
  <2>3. InLine'
    BY <1>1, <2>2, LineMoves
  <2> QED
    BY <1>1, <1>2, <2>2, <2>3 DEF BaseInv, Letters
<1> QED
  BY <1>3, <1>4, <1>5

Others ==
  \/ \E s \in Senders : PolicyBounce(s)
  \/ \E k \in Checks : CheckReads(k) \/ CheckPauses(k) \/ CheckRaises(k)
  \/ \E v \in Reviews : ReviewReads(v) \/ ReviewSteps(v)
  \/ SetSenderStatus \/ SetDomainStatus \/ UpdateStage \/ UpdateCeiling

\* What they append: a step of the ramp comes from a review's list, or from a person.
Puts(e) ==
  /\ e \in Entry /\ e.by \notin Writers /\ queue' = Append(queue, e)
  /\ e.kind = "stage" =>
       \/ e.by = Person
       \/ \E v \in Reviews : \E up \in review[v].todo : e.of = up[1] /\ e.to = up[2]

LEMMA OthersAre ==
  ASSUME Works, Others
  PROVE  /\ UNCHANGED queue \/ \E e : Puts(e)
         /\ UNCHANGED <<sender, domain, used, day, writer, late, base>>
<1> DEFINE By == Checks \cup Reviews \cup {Person}
<1>1. ASSUME NEW kind \in Kinds \ {"sending", "sent", "failed"}, NEW of \in Senders \cup {NoOne},
             NEW to \in Nat \cup Statuses \cup {""}, NEW by \in By,
             kind \notin {"domain", "alert"} => of \in Senders,
             kind = "stage" => to \in Stage /\ (\/ by = Person
                                               \/ \E v \in Reviews : <<of, to>> \in review[v].todo),
             kind = "status" => to \in Statuses,
             kind = "ceiling" => to \in Nat,
             Enqueue(kind, of, to, by)
      PROVE  \E e : Puts(e)
  <2> DEFINE e == [kind |-> kind, of |-> of, to |-> to, by |-> by]
  <2>1. e \in Entry /\ e.by \notin Writers
    BY <1>1, ActorsAssumption DEF Entry
  <2>2. queue' = Append(queue, e)
    BY <1>1 DEF Enqueue
  <2>3. e.kind = "stage" => \/ e.by = Person
                            \/ \E v \in Reviews : \E up \in review[v].todo : e.of = up[1] /\ e.to = up[2]
    <3> HAVE e.kind = "stage"
    <3>1. CASE by = Person
      BY <3>1
    <3>2. ASSUME NEW v \in Reviews, <<of, to>> \in review[v].todo
          PROVE  \E up \in review[v].todo : e.of = up[1] /\ e.to = up[2]
      BY <3>2
    <3> QED
      BY <1>1, <3>1, <3>2
  <2> QED
    BY <2>1, <2>2, <2>3 DEF Puts
<1>2. \A k \in Kinds : k \in Kinds
  OBVIOUS
<1>3. CASE \E s \in Senders : PolicyBounce(s)
  BY <1>3 DEF PolicyBounce, bounds, seen
<1>4. CASE \E k \in Checks : CheckReads(k)
  BY <1>4 DEF CheckReads, journal, seen
<1>5. ASSUME NEW k \in Checks, CheckPauses(k) \/ CheckRaises(k)
      PROVE  /\ UNCHANGED queue \/ \E e : Puts(e)
             /\ UNCHANGED <<sender, domain, used, day, writer, late, base>>
  <2>1. check[k] \in CheckJob /\ k \in By
    BY DEF Works
  <2>2. ASSUME NEW s \in check[k].todo, Enqueue("status", s, "paused", k)
        PROVE  \E e : Puts(e)
    <3>1. s \in Senders
      BY <2>1 DEF CheckJob
    <3> QED
      BY <1>1, <2>1, <2>2, <3>1 DEF Kinds, Statuses
  <2>3. ASSUME Enqueue("alert", check[k].of, "", k)
        PROVE  \E e : Puts(e)
    <3>1. check[k].of \in Senders \cup {NoOne}
      BY <2>1 DEF CheckJob
    <3> QED
      BY <1>1, <2>1, <2>3, <3>1 DEF Kinds
  <2>4. UNCHANGED <<sender, domain, used, day, writer, late, base>>
    BY <1>5 DEF CheckPauses, CheckRaises, journal, bounds, seen
  <2> QED
    BY <1>5, <2>2, <2>3, <2>4 DEF CheckPauses, CheckRaises
<1>6. CASE \E v \in Reviews : ReviewReads(v)
  BY <1>6 DEF ReviewReads, journal, bounds, seen
<1>7. ASSUME NEW v \in Reviews, ReviewSteps(v)
      PROVE  /\ UNCHANGED queue \/ \E e : Puts(e)
             /\ UNCHANGED <<sender, domain, used, day, writer, late, base>>
  <2>1. review[v] \in ReviewJob /\ v \in By
    BY DEF Works
  <2>2. ASSUME NEW up \in review[v].todo, Enqueue("stage", up[1], up[2], v)
        PROVE  \E e : Puts(e)
    <3>1. up[1] \in Senders /\ up[2] \in Stage /\ up = <<up[1], up[2]>>
      BY <2>1 DEF ReviewJob
    <3>2. up[2] \in Nat
      BY <3>1, AllowFacts
    <3> QED
      BY <1>1, <2>1, <2>2, <3>1, <3>2 DEF Kinds
  <2>3. UNCHANGED <<sender, domain, used, day, writer, late, base>>
    BY <1>7 DEF ReviewSteps, journal, bounds, seen
  <2>4. UNCHANGED queue \/ \E up \in review[v].todo : Enqueue("stage", up[1], up[2], v)
    BY <1>7 DEF ReviewSteps
  <2> QED
    BY <2>2, <2>3, <2>4
<1>8. CASE SetSenderStatus
  BY <1>1, <1>8 DEF SetSenderStatus, Kinds, Statuses, journal, seen
<1>9. CASE SetDomainStatus
  BY <1>1, <1>9 DEF SetDomainStatus, Kinds, Statuses, journal, seen
<1>10. CASE UpdateStage
  BY <1>1, <1>10, AllowFacts DEF UpdateStage, Kinds, journal, seen
<1>11. CASE UpdateCeiling
  <2>1. PICK s \in Senders, to \in 0 .. Allow[Len(Allow)] : Enqueue("ceiling", s, to, Person)
    BY <1>11 DEF UpdateCeiling
  <2>2. to \in Nat
    OBVIOUS
  <2>3. \E e : Puts(e)
    BY <1>1, <2>1, <2>2 DEF Kinds
  <2> QED
    BY <1>11, <2>3 DEF UpdateCeiling, journal, seen
<1> QED
  BY <1>3, <1>4, <1>5, <1>6, <1>7, <1>8, <1>9, <1>10, <1>11 DEF Others

-----------------------------------------------------------------------------
(* What has still to be done keeps its shape.                              *)

LEMMA CheckMoves ==
  ASSUME Works, NEW k \in Checks, NEW at \in {"idle", "next", "queued", "alarm"},
         NEW of \in Senders \cup {NoOne},
         check' = [check EXCEPT ![k].at = at] \/ check' = [check EXCEPT ![k].at = at, ![k].of = of]
  PROVE  check' \in [Checks -> CheckJob]
<1> DEFINE one == [check[k] EXCEPT !.at = at]
           two == [one EXCEPT !.of = of]
<1>1. check \in [Checks -> CheckJob] /\ check[k] \in CheckJob
  BY DEF Works
<1>2. one \in CheckJob
  BY <1>1 DEF CheckJob
<1>3. check' = [check EXCEPT ![k] = one] \/ check' = [check EXCEPT ![k] = two]
  BY Zenon
<1> HIDE DEF one
<1>4. two \in CheckJob
  BY <1>2 DEF CheckJob
<1> HIDE DEF two
<1> QED
  BY <1>1, <1>2, <1>3, <1>4

LEMMA IdleWorkIs == IdleWork \in CheckJob /\ IdleWork \in ReviewJob /\ IdleWork.todo = {}
BY DEF IdleWork, CheckJob, ReviewJob

LEMMA CheckSteps ==
  ASSUME Works, NEW k \in Checks, CheckReads(k) \/ CheckPauses(k) \/ CheckRaises(k)
  PROVE  check' \in [Checks -> CheckJob] /\ review' = review
<1>1. check \in [Checks -> CheckJob] /\ check[k] \in CheckJob
  BY DEF Works
<1>2. CASE CheckReads(k)
  <2>1. PICK todo \in SUBSET Senders :
          check' = [check EXCEPT ![k] = [at |-> "next", of |-> NoOne, todo |-> todo]]
    BY <1>2 DEF CheckReads
  <2>2. [at |-> "next", of |-> NoOne, todo |-> todo] \in CheckJob
    BY DEF CheckJob
  <2> QED
    BY <1>1, <1>2, <2>1, <2>2 DEF CheckReads
<1>3. CASE CheckPauses(k)
  <2>1. PICK s \in check[k].todo : \/ check' = [check EXCEPT ![k].at = "queued", ![k].of = s]
                                   \/ check' = [check EXCEPT ![k].at = "alarm", ![k].of = s]
    BY <1>3 DEF CheckPauses
  <2>2. s \in Senders \cup {NoOne}
    BY <1>1 DEF CheckJob
  <2> QED
    BY <1>3, <2>1, <2>2, CheckMoves DEF CheckPauses
<1>4. CASE CheckRaises(k)
  <2>1. NoOne \in Senders \cup {NoOne}
    OBVIOUS
  <2> QED
    BY <1>4, <2>1, CheckMoves DEF CheckRaises
<1> QED
  BY <1>2, <1>3, <1>4

\* A review only crosses things off.
Shrinks == \A v \in Reviews : review'[v].todo \subseteq review[v].todo

LEMMA ReviewMoves ==
  ASSUME Works, NEW v \in Reviews, NEW r \in ReviewJob, r.todo \subseteq review[v].todo,
         review' = [review EXCEPT ![v] = r]
  PROVE  review' \in [Reviews -> ReviewJob] /\ Shrinks
BY DEF Works, Shrinks

LEMMA ReviewStepsShrink ==
  ASSUME Works, NEW v \in Reviews, ReviewSteps(v)
  PROVE  review' \in [Reviews -> ReviewJob] /\ Shrinks
<1>1. review[v] \in ReviewJob /\ review[v].at = "next"
  BY DEF Works, ReviewSteps
<1>2. PICK up \in review[v].todo :
        \/ review' = [review EXCEPT ![v] = [at |-> "queued", of |-> up[1], todo |-> review[v].todo \ {up}]]
        \/ review' = [review EXCEPT ![v] = IF review[v].todo \ {up} = {} THEN IdleWork
                                            ELSE [@ EXCEPT !.todo = review[v].todo \ {up}]]
        \/ review' = [review EXCEPT ![v] = IdleWork]
  BY DEF ReviewSteps
<1> DEFINE rest == review[v].todo \ {up}
           one == [at |-> "queued", of |-> up[1], todo |-> rest]
           two == [review[v] EXCEPT !.todo = rest]
<1>3. one \in ReviewJob /\ one.todo \subseteq review[v].todo
  BY <1>1 DEF ReviewJob
<1>4. two \in ReviewJob /\ two.todo \subseteq review[v].todo
  BY <1>1 DEF ReviewJob
<1>5. \/ review' = [review EXCEPT ![v] = one] \/ review' = [review EXCEPT ![v] = two]
      \/ review' = [review EXCEPT ![v] = IdleWork]
  BY <1>2
<1> HIDE DEF one, two
<1> QED
  BY <1>3, <1>4, <1>5, ReviewMoves, IdleWorkIs

LEMMA LandsWorks ==
  ASSUME BaseInv, Works, Lands
  PROVE  Works' /\ Shrinks
<1> DEFINE e == Head(queue)
           k == e.by
<1>1. check' \in [Checks -> CheckJob]
  <2>1. NoOne \in Senders \cup {NoOne}
    OBVIOUS
  <2>2. \/ check' = check
        \/ k \in Checks /\ check' = [check EXCEPT ![k].at = "alarm"]
        \/ k \in Checks /\ check' = [check EXCEPT ![k] = AfterAlarm(k)]
    BY DEF Lands, Landed
  <2>3. CASE k \in Checks /\ check' = [check EXCEPT ![k] = AfterAlarm(k)]
    <3>1. check[k] \in CheckJob
      BY <2>3 DEF Works
    <3>2. AfterAlarm(k) \in CheckJob
      BY <3>1, IdleWorkIs DEF AfterAlarm, CheckJob
    <3> QED
      BY <2>3, <3>2 DEF Works
  <2> QED
    BY <2>1, <2>2, <2>3, CheckMoves DEF Works
<1>2. review' \in [Reviews -> ReviewJob] /\ Shrinks
  <2>1. CASE k \notin Reviews
    BY <2>1 DEF Lands, Landed, Works, Shrinks
  <2>2. CASE k \in Reviews
    <3> DEFINE one == [review[k] EXCEPT !.at = "next"]
               two == [one EXCEPT !.of = NoOne]
               new == IF review[k].todo = {} THEN IdleWork ELSE two
    <3>1. review[k] \in ReviewJob
      BY <2>2 DEF Works
    <3>2. review' = [review EXCEPT ![k] = new]
      BY <2>2, Zenon DEF Lands, Landed
    <3>3. CASE review[k].todo # {}
      <4>1. one \in ReviewJob /\ one.at = "next" /\ one.todo = review[k].todo
        BY <3>1, <3>3 DEF ReviewJob
      <4>2. new = two
        BY <3>3
      <4> HIDE DEF one
      <4>3. two \in ReviewJob /\ two.todo = review[k].todo
        BY <4>1, <3>3 DEF ReviewJob
      <4> HIDE DEF two, new, k
      <4> QED
        BY <2>2, <3>2, <4>2, <4>3, ReviewMoves
    <3>4. CASE review[k].todo = {}
      BY <2>2, <3>2, <3>4, ReviewMoves, IdleWorkIs
    <3> QED
      BY <3>3, <3>4
  <2> QED
    BY <2>1, <2>2
<1> QED
  BY <1>1, <1>2 DEF Works

LEMMA LandFailsWorks ==
  ASSUME Works, LandFails
  PROVE  Works' /\ Shrinks
<1> DEFINE k == Head(queue).by
<1>1. check' \in [Checks -> CheckJob]
  <2>1. NoOne \in Senders \cup {NoOne}
    OBVIOUS
  <2>2. \/ check' = check
        \/ k \in Checks /\ check' = [check EXCEPT ![k].at = "alarm"]
        \/ k \in Checks /\ check' = [check EXCEPT ![k] = IdleWork]
    BY DEF LandFails
  <2> QED
    BY <2>1, <2>2, CheckMoves, IdleWorkIs DEF Works
<1>2. \/ review' = review
      \/ k \in Reviews /\ review' = [review EXCEPT ![k] = IdleWork]
  BY DEF LandFails
<1>3. review' \in [Reviews -> ReviewJob] /\ Shrinks
  BY <1>2, ReviewMoves, IdleWorkIs DEF Works, Shrinks
<1> QED
  BY <1>1, <1>3 DEF Works

-----------------------------------------------------------------------------
(* Every step keeps the shape.                                             *)

WriterSteps(w) ==
  \/ ReadFirst(w) \/ GiveUp(w) \/ Gate(w) \/ Accepted(w) \/ AnswerLost(w)
  \/ Refused(w) \/ AfterPause(w) \/ \E s \in Senders : Attempt(w, s) \/ QuickReply(w, s)

LEMMA NextSplits ==
  ASSUME Next
  PROVE  (\E w \in Writers : WriterSteps(w)) \/ Others \/ Lands \/ LandFails \/ Restart \/ NextDay
BY DEF Next, WriterSteps, Others

LEMMA GiveUpIs ==
  ASSUME BaseInv, NEW w \in Writers, GiveUp(w)
  PROVE  /\ Becomes(w, "idle", NoOne) /\ (\A s \in Senders : writer'[w].allow[s] = 0)
         /\ writer[w].at = "ready" /\ UNCHANGED <<journal, queue, bounds, seen>>
BY Idles DEF GiveUp, BaseInv

LEMMA WriterBase ==
  ASSUME BaseInv, NEW w \in Writers, WriterSteps(w)
  PROVE  /\ BaseInv' /\ UNCHANGED <<sender, domain, day, base, check, review>>
         /\ queue' = queue \/ \E e \in Entry : e.by \in Writers /\ queue' = Append(queue, e)
<1>0. ASSUME NEW s \in Senders, NEW kind, Sends(w, s, kind)
      PROVE  \E e \in Entry : e.by = w /\ e.of = s /\ queue' = Append(queue, e)
  BY <1>0 DEF Sends
<1>1. CASE ReadFirst(w)
  <2>1. PICK of \in Senders \cup {NoOne} : Becomes(w, "ready", of)
    BY <1>1, ReadFirstIs
  <2>2. writer[w].at = "idle" /\ UNCHANGED <<journal, queue, bounds, seen>> /\ UNCHANGED <<check, review>>
    BY <1>1, ReadFirstIs DEF ReadFirst
  <2> QED
    BY <2>1, <2>2, MovesOn DEF journal, bounds, seen
<1>2. CASE GiveUp(w)
  <2>1. /\ Becomes(w, "idle", NoOne) /\ (\A s \in Senders : writer'[w].allow[s] = 0)
        /\ writer[w].at = "ready" /\ UNCHANGED <<journal, queue, bounds, seen>>
        /\ UNCHANGED <<check, review>>
    BY <1>2, GiveUpIs DEF GiveUp
  <2> QED
    BY <2>1, MovesOn DEF journal, bounds, seen
<1>3. CASE Gate(w)
  <2>1. UNCHANGED <<check, review>>
    BY <1>3 DEF Gate
  <2> QED
    BY <1>0, <1>3, <2>1, GateIs, MovesOn DEF journal, bounds, seen
<1>4. CASE Accepted(w)
  <2>1. UNCHANGED <<check, review>>
    BY <1>4 DEF Accepted
  <2> QED
    BY <1>0, <1>4, <2>1, AcceptedIs, MovesOn DEF journal, bounds
<1>5. CASE AnswerLost(w)
  <2>1. UNCHANGED <<check, review>>
    BY <1>5 DEF AnswerLost
  <2> QED
    BY <1>0, <1>5, <2>1, AnswerLostIs, MovesOn DEF journal
<1>6. CASE Refused(w) \/ AfterPause(w)
  <2>1. UNCHANGED <<check, review>>
    BY <1>6 DEF Refused, AfterPause
  <2> QED
    BY <1>0, <1>6, <2>1, RefusedIs, MovesOn DEF journal, bounds, seen
<1>7. ASSUME NEW s \in Senders, Attempt(w, s)
      PROVE  /\ BaseInv' /\ UNCHANGED <<sender, domain, day, base, check, review>>
             /\ queue' = queue \/ \E e \in Entry : e.by \in Writers /\ queue' = Append(queue, e)
  <2>1. UNCHANGED <<check, review>>
    BY <1>7 DEF Attempt
  <2> QED
    BY <1>0, <1>7, <2>1, AttemptIs, MovesOn DEF journal, bounds, seen
<1>8. ASSUME NEW s \in Senders, QuickReply(w, s)
      PROVE  /\ BaseInv' /\ UNCHANGED <<sender, domain, day, base, check, review>>
             /\ queue' = queue \/ \E e \in Entry : e.by \in Writers /\ queue' = Append(queue, e)
  <2>1. UNCHANGED <<check, review>>
    BY <1>8 DEF QuickReply
  <2> QED
    BY <1>0, <1>8, <2>1, QuickReplyIs, MovesOn DEF journal, bounds, seen
<1> QED
  BY <1>1, <1>2, <1>3, <1>4, <1>5, <1>6, <1>7, <1>8 DEF WriterSteps

LEMMA RestartBase ==
  ASSUME BaseInv, Restart
  PROVE  /\ BaseInv' /\ Works' /\ \A w \in Writers : writer'[w].at = "idle"
         /\ \A v \in Reviews : review'[v].todo = {}
<1>1. Tables'
  BY DEF Restart, BaseInv, Tables, journal
<1>2. Letters' /\ \A w \in Writers : writer'[w].at = "idle"
  BY IdleIs DEF Restart, Letters
<1>3. InLine'
  BY DEF Restart, InLine
<1>4. Works' /\ \A v \in Reviews : review'[v].todo = {}
  BY IdleWorkIs DEF Restart, Works
<1> QED
  BY <1>1, <1>2, <1>3, <1>4 DEF BaseInv

LEMMA NextDayBase ==
  ASSUME BaseInv, Works, NextDay
  PROVE  BaseInv' /\ Works' /\ \A v \in Reviews : review'[v].todo = {}
<1>1. Tables'
  BY DEF NextDay, BaseInv, Tables
<1>2. Letters' /\ InLine'
  BY DEF NextDay, BaseInv, Letters, InLine
<1>3. Works'
  BY DEF NextDay, Works
<1>4. \A v \in Reviews : review'[v].todo = {}
  BY DEF NextDay, Works, ReviewJob
<1> QED
  BY <1>1, <1>2, <1>3, <1>4 DEF BaseInv

LEMMA OthersBase ==
  ASSUME BaseInv, Works, Others
  PROVE  BaseInv'
<1>1. UNCHANGED <<sender, domain, used, day, writer, late, base>>
  BY OthersAre
<1>2. UNCHANGED queue \/ \E e \in Entry : e.by \notin Writers /\ queue' = Append(queue, e)
  BY OthersAre DEF Puts
<1> QED
  BY <1>1, <1>2, OthersPut

LEMMA ReviewReadsIs ==
  ASSUME Works, NEW v \in Reviews, ReviewReads(v)
  PROVE  /\ review' \in [Reviews -> ReviewJob]
         /\ \A x \in Reviews \ {v} : review'[x] = review[x]
         /\ \A up \in review'[v].todo :
              /\ up[1] \in Senders /\ up[2] = sender[up[1]].stage + 1
              /\ sender[up[1]].moved < day
<1> DEFINE up == {s \in Senders : EffectiveStatus(s) = "active" /\ Due(s) /\ Earned(s)
                                  /\ sender[s].stage + 1 \in Stage}
           todo == {<<s, sender[s].stage + 1>> : s \in up}
           r == [at |-> "next", of |-> NoOne, todo |-> todo]
<1>1. review' = [review EXCEPT ![v] = r]
  BY DEF ReviewReads
<1>2. todo \subseteq Senders \X Stage
  OBVIOUS
<1>3. \A x \in todo : x[1] \in Senders /\ x[2] = sender[x[1]].stage + 1 /\ sender[x[1]].moved < day
  BY DEF Due
<1> HIDE DEF todo
<1>4. r \in ReviewJob /\ r.todo = todo
  BY <1>2 DEF ReviewJob
<1> HIDE DEF r
<1> QED
  BY <1>1, <1>3, <1>4 DEF Works

LEMMA OthersWorks ==
  ASSUME Works, Others
  PROVE  Works' /\ (Shrinks \/ \E v \in Reviews : ReviewReads(v))
<1>1. ASSUME NEW k \in Checks, CheckReads(k) \/ CheckPauses(k) \/ CheckRaises(k)
      PROVE  Works' /\ Shrinks
  BY <1>1, CheckSteps DEF Works, Shrinks
<1>2. ASSUME NEW v \in Reviews, ReviewReads(v)
      PROVE  Works'
  BY <1>2, ReviewReadsIs DEF Works, ReviewReads
<1>3. ASSUME NEW v \in Reviews, ReviewSteps(v)
      PROVE  Works' /\ Shrinks
  BY <1>3, ReviewStepsShrink DEF Works, ReviewSteps
<1>4. CASE \E s \in Senders : PolicyBounce(s)
  BY <1>4 DEF PolicyBounce, Works, Shrinks
<1>5. CASE SetSenderStatus \/ SetDomainStatus \/ UpdateStage \/ UpdateCeiling
  BY <1>5 DEF SetSenderStatus, SetDomainStatus, UpdateStage, UpdateCeiling, Works, Shrinks
<1> QED
  BY <1>1, <1>2, <1>3, <1>4, <1>5 DEF Others

Shape == BaseInv /\ Works

LEMMA ShapeInit == Init => Shape
<1> SUFFICES ASSUME Init PROVE Shape
  OBVIOUS
<1>1. Tables
  BY AllowFacts DEF Init, Tables, Mailbox, Statuses
<1>2. Letters
  BY IdleIs DEF Init, Letters
<1>3. InLine
  BY DEF Init, InLine
<1>4. Works
  BY IdleWorkIs DEF Init, Works
<1> QED
  BY <1>1, <1>2, <1>3, <1>4 DEF Shape, BaseInv

LEMMA ShapeNext == Shape /\ [Next]_vars => Shape'
<1> SUFFICES ASSUME Shape, [Next]_vars PROVE Shape'
  OBVIOUS
<1> USE DEF Shape
<1>1. ASSUME NEW w \in Writers, WriterSteps(w) PROVE Shape'
  BY <1>1, WriterBase DEF Works
<1>2. CASE Others
  BY <1>2, OthersBase, OthersWorks
<1>3. CASE Lands
  BY <1>3, LandsBase, LandsWorks
<1>4. CASE LandFails
  BY <1>4, LandFailsBase, LandFailsWorks
<1>5. CASE Restart
  BY <1>5, RestartBase
<1>6. CASE NextDay
  BY <1>6, NextDayBase
<1>7. CASE UNCHANGED vars
  BY <1>7 DEF vars, journal, bounds, seen, BaseInv, Tables, Letters, InLine, Works
<1> QED
  BY <1>1, <1>2, <1>3, <1>4, <1>5, <1>6, <1>7, NextSplits

-----------------------------------------------------------------------------
(* At most one letter after a stop: the one the gate has let through was    *)
(* let through before it, and is the first since.                          *)

LateInv ==
  /\ late \in [Writers -> [Senders -> Nat]]
  /\ \A w \in Writers, s \in Senders :
       /\ late[w][s] <= 1
       /\ ~Stopped(s) => late[w][s] = 0
       /\ writer[w].at = "provider" /\ writer[w].of = s => late[w][s] = 0

\* Nobody else comes to the provider, and nothing is taken.
LEMMA LateStays ==
  ASSUME LateInv, UNCHANGED <<sender, domain, late>>,
         \A w \in Writers : writer'[w].at = "provider" => writer'[w] = writer[w]
  PROVE  LateInv'
BY DEF LateInv, Stopped

LEMMA LateTaken ==
  ASSUME LateInv, NEW w \in Writers, writer[w].at = "provider", writer[w].of \in Senders, Taken(w),
         UNCHANGED <<sender, domain>>, writer'[w].at # "provider",
         \A x \in Writers \ {w} : writer'[x] = writer[x]
  PROVE  LateInv'
<1> DEFINE s == writer[w].of
           n == IF Stopped(s) THEN late[w][s] + 1 ELSE 0
           row == [late[w] EXCEPT ![s] = n]
<1>1. /\ late \in [Writers -> [Senders -> Nat]] /\ late[w] \in [Senders -> Nat]
      /\ late[w][s] = 0 /\ s \in Senders
  BY DEF LateInv
<1>2. n \in {0, 1} /\ (~Stopped(s) => n = 0)
  BY <1>1
<1>3. late' = [late EXCEPT ![w] = row]
  BY Zenon DEF Taken
<1> HIDE DEF n
<1>4. /\ row \in [Senders -> Nat] /\ row[s] = n
      /\ \A t \in Senders \ {s} : row[t] = late[w][t]
  BY <1>1, <1>2
<1> HIDE DEF row, s
<1>5. /\ late' \in [Writers -> [Senders -> Nat]] /\ late'[w] = row
      /\ \A x \in Writers \ {w} : late'[x] = late[x]
  BY <1>1, <1>3, <1>4
<1>6. ASSUME NEW t \in Senders PROVE late'[w][t] <= 1 /\ (~Stopped(t) => late'[w][t] = 0)
  BY <1>2, <1>4, <1>5 DEF LateInv
<1>7. \A t \in Senders : Stopped(t)' <=> Stopped(t)
  BY DEF Stopped
<1> QED
  BY <1>5, <1>6, <1>7 DEF LateInv

LEMMA LateWriter ==
  ASSUME BaseInv, LateInv, NEW w \in Writers, WriterSteps(w)
  PROVE  LateInv'
<1>0. "provider" # "ready" /\ "provider" # "idle" /\ "provider" # "queued"
  OBVIOUS
<1>1. CASE ReadFirst(w)
  <2>1. PICK of \in Senders \cup {NoOne} : Becomes(w, "ready", of)
    BY <1>1, ReadFirstIs
  <2> QED
    BY <1>1, <2>1, ReadFirstIs, LateStays DEF Becomes, journal, seen
<1>2. CASE GiveUp(w)
  BY <1>2, GiveUpIs, LateStays DEF Becomes, journal, seen
<1>3. CASE Gate(w)
  <2>0. UNCHANGED <<sender, domain, late>> /\ writer[w].of \in Senders
    BY <1>3, GateIs DEF journal, seen
  <2>1. CASE Becomes(w, "queued", writer[w].of)
    BY <2>0, <2>1, LateStays DEF Becomes
  <2>2. CASE Becomes(w, "provider", writer[w].of) /\ CanSend(writer[w].of)
    <3>1. ~Stopped(writer[w].of)
      BY <2>0, <2>2, CanSendIs
    <3>2. late[w][writer[w].of] = 0
      BY <2>0, <3>1 DEF LateInv
    <3> QED
      BY <2>0, <2>2, <3>2 DEF LateInv, Stopped, Becomes
  <2> QED
    BY <1>3, <2>1, <2>2, GateIs
<1>4. CASE Accepted(w)
  BY <1>4, AcceptedIs, LateTaken DEF Becomes, journal
<1>5. CASE AnswerLost(w)
  <2>1. writer'[w].at # "provider" /\ \A x \in Writers \ {w} : writer'[x] = writer[x]
    BY <1>5, AnswerLostIs DEF Becomes
  <2> QED
    BY <1>5, <2>1, AnswerLostIs, LateTaken DEF journal
<1>6. CASE Refused(w) \/ AfterPause(w)
  BY <1>6, RefusedIs, LateStays DEF Becomes, journal, seen
<1>7. ASSUME NEW s \in Senders, Attempt(w, s) PROVE LateInv'
  BY <1>7, AttemptIs, LateStays DEF Becomes, journal, seen
<1>8. ASSUME NEW s \in Senders, QuickReply(w, s) PROVE LateInv'
  BY <1>8, QuickReplyIs, LateStays DEF Becomes, journal, seen
<1> QED
  BY <1>1, <1>2, <1>3, <1>4, <1>5, <1>6, <1>7, <1>8 DEF WriterSteps

LEMMA LateLands ==
  ASSUME BaseInv, LateInv, Lands
  PROVE  LateInv'
<1> DEFINE e == Head(queue)
<1>1. e \in Entry /\ queue # <<>>
  BY HeadIs DEF Lands
<1>2. \A w \in Writers : writer'[w].at = "provider" => writer'[w] = writer[w]
  <2>1. CASE e.by \in Writers
    <3>1. e.of \in Senders /\ e.kind \in {"sending", "sent", "failed", "status"}
      BY <1>1, <2>1 DEF Entry
    <3>2. \/ Becomes(e.by, "gate", e.of) \/ Becomes(e.by, "refused", e.of) \/ Ended(e.by)
      BY <2>1, <3>1, LandedWriter
    <3> QED
      BY <3>2 DEF Becomes, Ended
  <2>2. CASE e.by \notin Writers
    BY <2>2 DEF Lands, Landed
  <2> QED
    BY <2>1, <2>2
<1>3. late' = [w \in Writers |-> [s \in Senders |-> IF Stopped(s)' THEN late[w][s] ELSE 0]]
  BY DEF Lands, Noted
<1> HIDE DEF e
<1>4. \A w \in Writers, s \in Senders : late'[w][s] = 0 \/ late'[w][s] = late[w][s]
  BY <1>3
<1>5. late' \in [Writers -> [Senders -> Nat]]
  BY <1>3 DEF LateInv
<1>6. \A w \in Writers, s \in Senders : ~Stopped(s)' => late'[w][s] = 0
  BY <1>3
<1> QED
  BY <1>2, <1>4, <1>5, <1>6 DEF LateInv

LEMMA LateNext == Shape /\ LateInv /\ [Next]_vars => LateInv'
<1> SUFFICES ASSUME Shape, LateInv, [Next]_vars PROVE LateInv'
  OBVIOUS
<1> USE DEF Shape
<1>1. ASSUME NEW w \in Writers, WriterSteps(w) PROVE LateInv'
  BY <1>1, LateWriter
<1>2. CASE Others
  BY <1>2, OthersAre, LateStays
<1>3. CASE Lands
  BY <1>3, LateLands
<1>4. CASE LandFails
  <2>1. \A w \in Writers : writer'[w].at = "provider" => writer'[w] = writer[w]
    BY <1>4, LandFailsBase
  <2> QED
    BY <1>4, <2>1, LateStays DEF LandFails, journal
<1>5. CASE Restart
  BY <1>5, RestartBase, LateStays DEF Restart, journal, seen
<1>6. CASE NextDay
  BY <1>6, LateStays DEF NextDay
<1>7. CASE UNCHANGED vars
  BY <1>7, LateStays DEF vars, journal, seen
<1> QED
  BY <1>1, <1>2, <1>3, <1>4, <1>5, <1>6, <1>7, NextSplits

\* Once a mailbox or its domain is stopped, each writer sends from it at most the
\* letter the gate had let through (OneAfterStop), however many write at once.
THEOREM OneLetterAfterStop == Spec => []OneAfterStop
<1>1. Init => LateInv
  BY DEF Init, LateInv, IdleWriter
<1>2. LateInv => OneAfterStop
  BY DEF LateInv, OneAfterStop
<1> QED
  BY <1>1, <1>2, ShapeInit, ShapeNext, LateNext, PTL DEF Spec

-----------------------------------------------------------------------------
(* One step of the ramp a day.  A mailbox that has moved today may be one   *)
(* stage above the day's base; a step already on a review's list, or on its *)
(* way to the file, is at most that high, whoever moves the mailbox first.  *)

Climbed ==
  \A s \in Senders :
    /\ sender[s].stage <= base[s] + 1
    /\ sender[s].moved < day => sender[s].stage <= base[s]
Listed == \A v \in Reviews : \A up \in review[v].todo : up[2] <= base[up[1]] + 1
Filed ==
  \A i \in DOMAIN queue : queue[i].kind = "stage" /\ queue[i].by # Person =>
    queue[i].to <= base[queue[i].of] + 1
StepInv == base \in [Senders -> Nat] /\ Climbed /\ Listed /\ Filed

\* a longer line, a shorter list
LEMMA StepStays ==
  ASSUME BaseInv, Works, StepInv, UNCHANGED <<sender, day, base>>, Works', Shrinks,
         \/ UNCHANGED queue \/ queue' = <<>>
         \/ \E e \in Entry : queue' = Append(queue, e)
                             /\ (e.kind = "stage" /\ e.by # Person => e.to <= base[e.of] + 1)
  PROVE  StepInv'
<1>1. \A v \in Reviews : \A up \in review'[v].todo : up[2] <= base[up[1]] + 1
  BY DEF StepInv, Climbed, Listed, Filed, Shrinks
<1>2. \A i \in DOMAIN queue' : queue'[i].kind = "stage" /\ queue'[i].by # Person =>
        queue'[i].to <= base[queue'[i].of] + 1
  <2>1. CASE UNCHANGED queue \/ queue' = <<>>
    BY <2>1 DEF StepInv, Climbed, Listed, Filed
  <2>2. ASSUME NEW e \in Entry, queue' = Append(queue, e),
               e.kind = "stage" /\ e.by # Person => e.to <= base[e.of] + 1
        PROVE  \A i \in DOMAIN queue' : queue'[i].kind = "stage" /\ queue'[i].by # Person =>
                 queue'[i].to <= base[queue'[i].of] + 1
    <3>1. /\ DOMAIN queue' = DOMAIN queue \cup {Len(queue) + 1}
          /\ \A i \in DOMAIN queue : queue'[i] = queue[i]
          /\ queue'[Len(queue) + 1] = e
      BY <2>2 DEF BaseInv, InLine
    <3> QED
      BY <2>2, <3>1 DEF StepInv, Climbed, Listed, Filed
  <2> QED
    BY <2>1, <2>2
<1> QED
  BY <1>1, <1>2 DEF StepInv, Climbed, Listed, Filed

LEMMA StepOthers ==
  ASSUME BaseInv, Works, StepInv, Others
  PROVE  StepInv'
<1>1. /\ UNCHANGED <<sender, day, base>> /\ Works'
      /\ UNCHANGED queue \/ \E e : Puts(e)
  BY OthersAre, OthersWorks
<1>2. ASSUME NEW e, Puts(e)
      PROVE  e \in Entry /\ queue' = Append(queue, e)
             /\ (e.kind = "stage" /\ e.by # Person => e.to <= base[e.of] + 1)
  <2>1. ASSUME NEW v \in Reviews, NEW up \in review[v].todo, e.of = up[1], e.to = up[2]
        PROVE  e.to <= base[e.of] + 1
    BY <2>1 DEF StepInv, Climbed, Listed, Filed
  <2> QED
    BY <1>2, <2>1 DEF Puts
<1>3. CASE Shrinks
  BY <1>1, <1>2, <1>3, StepStays
<1>4. ASSUME NEW v \in Reviews, ReviewReads(v)
      PROVE  StepInv'
  <2>1. UNCHANGED queue
    BY <1>4 DEF ReviewReads
  <2>2. \A up \in review'[v].todo : up[2] <= base[up[1]] + 1
    <3> TAKE up \in review'[v].todo
    <3>1. /\ up[1] \in Senders /\ up[2] = sender[up[1]].stage + 1
          /\ sender[up[1]].moved < day
      BY <1>4, ReviewReadsIs
    <3>2. sender[up[1]].stage <= base[up[1]] /\ sender[up[1]].stage \in Nat /\ base[up[1]] \in Nat
      BY <3>1, AllowFacts DEF StepInv, Climbed, Listed, Filed, BaseInv, Tables, Mailbox
    <3> QED
      BY <3>1, <3>2
  <2>3. \A x \in Reviews \ {v} : review'[x] = review[x]
    BY <1>4, ReviewReadsIs
  <2> QED
    BY <1>1, <2>1, <2>2, <2>3 DEF StepInv, Climbed, Listed, Filed
<1> QED
  BY <1>1, <1>3, <1>4, OthersWorks

LEMMA StepLands ==
  ASSUME BaseInv, Works, StepInv, Lands
  PROVE  StepInv'
<1> DEFINE e == Head(queue)
<1>1. e \in Entry /\ queue # <<>> /\ e = queue[1] /\ 1 \in DOMAIN queue /\ queue \in Seq(Entry)
  BY HeadIs DEF Lands, BaseInv, InLine
<1>2. Works' /\ Shrinks /\ day' = day /\ day \in Nat
  BY LandsWorks DEF Lands, bounds, BaseInv, Tables
<1>3. /\ base' \in [Senders -> Nat]
      /\ \A s \in Senders : base'[s] >= base[s]
      /\ e.kind = "stage" /\ e.by = Person => base'[e.of] >= e.to
  <2>1. CASE e.kind = "stage" /\ e.by = Person
    <3> DEFINE m == Max({base[e.of], e.to})
    <3>1. e.of \in Senders /\ e.to \in Nat
      BY <1>1, <2>1, AllowFacts DEF Entry
    <3>2. base' = [base EXCEPT ![e.of] = m]
      BY <2>1 DEF Lands, Noted
    <3>3. m \in Nat /\ m >= base[e.of] /\ m >= e.to
      BY <3>1, MinNat DEF StepInv, Climbed, Listed, Filed
    <3> HIDE DEF e, m
    <3>4. base' \in [Senders -> Nat] /\ base'[e.of] = m
      BY <3>1, <3>2, <3>3 DEF StepInv, Climbed, Listed, Filed
    <3>5. \A s \in Senders : base'[s] >= base[s]
      BY <3>1, <3>2, <3>3 DEF StepInv, Climbed, Listed, Filed
    <3> QED
      BY <3>3, <3>4, <3>5
  <2>2. CASE ~(e.kind = "stage" /\ e.by = Person)
    <3>1. base' = base
      BY <2>2 DEF Lands, Noted
    <3> QED
      BY <2>2, <3>1 DEF StepInv, Climbed, Listed, Filed
  <2> QED
    BY <2>1, <2>2
<1>4. \A s \in Senders : base[s] \in Nat /\ base'[s] \in Nat /\ base'[s] >= base[s]
  BY <1>3 DEF StepInv, Climbed, Listed, Filed
<1>5. \A v \in Reviews : \A up \in review'[v].todo : up[2] <= base'[up[1]] + 1
  <2> TAKE v \in Reviews
  <2> TAKE up \in review'[v].todo
  <2>1. review'[v] \in ReviewJob
    BY <1>2 DEF Works
  <2>2. up[1] \in Senders /\ up[2] \in Nat
    BY <2>1, AllowFacts DEF ReviewJob
  <2>3. up[2] <= base[up[1]] + 1
    BY <1>2 DEF Shrinks, StepInv, Climbed, Listed, Filed
  <2> QED
    BY <1>4, <2>2, <2>3
<1>6. \A i \in DOMAIN queue' : queue'[i].kind = "stage" /\ queue'[i].by # Person =>
        queue'[i].to <= base'[queue'[i].of] + 1
  <2> TAKE i \in DOMAIN queue'
  <2> HAVE queue'[i].kind = "stage" /\ queue'[i].by # Person
  <2>1. i + 1 \in DOMAIN queue /\ queue'[i] = queue[i + 1]
    BY <1>1 DEF Lands
  <2>2. queue'[i] \in Entry
    BY <1>1, <2>1
  <2>3. queue'[i].of \in Senders /\ queue'[i].to \in Nat
    BY <2>2, AllowFacts DEF Entry
  <2>4. queue'[i].to <= base[queue'[i].of] + 1
    BY <2>1 DEF StepInv, Climbed, Listed, Filed
  <2> QED
    BY <1>4, <2>3, <2>4
<1>7. \A s \in Senders :
        /\ sender'[s].stage <= base'[s] + 1
        /\ sender'[s].moved < day' => sender'[s].stage <= base'[s]
  <2> TAKE s \in Senders
  <2>0. sender' = Fold(e) /\ sender \in [Senders -> Mailbox] /\ sender[s].stage \in Nat
    BY AllowFacts DEF Lands, BaseInv, Tables, Mailbox
  <2>1. CASE e.kind = "stage" /\ e.of = s
    <3>1. sender'[s].stage = e.to /\ sender'[s].moved = day
      BY <1>1, <1>2, <2>0, <2>1, Folded
    <3>2. e.to \in Nat
      BY <1>1, <2>1, AllowFacts DEF Entry
    <3>3. e.to <= base'[s] + 1
      <4>1. CASE e.by = Person
        <5>1. base'[s] >= e.to /\ base'[s] \in Nat
          BY <1>3, <2>1, <4>1
        <5> HIDE DEF e
        <5> QED
          BY <3>2, <5>1
      <4>2. CASE e.by # Person
        <5>1. e.to <= base[s] + 1
          BY <1>1, <2>1, <4>2 DEF StepInv, Climbed, Listed, Filed
        <5> HIDE DEF e
        <5> QED
          BY <1>4, <3>2, <5>1
      <4> QED
        BY <4>1, <4>2
    <3> QED
      BY <1>2, <3>1, <3>3
  <2>2. CASE ~(e.kind = "stage" /\ e.of = s)
    <3>1. sender'[s].stage = sender[s].stage /\ sender'[s].moved = sender[s].moved
      BY <1>1, <1>2, <2>0, <2>2, Folded
    <3>2. sender[s].stage <= base[s] + 1 /\ (sender[s].moved < day => sender[s].stage <= base[s])
      BY DEF StepInv, Climbed, Listed, Filed
    <3> HIDE DEF e
    <3> QED
      BY <1>2, <1>4, <2>0, <3>1, <3>2
  <2> QED
    BY <2>1, <2>2
<1>8. base' \in [Senders -> Nat]
  BY <1>3
<1>9. Climbed'
  BY <1>7 DEF Climbed
<1>10. Listed'
  BY <1>5 DEF Listed
<1>11. Filed'
  BY <1>6 DEF Filed
<1> QED
  BY <1>8, <1>9, <1>10, <1>11 DEF StepInv

LEMMA StepLandFails ==
  ASSUME BaseInv, Works, StepInv, LandFails
  PROVE  StepInv'
<1> DEFINE e == Head(queue)
           f == [kind |-> "failed", of |-> e.of, to |-> "", by |-> e.by]
<1>1. queue \in Seq(Entry) /\ queue # <<>>
  BY DEF BaseInv, InLine, LandFails
<1>2. Works' /\ Shrinks /\ UNCHANGED <<sender, day, base>>
  BY LandFailsWorks DEF LandFails, journal
<1>3. queue' = Tail(queue) \/ queue' = Append(Tail(queue), f)
  BY DEF LandFails
<1>4. f.kind = "failed"
  OBVIOUS
<1> HIDE DEF f
<1>5. \A i \in DOMAIN queue' : queue'[i] = f \/ (i + 1 \in DOMAIN queue /\ queue'[i] = queue[i + 1])
  BY <1>1, <1>3
<1>6. \A i \in DOMAIN queue' : queue'[i].kind = "stage" /\ queue'[i].by # Person =>
        queue'[i].to <= base[queue'[i].of] + 1
  BY <1>4, <1>5 DEF StepInv, Climbed, Listed, Filed
<1>7. \A v \in Reviews : \A up \in review'[v].todo : up[2] <= base[up[1]] + 1
  BY <1>2 DEF StepInv, Climbed, Listed, Filed, Shrinks
<1> QED
  BY <1>2, <1>6, <1>7 DEF StepInv, Climbed, Listed, Filed

\* a day begins where the mailbox stands, with nothing on its way
LEMMA StepNextDay ==
  ASSUME BaseInv, Works, StepInv, NextDay
  PROVE  StepInv'
<1>1. base' = [s \in Senders |-> sender[s].stage] /\ queue = <<>> /\ UNCHANGED <<sender, queue>>
  BY DEF NextDay
<1>2. \A s \in Senders : sender[s].stage \in Nat
  BY AllowFacts DEF BaseInv, Tables, Mailbox
<1>3. \A v \in Reviews : review'[v].todo = {}
  BY NextDayBase
<1> QED
  BY <1>1, <1>2, <1>3 DEF StepInv, Climbed, Listed, Filed

LEMMA StepNext == Shape /\ StepInv /\ [Next]_vars => StepInv'
<1> SUFFICES ASSUME Shape, StepInv, [Next]_vars PROVE StepInv'
  OBVIOUS
<1> USE DEF Shape
<1>1. ASSUME NEW w \in Writers, WriterSteps(w) PROVE StepInv'
  <2>1. \A e \in Entry : e.by \in Writers => e.kind # "stage"
    BY DEF Entry
  <2>2. Shrinks /\ Works'
    BY <1>1, WriterBase DEF Shrinks, Works
  <2> QED
    BY <1>1, <2>1, <2>2, WriterBase, StepStays
<1>2. CASE Others
  BY <1>2, StepOthers
<1>3. CASE Lands
  BY <1>3, StepLands
<1>4. CASE LandFails
  BY <1>4, StepLandFails
<1>5. CASE Restart
  BY <1>5, RestartBase, StepStays DEF Restart, journal, bounds, seen, Shrinks
<1>6. CASE NextDay
  BY <1>6, StepNextDay
<1>7. CASE UNCHANGED vars
  BY <1>7 DEF vars, journal, bounds, seen, StepInv, Climbed, Listed, Filed
<1> QED
  BY <1>1, <1>2, <1>3, <1>4, <1>5, <1>6, <1>7, NextSplits

\* However many reviews run, and whatever people change meanwhile, the ramp lifts a
\* mailbox one stage a day above where the day found it or a person put it.
THEOREM OneRampStepADay == Spec => []OneStepADay
<1>1. Init => StepInv
  BY AllowFacts DEF Init, StepInv, Climbed, Listed, Filed, IdleWork
<1>2. StepInv => OneStepADay
  BY DEF StepInv, Climbed, Listed, Filed, OneStepADay
<1> QED
  BY <1>1, <1>2, ShapeInit, ShapeNext, StepNext, PTL DEF Spec

-----------------------------------------------------------------------------
(* A pause a person lifts stays lifted.  A check that has a mailbox on its   *)
(* list may stop it once more; when it has, it still owes the alarm, and     *)
(* until the alarm is in the journal only a check that was already running   *)
(* finds the mailbox not alarmed.                                            *)

\* check k has an append of this kind on its way
Waits(k, kind) == \E i \in DOMAIN queue : queue[i].by = k /\ queue[i].kind = kind

\* A check that works on a mailbox has it on its list, and waits for one append.
Jobs ==
  /\ \A k \in Checks :
       /\ check[k].at = "idle" => check[k].todo = {}
       /\ check[k].at \in {"queued", "alarm"} => check[k].of \in check[k].todo
  /\ \A i \in DOMAIN queue : queue[i].by \in Checks =>
       /\ check[queue[i].by].at = "queued" /\ check[queue[i].by].of = queue[i].of
       /\ queue[i].kind \in {"status", "alert"}
  /\ \A i, j \in DOMAIN queue : queue[i].by \in Checks /\ queue[i].by = queue[j].by => i = j

\* check k is past its pause of mailbox s, and owes the alarm
Owes(k, s) ==
  check[k].of = s /\ (check[k].at = "alarm" \/ (check[k].at = "queued" /\ Waits(k, "alert")))

Running == {k \in Checks : check[k].at # "idle"}
OnIt(s) == {k \in Checks : s \in check[k].todo}
MayStop(s) == {k \in OnIt(s) : ~Owes(k, s)}

Spare(s) == IF raised[s] = day \/ OnIt(s) # {} THEN 1 ELSE 0

Counters ==
  stops \in [Senders -> Nat] /\ raised \in [Senders -> Nat] /\ overlaps \in Nat /\ faults \in Nat
FewRun == IsFiniteSet(Running) /\ Cardinality(Running) <= 1 + overlaps
FewStops == \A s \in Senders : stops[s] + Cardinality(MayStop(s)) <= Spare(s) + overlaps + faults

LiftInv == Jobs /\ Counters /\ FewRun /\ FewStops

LEMMA CheckShape ==
  ASSUME BaseInv, Works
  PROVE  /\ queue \in Seq(Entry) /\ check \in [Checks -> CheckJob]
         /\ \A k \in Checks : /\ check[k].at \in {"idle", "next", "queued", "alarm"}
                              /\ check[k].todo \subseteq Senders
BY DEF BaseInv, InLine, Works, CheckJob

\* who waits for what, as the line moves
LEMMA LineSame ==
  ASSUME NEW k, NEW kind,
         \A i \in DOMAIN queue' : queue'[i].by = k => \E j \in DOMAIN queue : queue[j] = queue'[i],
         \A i \in DOMAIN queue : queue[i].by = k => \E j \in DOMAIN queue' : queue'[j] = queue[i]
  PROVE  Waits(k, kind)' <=> Waits(k, kind)
<1>1. ASSUME NEW i \in DOMAIN queue', queue'[i].by = k, queue'[i].kind = kind
      PROVE  Waits(k, kind)
  <2>1. PICK j \in DOMAIN queue : queue[j] = queue'[i]
    BY <1>1
  <2> QED
    BY <1>1, <2>1 DEF Waits
<1>2. ASSUME NEW i \in DOMAIN queue, queue[i].by = k, queue[i].kind = kind
      PROVE  Waits(k, kind)'
  <2>1. PICK j \in DOMAIN queue' : queue'[j] = queue[i]
    BY <1>2
  <2> QED
    BY <1>2, <2>1 DEF Waits
<1> QED
  BY <1>1, <1>2 DEF Waits

\* What the others append, and what becomes of it, is nothing to the checks.
LEMMA JobsMore ==
  ASSUME BaseInv, Works, Jobs, UNCHANGED check,
         NEW e \in Entry, e.by \notin Checks, queue' = Append(queue, e)
  PROVE  Jobs' /\ \A k \in Checks : Waits(k, "alert")' <=> Waits(k, "alert")
<1>0. queue \in Seq(Entry)
  BY CheckShape
<1>1. /\ DOMAIN queue' = DOMAIN queue \cup {Len(queue) + 1}
      /\ \A i \in DOMAIN queue : queue'[i] = queue[i]
      /\ queue'[Len(queue) + 1] = e
  BY <1>0
<1>2. \A k \in Checks : Waits(k, "alert")' <=> Waits(k, "alert")
  <2> TAKE k \in Checks
  <2>1. \A i \in DOMAIN queue' : queue'[i].by = k => \E j \in DOMAIN queue : queue[j] = queue'[i]
    BY <1>1
  <2>2. \A i \in DOMAIN queue : queue[i].by = k => \E j \in DOMAIN queue' : queue'[j] = queue[i]
    BY <1>1
  <2> QED
    BY <2>1, <2>2, LineSame
<1>3. Jobs'
  BY <1>1 DEF Jobs
<1> QED
  BY <1>2, <1>3


LEMMA JobsLess ==
  ASSUME BaseInv, Works, Jobs, UNCHANGED check,
         queue # <<>>, Head(queue).by \notin Checks, queue' = Tail(queue)
  PROVE  Jobs' /\ \A k \in Checks : Waits(k, "alert")' <=> Waits(k, "alert")
<1>0. queue \in Seq(Entry)
  BY CheckShape
<1>1. /\ DOMAIN queue' = 1 .. (Len(queue) - 1) /\ DOMAIN queue = 1 .. Len(queue) /\ Len(queue) \in Nat
      /\ \A i \in DOMAIN queue' : queue'[i] = queue[i + 1]
      /\ queue[1].by \notin Checks
  BY <1>0
<1>2. /\ \A i \in DOMAIN queue' : i \in Nat /\ i + 1 \in DOMAIN queue
      /\ \A i \in DOMAIN queue \ {1} : i \in Nat /\ i - 1 \in DOMAIN queue' /\ queue'[i - 1] = queue[i]
  <2>1. \A i \in DOMAIN queue' : i \in Nat /\ i + 1 \in DOMAIN queue
    BY <1>0, <1>1
  <2>2. ASSUME NEW i \in DOMAIN queue \ {1}
        PROVE  i \in Nat /\ i - 1 \in DOMAIN queue' /\ queue'[i - 1] = queue[i]
    <3>1. i \in 2 .. Len(queue)
      BY <1>0, <1>1
    <3>2. i - 1 \in 1 .. (Len(queue) - 1) /\ (i - 1) + 1 = i /\ i \in Nat
      BY <1>0, <1>1, <3>1
    <3>3. queue'[i - 1] = queue[(i - 1) + 1]
      BY <1>1, <3>2
    <3> QED
      BY <1>1, <3>2, <3>3
  <2> QED
    BY <2>1, <2>2
<1>3. \A k \in Checks : Waits(k, "alert")' <=> Waits(k, "alert")
  <2> TAKE k \in Checks
  <2>1. \A i \in DOMAIN queue' : queue'[i].by = k => \E j \in DOMAIN queue : queue[j] = queue'[i]
    BY <1>1, <1>2
  <2>2. \A i \in DOMAIN queue : queue[i].by = k => \E j \in DOMAIN queue' : queue'[j] = queue[i]
    BY <1>1, <1>2
  <2> QED
    BY <2>1, <2>2, LineSame
<1>4. Jobs'
  <2>1. \A i, j \in DOMAIN queue' : queue'[i].by \in Checks /\ queue'[i].by = queue'[j].by => i = j
    <3> TAKE i, j \in DOMAIN queue'
    <3> HAVE queue'[i].by \in Checks /\ queue'[i].by = queue'[j].by
    <3>0. /\ i + 1 \in DOMAIN queue /\ j + 1 \in DOMAIN queue
          /\ queue[i + 1].by \in Checks /\ queue[i + 1].by = queue[j + 1].by
      BY <1>1, <1>2
    <3>1. i + 1 = j + 1
      BY <3>0 DEF Jobs
    <3> QED
      BY <1>2, <3>1
  <2> QED
    BY <1>1, <1>2, <2>1 DEF Jobs
<1> QED
  BY <1>3, <1>4


LEMMA JobsTurn ==
  ASSUME BaseInv, Works, Jobs, UNCHANGED check,
         queue # <<>>, Head(queue).by \notin Checks,
         NEW e \in Entry, e.by \notin Checks, queue' = Append(Tail(queue), e)
  PROVE  Jobs' /\ \A k \in Checks : Waits(k, "alert")' <=> Waits(k, "alert")
<1>0. queue \in Seq(Entry)
  BY CheckShape
<1>1. /\ DOMAIN queue' = 1 .. Len(queue) /\ DOMAIN queue = 1 .. Len(queue) /\ Len(queue) \in Nat
      /\ \A i \in DOMAIN queue' : i # Len(queue) => queue'[i] = queue[i + 1]
      /\ queue'[Len(queue)] = e
      /\ queue[1].by \notin Checks
  BY <1>0
<1>2. /\ \A i \in DOMAIN queue' : i \in Nat /\ (i # Len(queue) => i + 1 \in DOMAIN queue)
      /\ \A i \in DOMAIN queue \ {1} :
           i \in Nat /\ i - 1 \in DOMAIN queue' /\ i - 1 # Len(queue) /\ queue'[i - 1] = queue[i]
  <2>1. \A i \in DOMAIN queue' : i \in Nat /\ (i # Len(queue) => i + 1 \in DOMAIN queue)
    BY <1>0, <1>1
  <2>2. ASSUME NEW i \in DOMAIN queue \ {1}
        PROVE  i \in Nat /\ i - 1 \in DOMAIN queue' /\ i - 1 # Len(queue) /\ queue'[i - 1] = queue[i]
    <3>1. i \in 2 .. Len(queue)
      BY <1>0, <1>1
    <3>2. /\ i - 1 \in 1 .. Len(queue) /\ (i - 1) + 1 = i /\ i \in Nat
          /\ i - 1 # Len(queue)
      BY <1>0, <1>1, <3>1
    <3>3. queue'[i - 1] = queue[(i - 1) + 1]
      BY <1>1, <3>2
    <3> QED
      BY <1>1, <3>2, <3>3
  <2> QED
    BY <2>1, <2>2
<1>3. \A k \in Checks : Waits(k, "alert")' <=> Waits(k, "alert")
  <2> TAKE k \in Checks
  <2>1. \A i \in DOMAIN queue' : queue'[i].by = k => \E j \in DOMAIN queue : queue[j] = queue'[i]
    BY <1>1, <1>2
  <2>2. \A i \in DOMAIN queue : queue[i].by = k => \E j \in DOMAIN queue' : queue'[j] = queue[i]
    BY <1>1, <1>2
  <2> QED
    BY <2>1, <2>2, LineSame
<1>4. Jobs'
  <2>1. \A i, j \in DOMAIN queue' : queue'[i].by \in Checks /\ queue'[i].by = queue'[j].by => i = j
    <3> TAKE i, j \in DOMAIN queue'
    <3> HAVE queue'[i].by \in Checks /\ queue'[i].by = queue'[j].by
    <3>1. i # Len(queue) /\ j # Len(queue)
      BY <1>1
    <3>0. /\ i + 1 \in DOMAIN queue /\ j + 1 \in DOMAIN queue
          /\ queue[i + 1].by \in Checks /\ queue[i + 1].by = queue[j + 1].by
      BY <1>1, <1>2, <3>1
    <3>2. i + 1 = j + 1
      BY <3>0 DEF Jobs
    <3> QED
      BY <1>2, <3>2
  <2> QED
    BY <1>1, <1>2, <2>1 DEF Jobs
<1> QED
  BY <1>3, <1>4


\* A check puts an append on its way.
LEMMA JobsPut ==
  ASSUME BaseInv, Works, Jobs, NEW k \in Checks, check[k].at # "queued",
         NEW e \in Entry, e.by = k, e.kind \in {"status", "alert"}, queue' = Append(queue, e),
         \A x \in Checks \ {k} : check'[x] = check[x],
         check'[k].at = "queued", check'[k].of = e.of, check'[k].of \in check'[k].todo
  PROVE  /\ Jobs' /\ \A x \in Checks \ {k} : Waits(x, "alert")' <=> Waits(x, "alert")
         /\ Waits(k, "alert")' <=> e.kind = "alert"
<1>0. queue \in Seq(Entry)
  BY CheckShape
<1>1. /\ DOMAIN queue' = DOMAIN queue \cup {Len(queue) + 1}
      /\ \A i \in DOMAIN queue : queue'[i] = queue[i]
      /\ queue'[Len(queue) + 1] = e
  BY <1>0
<1>2. \A i \in DOMAIN queue : queue[i].by # k
  BY DEF Jobs
<1>3. \A x \in Checks \ {k} : Waits(x, "alert")' <=> Waits(x, "alert")
  BY <1>1 DEF Waits
<1>4. Waits(k, "alert")' <=> e.kind = "alert"
  BY <1>1, <1>2 DEF Waits
<1>5. Jobs'
  BY <1>1, <1>2 DEF Jobs
<1> QED
  BY <1>3, <1>4, <1>5

\* A check's append is off the line, in the file or lost, and the check goes on.
LEMMA JobsGo ==
  ASSUME BaseInv, Works, Jobs, queue # <<>>, queue' = Tail(queue),
         NEW k \in Checks, Head(queue).by = k,
         \A x \in Checks \ {k} : check'[x] = check[x],
         check'[k].at # "queued",
         check'[k].at = "idle" => check'[k].todo = {},
         check'[k].at = "alarm" => check'[k].of \in check'[k].todo
  PROVE  Jobs' /\ \A x \in Checks \ {k} : Waits(x, "alert")' <=> Waits(x, "alert")
<1>0. queue \in Seq(Entry)
  BY CheckShape
<1>1. /\ DOMAIN queue' = 1 .. (Len(queue) - 1) /\ DOMAIN queue = 1 .. Len(queue) /\ Len(queue) \in Nat
      /\ \A i \in DOMAIN queue' : queue'[i] = queue[i + 1]
      /\ queue[1].by = k
  BY <1>0
<1>2. /\ \A i \in DOMAIN queue' : i \in Nat /\ i + 1 \in DOMAIN queue /\ i + 1 # 1
      /\ \A i \in DOMAIN queue \ {1} : i \in Nat /\ i - 1 \in DOMAIN queue' /\ queue'[i - 1] = queue[i]
      /\ queue # <<>> => 1 \in DOMAIN queue
  BY <1>0, <1>1
<1>3. \A i \in DOMAIN queue' : queue'[i].by # k
  BY <1>1, <1>2 DEF Jobs
<1>4. \A x \in Checks \ {k} : Waits(x, "alert")' <=> Waits(x, "alert")
  <2> TAKE x \in Checks \ {k}
  <2>1. \A i \in DOMAIN queue' : queue'[i].by = x => \E j \in DOMAIN queue : queue[j] = queue'[i]
    BY <1>1, <1>2
  <2>2. \A i \in DOMAIN queue : queue[i].by = x => \E j \in DOMAIN queue' : queue'[j] = queue[i]
    BY <1>1, <1>2
  <2> QED
    BY <2>1, <2>2, LineSame
<1>5. Jobs'
  <2>1. \A i, j \in DOMAIN queue' : queue'[i].by \in Checks /\ queue'[i].by = queue'[j].by => i = j
    <3> TAKE i, j \in DOMAIN queue'
    <3> HAVE queue'[i].by \in Checks /\ queue'[i].by = queue'[j].by
    <3>1. i + 1 = j + 1
      BY <1>1, <1>2 DEF Jobs
    <3> QED
      BY <1>2, <3>1
  <2> QED
    BY <1>1, <1>2, <1>3, <2>1 DEF Jobs
<1> QED
  BY <1>4, <1>5

\* A check goes on by itself.
LEMMA JobsStay ==
  ASSUME Jobs, UNCHANGED queue, NEW k \in Checks, check[k].at # "queued",
         \A x \in Checks \ {k} : check'[x] = check[x],
         check'[k].at # "queued",
         check'[k].at = "idle" => check'[k].todo = {},
         check'[k].at = "alarm" => check'[k].of \in check'[k].todo
  PROVE  Jobs'
<1>1. \A i \in DOMAIN queue : queue[i].by # k
  BY DEF Jobs
<1> QED
  BY <1>1 DEF Jobs

-----------------------------------------------------------------------------
(* Counting.                                                               *)

LEMMA FewAreFinite ==
  ASSUME BaseInv, Works, Jobs, FewRun, NEW s
  PROVE  /\ MayStop(s) \subseteq Running /\ OnIt(s) \subseteq Running
         /\ IsFiniteSet(MayStop(s)) /\ Cardinality(MayStop(s)) \in Nat
         /\ Cardinality(MayStop(s)) <= Cardinality(Running)
         /\ Cardinality(Running) \in Nat
<1>1. OnIt(s) \subseteq Running
  BY DEF OnIt, Running, Jobs
<1>2. MayStop(s) \in SUBSET Running
  BY <1>1 DEF MayStop
<1> QED
  BY <1>1, <1>2, FS_Subset, FS_CardinalityType DEF FewRun

\* No more checks run than ran.
LEMMA RunNoMore ==
  ASSUME FewRun, Running' \subseteq Running, overlaps \in Nat, overlaps' = overlaps
  PROVE  FewRun'
<1> DEFINE R == Running'
<1>1. R \in SUBSET Running
  OBVIOUS
<1> HIDE DEF R
<1>2. IsFiniteSet(R) /\ Cardinality(R) <= Cardinality(Running)
      /\ Cardinality(R) \in Nat /\ Cardinality(Running) \in Nat
  BY <1>1, FS_Subset, FS_CardinalityType DEF FewRun
<1> USE DEF R
<1> QED
  BY <1>2 DEF FewRun

\* A mailbox that no more checks may stop, and that was not stopped now.
LEMMA StopsNoMore ==
  ASSUME BaseInv, Works, LiftInv, NEW s \in Senders, MayStop(s)' \subseteq MayStop(s),
         stops'[s] = stops[s], NEW extra \in Nat,
         overlaps' = overlaps, faults' = faults + extra,
         Spare(s) <= Spare(s)' + extra
  PROVE  stops'[s] + Cardinality(MayStop(s)') <= Spare(s)' + overlaps' + faults'
<1> DEFINE M == MayStop(s)'
<1>1. M \in SUBSET MayStop(s) /\ IsFiniteSet(MayStop(s)) /\ Cardinality(MayStop(s)) \in Nat
  BY FewAreFinite DEF LiftInv
<1>2. stops[s] + Cardinality(MayStop(s)) <= Spare(s) + overlaps + faults
      /\ stops[s] \in Nat /\ overlaps \in Nat /\ faults \in Nat
  BY DEF LiftInv, Counters, FewStops
<1>3. Spare(s) \in Nat /\ Spare(s)' \in Nat
  BY DEF Spare
<1> HIDE DEF M
<1>4. Cardinality(M) <= Cardinality(MayStop(s)) /\ Cardinality(M) \in Nat
  BY <1>1, FS_Subset, FS_CardinalityType
<1>5. stops'[s] + Cardinality(M) <= Spare(s)' + overlaps' + faults'
  BY <1>1, <1>2, <1>3, <1>4
<1> QED
  BY <1>5 DEF M

\* Check k goes on with what is left of its list, owing what it owed.
LEMMA LiftGoes ==
  ASSUME BaseInv, Works, LiftInv, Jobs', NEW k \in Checks,
         \A x \in Checks \ {k} : check'[x] = check[x] /\ (Waits(x, "alert")' <=> Waits(x, "alert")),
         check[k].at # "idle", check'[k].todo \subseteq check[k].todo,
         \A t \in check'[k].todo : Owes(k, t) => Owes(k, t)',
         UNCHANGED <<stops, overlaps>>, raised' \in [Senders -> Nat], NEW extra \in Nat, faults' = faults + extra,
         \A s \in Senders : Spare(s) <= Spare(s)' + extra
  PROVE  LiftInv'
<1>1. Counters'
  BY DEF LiftInv, Counters
<1>2. FewRun'
  <2>1. Running' \subseteq Running
    BY DEF Running
  <2> QED
    BY <2>1, RunNoMore DEF LiftInv, Counters
<1>3. FewStops'
  <2>1. ASSUME NEW s \in Senders
        PROVE  stops'[s] + Cardinality(MayStop(s)') <= Spare(s)' + overlaps' + faults'
    <3>1. MayStop(s)' \subseteq MayStop(s)
      <4>1. ASSUME NEW x \in MayStop(s)' PROVE x \in MayStop(s)
        <5>1. x \in Checks /\ s \in check'[x].todo /\ ~Owes(x, s)'
          BY <4>1 DEF MayStop, OnIt
        <5>2. CASE x = k
          BY <5>1, <5>2 DEF MayStop, OnIt
        <5>3. CASE x # k
          <6>1. check'[x] = check[x] /\ (Waits(x, "alert")' <=> Waits(x, "alert"))
            BY <5>1, <5>3
          <6>2. ~Owes(x, s)
            BY <5>1, <6>1 DEF Owes
          <6> QED
            BY <5>1, <6>1, <6>2 DEF MayStop, OnIt
        <5> QED
          BY <5>2, <5>3
      <4> QED
        BY <4>1
    <3> QED
      BY <3>1, StopsNoMore
  <2> QED
    BY <2>1 DEF FewStops
<1> QED
  BY <1>1, <1>2, <1>3 DEF LiftInv

\* A step that moves no check, and leaves their appends in the line.
LEMMA LiftApart ==
  ASSUME BaseInv, Works, LiftInv, Jobs', UNCHANGED <<check, stops, overlaps, day>>,
         raised' \in [Senders -> Nat],
         \A s \in Senders : raised'[s] = raised[s] \/ raised'[s] = day,
         \A k \in Checks : Waits(k, "alert")' <=> Waits(k, "alert"),
         faults' = faults \/ faults' = faults + 1
  PROVE  LiftInv'
<1>1. PICK extra \in Nat : faults' = faults + extra
  <2>1. faults \in Nat
    BY DEF LiftInv, Counters
  <2>2. CASE faults' = faults
    <3>1. faults' = faults + 0
      BY <2>1, <2>2
    <3> QED
      BY <3>1
  <2>3. CASE faults' = faults + 1
    BY <2>3
  <2> QED
    BY <2>2, <2>3
<1>2. Counters'
  BY <1>1 DEF LiftInv, Counters
<1>3. FewRun'
  BY DEF LiftInv, FewRun, Running
<1>4. ASSUME NEW s \in Senders
      PROVE  stops'[s] + Cardinality(MayStop(s)') <= Spare(s)' + overlaps' + faults'
  <2>1. \A k \in Checks : Owes(k, s)' <=> Owes(k, s)
    BY DEF Owes
  <2>2. OnIt(s)' = OnIt(s)
    BY DEF OnIt
  <2>3. MayStop(s)' = MayStop(s)
    BY <2>1, <2>2 DEF MayStop, OnIt
  <2>4. Spare(s) <= Spare(s)' /\ Spare(s) \in Nat /\ Spare(s)' \in Nat
    BY <2>2 DEF Spare
  <2>5. MayStop(s)' \subseteq MayStop(s) /\ stops'[s] = stops[s] /\ overlaps' = overlaps
    BY <2>3
  <2>6. Spare(s) <= Spare(s)' + extra
    BY <1>1, <2>4
  <2> QED
    BY <1>1, <2>5, <2>6, StopsNoMore
<1> QED
  BY <1>2, <1>3, <1>4 DEF LiftInv, FewStops

-----------------------------------------------------------------------------
(* What the checks do.                                                     *)

\* check k stands at `at' with mailbox `of', its list as it was
Stands(k, at, of) ==
  /\ \A x \in Checks \ {k} : check'[x] = check[x]
  /\ check'[k].at = at /\ check'[k].of = of /\ check'[k].todo = check[k].todo

LEMMA StandsIs ==
  ASSUME Works, NEW k \in Checks, NEW at, NEW of,
         \/ check' = [check EXCEPT ![k].at = at, ![k].of = of]
         \/ check' = [check EXCEPT ![k].at = at] /\ of = check[k].of
  PROVE  Stands(k, at, of)
<1> DEFINE one == [check[k] EXCEPT !.at = at]
           two == [one EXCEPT !.of = of]
<1>1. check \in [Checks -> CheckJob] /\ check[k] \in CheckJob
  BY DEF Works
<1>2. one.at = at /\ one.of = check[k].of /\ one.todo = check[k].todo
      /\ one = [at |-> at, of |-> check[k].of, todo |-> check[k].todo]
  BY <1>1 DEF CheckJob
<1>3. \/ check' = [check EXCEPT ![k] = two]
      \/ check' = [check EXCEPT ![k] = one] /\ of = check[k].of
  BY Zenon
<1> HIDE DEF one
<1>4. two.at = at /\ two.of = of /\ two.todo = check[k].todo
  BY <1>2
<1> HIDE DEF two
<1> QED
  BY <1>1, <1>2, <1>3, <1>4 DEF Stands

LEMMA LiftStands ==
  ASSUME BaseInv, Works, LiftInv, Jobs', NEW k \in Checks, NEW at, NEW of, Stands(k, at, of),
         \A x \in Checks \ {k} : Waits(x, "alert")' <=> Waits(x, "alert"),
         check[k].at # "idle",
         \A t \in check[k].todo : Owes(k, t) => Owes(k, t)',
         UNCHANGED <<stops, overlaps, raised, day>>, NEW extra \in Nat, faults' = faults + extra
  PROVE  LiftInv'
<1>1. \A s \in Senders : Spare(s)' = Spare(s) /\ Spare(s) \in Nat
  <2> TAKE s \in Senders
  <2>1. OnIt(s)' = OnIt(s)
    BY DEF OnIt, Stands
  <2> QED
    BY <2>1 DEF Spare
<1>2. \A s \in Senders : Spare(s) <= Spare(s)' + extra
  BY <1>1
<1>3. \A x \in Checks \ {k} : check'[x] = check[x] /\ (Waits(x, "alert")' <=> Waits(x, "alert"))
  BY DEF Stands
<1>4. check'[k].todo \subseteq check[k].todo /\ \A t \in check'[k].todo : Owes(k, t) => Owes(k, t)'
  BY DEF Stands
<1>5. raised' \in [Senders -> Nat]
  BY DEF LiftInv, Counters
<1> QED
  BY <1>2, <1>3, <1>4, <1>5, LiftGoes

LEMMA CheckPuts ==
  ASSUME BaseInv, Works, LiftInv, NEW k \in Checks, check[k].at # "queued",
         NEW s \in check[k].todo, NEW kind \in {"status", "alert"}, NEW to \in {"", "paused"},
         kind = "status" => to = "paused",
         Enqueue(kind, s, to, k), Stands(k, "queued", s)
  PROVE  /\ Jobs' /\ (Waits(k, "alert")' <=> kind = "alert")
         /\ \A x \in Checks \ {k} : Waits(x, "alert")' <=> Waits(x, "alert")
<1> DEFINE e == [kind |-> kind, of |-> s, to |-> to, by |-> k]
<1>1. s \in Senders
  BY CheckShape
<1>2. e \in Entry
  BY <1>1, ActorsAssumption DEF Entry, Kinds, Statuses
<1>3. e.by = k /\ e.kind = kind /\ e.of = s /\ queue' = Append(queue, e)
  BY DEF Enqueue
<1> HIDE DEF e
<1> QED
  BY <1>2, <1>3, JobsPut DEF Stands, LiftInv

LEMMA LiftPauses ==
  ASSUME BaseInv, Works, LiftInv, NEW k \in Checks, CheckPauses(k)
  PROVE  LiftInv'
<1>1. /\ check[k].at = "next" /\ UNCHANGED <<stops, overlaps, raised, day, faults>>
      /\ faults \in Nat /\ Jobs
  BY DEF CheckPauses, journal, bounds, seen, LiftInv, Counters
<1>2. PICK s \in check[k].todo :
        \/ /\ Enqueue("status", s, "paused", k)
           /\ check' = [check EXCEPT ![k].at = "queued", ![k].of = s]
        \/ /\ check' = [check EXCEPT ![k].at = "alarm", ![k].of = s]
           /\ UNCHANGED queue
  BY DEF CheckPauses
<1>3. PICK extra \in Nat : extra = 0
  OBVIOUS
<1>4. faults' = faults + extra
  BY <1>1, <1>3
<1>5. \A t \in check[k].todo : ~Owes(k, t)
  BY <1>1 DEF Owes
<1>6. CASE Enqueue("status", s, "paused", k)
           /\ check' = [check EXCEPT ![k].at = "queued", ![k].of = s]
  <2>1. Stands(k, "queued", s)
    BY <1>6, StandsIs
  <2>2. Jobs' /\ \A x \in Checks \ {k} : Waits(x, "alert")' <=> Waits(x, "alert")
    BY <1>1, <1>6, <2>1, CheckPuts
  <2> QED
    BY <1>1, <1>4, <1>5, <2>1, <2>2, LiftStands
<1>7. CASE check' = [check EXCEPT ![k].at = "alarm", ![k].of = s] /\ UNCHANGED queue
  <2>1. Stands(k, "alarm", s)
    BY <1>7, StandsIs
  <2>2. Jobs' /\ \A x \in Checks \ {k} : Waits(x, "alert")' <=> Waits(x, "alert")
    <3>1. \A i \in DOMAIN queue : queue[i].by # k
      BY <1>1 DEF Jobs
    <3>2. \A x \in Checks \ {k} : Waits(x, "alert")' <=> Waits(x, "alert")
      BY <1>7 DEF Waits
    <3>3. s \in check'[k].todo /\ check'[k].at = "alarm" /\ check'[k].of = s
      BY <2>1 DEF Stands
    <3>4. \A x \in Checks \ {k} : check'[x] = check[x]
      BY <2>1 DEF Stands
    <3>5. Jobs'
      BY <1>1, <1>7, <3>3, <3>4, JobsStay
    <3> QED
      BY <3>2, <3>5
  <2> QED
    BY <1>1, <1>4, <1>5, <2>1, <2>2, LiftStands
<1> QED
  BY <1>2, <1>6, <1>7

LEMMA LiftRaises ==
  ASSUME BaseInv, Works, LiftInv, NEW k \in Checks, CheckRaises(k)
  PROVE  LiftInv'
<1>1. /\ check[k].at = "alarm" /\ UNCHANGED <<stops, overlaps, raised, day, faults>>
      /\ faults \in Nat /\ check[k].of \in check[k].todo
      /\ Enqueue("alert", check[k].of, "", k)
      /\ check' = [check EXCEPT ![k].at = "queued"]
  BY DEF CheckRaises, journal, bounds, seen, LiftInv, Counters, Jobs
<1>2. PICK extra \in Nat : extra = 0
  OBVIOUS
<1>3. faults' = faults + extra
  <2>1. faults' = faults /\ faults \in Nat
    BY <1>1
  <2> QED
    BY <1>2, <2>1
<1>4. Stands(k, "queued", check[k].of)
  BY <1>1, StandsIs
<1>5. /\ Jobs' /\ Waits(k, "alert")'
      /\ \A x \in Checks \ {k} : Waits(x, "alert")' <=> Waits(x, "alert")
  BY <1>1, <1>4, CheckPuts
<1>6. \A t \in check[k].todo : Owes(k, t) => Owes(k, t)'
  BY <1>4, <1>5 DEF Owes, Stands
<1> QED
  BY <1>1, <1>3, <1>4, <1>5, <1>6, LiftStands

LEMMA LiftReads ==
  ASSUME BaseInv, Works, LiftInv, NEW k \in Checks, CheckReads(k)
  PROVE  LiftInv'
<1>1. PICK todo \in SUBSET Senders :
        /\ check' = [check EXCEPT ![k] = [at |-> "next", of |-> NoOne, todo |-> todo]]
        /\ \A s \in todo : raised[s] # day
  BY DEF CheckReads, Fresh
<1>2. /\ check[k].at = "idle" /\ UNCHANGED <<queue, stops, raised, day, faults>>
      /\ IF \E j \in Checks : check[j].at # "idle" THEN overlaps' = overlaps + 1 ELSE overlaps' = overlaps
  BY DEF CheckReads, journal, bounds, seen
<1>3. /\ \A x \in Checks \ {k} : check'[x] = check[x]
      /\ check'[k].at = "next" /\ check'[k].of = NoOne /\ check'[k].todo = todo
      /\ check[k].todo = {}
  BY <1>1, <1>2, CheckShape DEF LiftInv, Jobs
<1>4. Jobs'
  BY <1>2, <1>3, JobsStay DEF LiftInv
<1>5. overlaps \in Nat /\ overlaps' \in Nat /\ faults \in Nat /\ stops \in [Senders -> Nat]
      /\ faults' = faults /\ stops' = stops /\ raised' \in [Senders -> Nat]
  BY <1>2 DEF LiftInv, Counters
<1>6. Running' = Running \cup {k} /\ k \notin Running
  BY <1>2, <1>3 DEF Running
<1>7. (Running = {} /\ overlaps' = overlaps) \/ overlaps' = overlaps + 1
  BY <1>2 DEF Running
<1>8. FewRun'
  <2> DEFINE R == Running'
  <2>1. R = Running \cup {k}
    BY <1>6
  <2>2. IsFiniteSet(Running) /\ Cardinality(Running) \in Nat /\ Cardinality(Running) <= 1 + overlaps
    BY FS_CardinalityType DEF LiftInv, FewRun
  <2> HIDE DEF R
  <2>3. IsFiniteSet(R) /\ Cardinality(R) = Cardinality(Running) + 1
    BY <1>6, <2>1, <2>2, FS_AddElement
  <2>4. Running = {} => Cardinality(Running) = 0
    BY FS_EmptySet
  <2>5. Cardinality(R) <= 1 + overlaps'
    BY <1>5, <1>7, <2>2, <2>3, <2>4
  <2> QED
    BY <2>3, <2>5 DEF FewRun, R
<1>9. ASSUME NEW s \in Senders
      PROVE  stops'[s] + Cardinality(MayStop(s)') <= Spare(s)' + overlaps' + faults'
  <2> DEFINE M == MayStop(s)'
  <2>1. stops[s] + Cardinality(MayStop(s)) <= Spare(s) + overlaps + faults /\ stops[s] \in Nat
    BY DEF LiftInv, FewStops, Counters
  <2>2. OnIt(s) \subseteq OnIt(s)' /\ (s \in todo => k \in OnIt(s)')
    BY <1>3 DEF OnIt
  <2>3. Spare(s) \in Nat /\ Spare(s)' \in Nat /\ Spare(s) <= Spare(s)'
    BY <1>2, <2>2 DEF Spare
  <2>4. M \subseteq MayStop(s) \cup (IF s \in todo THEN {k} ELSE {})
    <3>1. ASSUME NEW x \in M, x # k PROVE x \in MayStop(s)
      <4>1. x \in Checks /\ s \in check'[x].todo /\ ~Owes(x, s)'
        BY <3>1 DEF MayStop, OnIt
      <4>2. check'[x] = check[x] /\ (Waits(x, "alert")' <=> Waits(x, "alert"))
        BY <1>2, <1>3, <3>1, <4>1 DEF Waits
      <4>3. ~Owes(x, s)
        BY <4>1, <4>2 DEF Owes
      <4> QED
        BY <4>1, <4>2, <4>3 DEF MayStop, OnIt
    <3>2. k \in M => s \in todo
      BY <1>3 DEF MayStop, OnIt
    <3> QED
      BY <3>1, <3>2
  <2>5. IsFiniteSet(MayStop(s)) /\ Cardinality(MayStop(s)) \in Nat /\ MayStop(s) \subseteq Running
    BY FewAreFinite DEF LiftInv
  <2> HIDE DEF M
  <2>6. CASE s \notin todo
    <3>1. M \in SUBSET MayStop(s)
      BY <2>4, <2>6
    <3>2. Cardinality(M) <= Cardinality(MayStop(s)) /\ Cardinality(M) \in Nat
      BY <2>5, <3>1, FS_Subset, FS_CardinalityType
    <3>3. overlaps' >= overlaps
      BY <1>5, <1>7
    <3>4. stops'[s] + Cardinality(M) <= Spare(s)' + overlaps' + faults'
      BY <1>5, <2>1, <2>3, <2>5, <3>2, <3>3
    <3> QED
      BY <3>4 DEF M
  <2>7. CASE s \in todo
    <3> DEFINE U == MayStop(s) \cup {k}
    <3>1. IsFiniteSet(U) /\ Cardinality(U) <= Cardinality(MayStop(s)) + 1 /\ Cardinality(U) \in Nat
      <4>1. IsFiniteSet(U) /\ (Cardinality(U) = Cardinality(MayStop(s)) \/ Cardinality(U) = Cardinality(MayStop(s)) + 1)
        BY <2>5, FS_AddElement
      <4> HIDE DEF U
      <4> QED
        BY <2>5, <4>1
    <3>2. M \in SUBSET U
      BY <2>4, <2>7
    <3> HIDE DEF U
    <3>3. Cardinality(M) <= Cardinality(U) /\ Cardinality(M) \in Nat
      BY <3>1, <3>2, FS_Subset, FS_CardinalityType
    <3>4. CASE overlaps' = overlaps + 1
      <4>1. stops'[s] + Cardinality(M) <= Spare(s)' + overlaps' + faults'
        BY <1>5, <2>1, <2>3, <2>5, <3>1, <3>3, <3>4
      <4> QED
        BY <4>1 DEF M
    <3>5. CASE Running = {} /\ overlaps' = overlaps
      <4>1. OnIt(s) = {}
        BY <3>5, FewAreFinite DEF LiftInv
      <4>2. Spare(s) = 0 /\ Spare(s)' = 1
        BY <1>1, <2>2, <2>7, <4>1 DEF Spare
      <4>3. stops'[s] + Cardinality(M) <= Spare(s)' + overlaps' + faults'
        BY <1>5, <2>1, <2>5, <3>1, <3>3, <3>5, <4>2
      <4> QED
        BY <4>3 DEF M
    <3> QED
      BY <1>7, <3>4, <3>5
  <2> QED
    BY <2>6, <2>7
<1>10. Counters'
  BY <1>5 DEF Counters
<1> QED
  BY <1>4, <1>8, <1>9, <1>10 DEF LiftInv, FewStops

-----------------------------------------------------------------------------
(* What becomes of their appends.                                          *)

\* the check whose append is first in the line
LEMMA FirstIs ==
  ASSUME BaseInv, Works, LiftInv, queue # <<>>, NEW k \in Checks, Head(queue).by = k
  PROVE  /\ check[k].at = "queued" /\ check[k].of = Head(queue).of
         /\ check[k].of \in check[k].todo /\ check[k].of \in Senders
         /\ Head(queue).kind \in {"status", "alert"}
         /\ Waits(k, "alert") <=> Head(queue).kind = "alert"
<1>1. queue \in Seq(Entry) /\ Head(queue) = queue[1] /\ 1 \in DOMAIN queue
  BY HeadIs, CheckShape
<1>2. /\ check[k].at = "queued" /\ check[k].of = queue[1].of /\ check[k].of \in check[k].todo
      /\ queue[1].kind \in {"status", "alert"}
  BY <1>1 DEF LiftInv, Jobs
<1>3. \A i \in DOMAIN queue : queue[i].by = k => i = 1
  BY <1>1 DEF LiftInv, Jobs
<1>4. check[k].of \in Senders
  BY <1>2, CheckShape
<1> QED
  BY <1>1, <1>2, <1>3, <1>4 DEF Waits

\* A check's pause is in the journal.
LEMMA LiftStopped ==
  ASSUME BaseInv, Works, LiftInv, Lands, NEW k \in Checks, Head(queue).by = k,
         Head(queue).kind = "status"
  PROVE  LiftInv'
<1> DEFINE s == check[k].of
<1>1. /\ queue # <<>> /\ queue' = Tail(queue) /\ check' = [check EXCEPT ![k].at = "alarm"]
      /\ UNCHANGED <<raised, overlaps, day, faults>>
      /\ stops' = [stops EXCEPT ![Head(queue).of] = @ + 1]
  BY DEF Lands, Landed, Noted, bounds
<1>2. /\ check[k].at = "queued" /\ s = Head(queue).of /\ s \in check[k].todo /\ s \in Senders
      /\ ~Waits(k, "alert")
  BY <1>1, FirstIs
<1>3. Stands(k, "alarm", s)
  BY <1>1, StandsIs
<1>4. /\ \A x \in Checks \ {k} : check'[x] = check[x]
      /\ check'[k].at = "alarm" /\ check'[k].of = s /\ check'[k].todo = check[k].todo
  BY <1>3 DEF Stands
<1>5. Jobs' /\ \A x \in Checks \ {k} : Waits(x, "alert")' <=> Waits(x, "alert")
  <2>1. queue # <<>> /\ queue' = Tail(queue)
    BY <1>1
  <2>2. s \in check[k].todo
    BY <1>2
  <2> HIDE DEF s
  <2> QED
    BY <1>4, <2>1, <2>2, JobsGo DEF LiftInv
<1>6. /\ stops \in [Senders -> Nat] /\ stops' \in [Senders -> Nat] /\ stops'[s] = stops[s] + 1
      /\ \A t \in Senders \ {s} : stops'[t] = stops[t]
  <2>1. stops' = [stops EXCEPT ![s] = @ + 1] /\ stops \in [Senders -> Nat] /\ s \in Senders
    BY <1>1, <1>2 DEF LiftInv, Counters
  <2> HIDE DEF s
  <2> QED
    BY <2>1
<1>7. /\ overlaps \in Nat /\ faults \in Nat /\ overlaps' = overlaps /\ faults' = faults
      /\ raised' \in [Senders -> Nat]
  BY <1>1 DEF LiftInv, Counters
<1> HIDE DEF s
<1>8. \A t \in Senders : OnIt(t)' = OnIt(t)
  BY <1>4 DEF OnIt
<1>9. \A t \in Senders : Spare(t)' = Spare(t) /\ Spare(t) \in Nat
  BY <1>1, <1>8 DEF Spare
<1>10. \A t \in Senders, x \in Checks \ {k} : Owes(x, t)' <=> Owes(x, t)
  BY <1>4, <1>5 DEF Owes
<1>11. \A t \in Senders : ~Owes(k, t) /\ (Owes(k, t)' <=> t = s)
  BY <1>2, <1>4 DEF Owes
<1>12. FewRun'
  <2>1. Running' \subseteq Running
    BY <1>2, <1>4 DEF Running
  <2> QED
    BY <1>7, <2>1, RunNoMore DEF LiftInv
<1>13. ASSUME NEW t \in Senders
       PROVE  stops'[t] + Cardinality(MayStop(t)') <= Spare(t)' + overlaps' + faults'
  <2>1. CASE t = s
    <3> DEFINE M == MayStop(t)'
    <3>1. M = MayStop(t) \ {k} /\ k \in MayStop(t)
      BY <1>2, <1>8, <1>10, <1>11, <2>1 DEF MayStop, OnIt
    <3>2. IsFiniteSet(MayStop(t)) /\ Cardinality(MayStop(t)) \in Nat
      BY FewAreFinite DEF LiftInv
    <3> HIDE DEF M
    <3>3. Cardinality(M) = Cardinality(MayStop(t)) - 1
      BY <3>1, <3>2, FS_RemoveElement
    <3>4. stops[t] + Cardinality(MayStop(t)) <= Spare(t) + overlaps + faults
          /\ stops[t] \in Nat /\ stops'[t] = stops[t] + 1
      BY <1>6, <2>1 DEF LiftInv, FewStops
    <3>5. stops'[t] + Cardinality(M) <= Spare(t)' + overlaps' + faults'
      BY <1>7, <1>9, <3>2, <3>3, <3>4
    <3> QED
      BY <3>5 DEF M
  <2>2. CASE t # s
    <3>1. MayStop(t)' \subseteq MayStop(t)
      BY <1>8, <1>10, <1>11, <2>2 DEF MayStop, OnIt
    <3>2. stops'[t] = stops[t]
      BY <1>6, <2>2
    <3>3. PICK extra \in Nat : extra = 0
      OBVIOUS
    <3>4. faults' = faults + extra /\ Spare(t) <= Spare(t)' + extra
      BY <1>7, <1>9, <3>3
    <3> QED
      BY <1>7, <3>1, <3>2, <3>4, StopsNoMore
  <2> QED
    BY <2>1, <2>2
<1>14. Counters'
  BY <1>6, <1>7 DEF Counters
<1> QED
  BY <1>5, <1>12, <1>13, <1>14 DEF LiftInv, FewStops

\* A check's alarm is in the journal: it is done with that mailbox.
LEMMA LiftAlarmed ==
  ASSUME BaseInv, Works, LiftInv, Lands, NEW k \in Checks, Head(queue).by = k,
         Head(queue).kind = "alert"
  PROVE  LiftInv'
<1> DEFINE s == check[k].of
           new == AfterAlarm(k)
<1>1. /\ queue # <<>> /\ queue' = Tail(queue) /\ check' = [check EXCEPT ![k] = new]
      /\ UNCHANGED <<stops, overlaps, day, faults>>
      /\ raised' = [raised EXCEPT ![Head(queue).of] = day]
  BY DEF Lands, Landed, Noted, bounds
<1>2. /\ check[k].at = "queued" /\ s = Head(queue).of /\ s \in check[k].todo /\ s \in Senders
  BY <1>1, FirstIs
<1>3. /\ new.at \in {"idle", "next"} /\ new.todo = check[k].todo \ {s}
      /\ new.at = "idle" => new.todo = {}
  BY DEF AfterAlarm, IdleWork
<1> HIDE DEF new
<1>4. /\ \A x \in Checks \ {k} : check'[x] = check[x]
      /\ check'[k].at \in {"idle", "next"} /\ check'[k].todo = check[k].todo \ {s}
      /\ check'[k].at = "idle" => check'[k].todo = {}
  BY <1>1, <1>3, CheckShape
<1>5. Jobs' /\ \A x \in Checks \ {k} : Waits(x, "alert")' <=> Waits(x, "alert")
  <2>1. queue # <<>> /\ queue' = Tail(queue)
    BY <1>1
  <2> QED
    BY <1>4, <2>1, JobsGo DEF LiftInv
<1>6. \A t \in Senders \ {s} : OnIt(t)' = OnIt(t)
  BY <1>4 DEF OnIt
<1>7. /\ raised' \in [Senders -> Nat] /\ raised'[s] = day
      /\ \A t \in Senders \ {s} : raised'[t] = raised[t]
  <2>1. raised' = [raised EXCEPT ![s] = day] /\ raised \in [Senders -> Nat] /\ day \in Nat /\ s \in Senders
    BY <1>1, <1>2 DEF LiftInv, Counters, BaseInv, Tables
  <2> HIDE DEF s
  <2> QED
    BY <2>1
<1>8. PICK extra \in Nat : extra = 0
  OBVIOUS
<1>9. \A t \in Senders : Spare(t) <= Spare(t)' + extra
  <2> TAKE t \in Senders
  <2>0. Spare(t) \in Nat /\ Spare(t)' \in Nat /\ Spare(t) <= 1 /\ day' = day
    BY <1>1 DEF Spare
  <2>1. CASE t = s
    <3>1. Spare(t)' = 1
      BY <1>7, <2>0, <2>1 DEF Spare
    <3> QED
      BY <1>8, <2>0, <3>1
  <2>2. CASE t # s
    <3>1. Spare(t)' = Spare(t)
      BY <1>6, <1>7, <2>0, <2>2 DEF Spare
    <3> QED
      BY <1>8, <2>0, <3>1
  <2> QED
    BY <2>1, <2>2
<1>10. \A t \in check'[k].todo : ~Owes(k, t)
  BY <1>4 DEF Owes
<1>11. faults' = faults + extra
  <2>1. faults' = faults /\ faults \in Nat
    BY <1>1 DEF LiftInv, Counters
  <2> QED
    BY <1>8, <2>1
<1>12. /\ \A x \in Checks \ {k} : check'[x] = check[x] /\ (Waits(x, "alert")' <=> Waits(x, "alert"))
       /\ check[k].at # "idle" /\ check'[k].todo \subseteq check[k].todo
       /\ UNCHANGED <<stops, overlaps>> /\ raised' \in [Senders -> Nat]
  BY <1>1, <1>2, <1>4, <1>5, <1>7
<1>13. \A t \in check'[k].todo : Owes(k, t) => Owes(k, t)'
  BY <1>10
<1> QED
  BY <1>5, <1>9, <1>11, <1>12, <1>13, LiftGoes

LEMMA LiftLands ==
  ASSUME BaseInv, Works, LiftInv, Lands
  PROVE  LiftInv'
<1>1. CASE Head(queue).by \in Checks
  <2>1. Head(queue).kind \in {"status", "alert"}
    BY <1>1, FirstIs DEF Lands
  <2> QED
    BY <1>1, <2>1, LiftStopped, LiftAlarmed
<1>2. CASE Head(queue).by \notin Checks
  <2>1. /\ queue # <<>> /\ queue' = Tail(queue)
        /\ UNCHANGED <<check, stops, overlaps, day, faults>>
    BY <1>2 DEF Lands, Landed, Noted, bounds
  <2>2. Jobs' /\ \A k \in Checks : Waits(k, "alert")' <=> Waits(k, "alert")
    BY <1>2, <2>1, JobsLess DEF LiftInv
  <2>3. raised' \in [Senders -> Nat] /\ \A s \in Senders : raised'[s] = raised[s] \/ raised'[s] = day
    <3>1. raised' = [raised EXCEPT ![Head(queue).of] = day] \/ raised' = raised
      BY DEF Lands
    <3>2. raised \in [Senders -> Nat] /\ day \in Nat
      BY DEF LiftInv, Counters, BaseInv, Tables
    <3> QED
      BY <3>1, <3>2
  <2> QED
    BY <2>1, <2>2, <2>3, LiftApart
<1> QED
  BY <1>1, <1>2

LEMMA LiftFails ==
  ASSUME BaseInv, Works, LiftInv, LandFails
  PROVE  LiftInv'
<1> DEFINE e == Head(queue)
           unsaid == e.by \in Singles \cup Replies /\ e.kind \in {"sent", "status"}
           f == [kind |-> "failed", of |-> e.of, to |-> "", by |-> e.by]
<1>1. /\ queue # <<>> /\ UNCHANGED <<stops, raised, overlaps, day>> /\ faults' = faults + 1
      /\ e \in Entry
      /\ raised' \in [Senders -> Nat] /\ \A s \in Senders : raised'[s] = raised[s] \/ raised'[s] = day
  BY HeadIs DEF LandFails, journal, LiftInv, Counters
<1>2. CASE e.by \notin Checks
  <2>1. UNCHANGED check
    BY <1>2 DEF LandFails
  <2>2. CASE unsaid
    <3>1. e.by \in Writers /\ queue' = Append(Tail(queue), f)
      BY <2>2 DEF LandFails, Writers
    <3>2. e.of \in Senders
      BY <1>1, <3>1, HeadIs
    <3>3. f \in Entry /\ f.by = e.by
      BY <1>1, <3>1, <3>2 DEF Entry, Kinds
    <3> HIDE DEF f, unsaid
    <3>4. Jobs' /\ \A k \in Checks : Waits(k, "alert")' <=> Waits(k, "alert")
      BY <1>1, <1>2, <2>1, <3>1, <3>3, JobsTurn DEF LiftInv
    <3> QED
      BY <1>1, <2>1, <3>4, LiftApart
  <2>3. CASE ~unsaid
    <3>1. queue' = Tail(queue)
      BY <2>3 DEF LandFails
    <3>2. Jobs' /\ \A k \in Checks : Waits(k, "alert")' <=> Waits(k, "alert")
      BY <1>1, <1>2, <2>1, <3>1, JobsLess DEF LiftInv
    <3> QED
      BY <1>1, <2>1, <3>2, LiftApart
  <2> QED
    BY <2>2, <2>3
<1>3. ASSUME NEW k \in Checks, e.by = k
      PROVE  LiftInv'
  <2>1. /\ check[k].at = "queued" /\ check[k].of = e.of /\ e.of \in check[k].todo
        /\ e.kind \in {"status", "alert"} /\ (Waits(k, "alert") <=> e.kind = "alert")
    BY <1>1, <1>3, FirstIs
  <2>2. queue' = Tail(queue)
    <3>1. k \notin Singles \cup Replies
      BY <1>3, ActorsAssumption DEF Writers
    <3> QED
      BY <1>3, <3>1 DEF LandFails
  <2>3. PICK extra \in Nat : extra = 1
    OBVIOUS
  <2>4. CASE e.kind = "status"
    <3>1. check' = [check EXCEPT ![k].at = "alarm"]
      BY <1>3, <2>4 DEF LandFails
    <3>2. Stands(k, "alarm", e.of)
      BY <2>1, <3>1, StandsIs
    <3>3. /\ \A x \in Checks \ {k} : check'[x] = check[x]
          /\ check'[k].at = "alarm" /\ check'[k].of \in check'[k].todo
      BY <2>1, <3>2 DEF Stands
    <3>4. Jobs' /\ \A x \in Checks \ {k} : Waits(x, "alert")' <=> Waits(x, "alert")
      BY <1>1, <1>3, <2>2, <3>3, JobsGo DEF LiftInv
    <3>5. \A t \in check[k].todo : ~Owes(k, t)
      BY <2>1, <2>4 DEF Owes
    <3>6. faults' = faults + extra
      BY <1>1, <2>3
    <3> QED
      BY <1>1, <2>1, <3>2, <3>4, <3>5, <3>6, LiftStands
  <2>5. CASE e.kind = "alert"
    <3>1. check' = [check EXCEPT ![k] = IdleWork]
      BY <1>3, <2>5 DEF LandFails
    <3>2. /\ \A x \in Checks \ {k} : check'[x] = check[x]
          /\ check'[k].at = "idle" /\ check'[k].todo = {}
      BY <3>1, CheckShape DEF IdleWork
    <3>3. Jobs' /\ \A x \in Checks \ {k} : Waits(x, "alert")' <=> Waits(x, "alert")
      BY <1>1, <1>3, <2>2, <3>2, JobsGo DEF LiftInv
    <3>4. \A s \in Senders : Spare(s) <= Spare(s)' + extra
      BY <2>3 DEF Spare
    <3>5. faults' = faults + extra
      BY <1>1, <2>3
    <3>6. raised' \in [Senders -> Nat]
      BY <1>1 DEF LiftInv, Counters
    <3>7. \A x \in Checks \ {k} : check'[x] = check[x] /\ (Waits(x, "alert")' <=> Waits(x, "alert"))
      BY <3>2, <3>3
    <3> QED
      BY <1>1, <2>1, <3>2, <3>3, <3>4, <3>5, <3>6, <3>7, LiftGoes
  <2> QED
    BY <2>1, <2>4, <2>5
<1> QED
  BY <1>2, <1>3

LEMMA LiftRestart ==
  ASSUME BaseInv, Works, LiftInv, Restart
  PROVE  LiftInv'
<1>1. /\ queue' = <<>> /\ check' = [k \in Checks |-> IdleWork] /\ faults' = faults + 1
      /\ UNCHANGED <<stops, raised, overlaps>>
  BY DEF Restart, journal, seen
<1>2. /\ \A k \in Checks : check'[k].at = "idle" /\ check'[k].todo = {}
      /\ Running' = {} /\ \A s \in Senders : MayStop(s)' = {}
  BY <1>1 DEF IdleWork, Running, MayStop, OnIt
<1>3. Jobs'
  BY <1>1, <1>2 DEF Jobs
<1>4. Counters'
  BY <1>1 DEF LiftInv, Counters
<1>5. FewRun'
  BY <1>1, <1>2, FS_EmptySet DEF FewRun, LiftInv, Counters
<1>6. ASSUME NEW s \in Senders
      PROVE  stops'[s] + Cardinality(MayStop(s)') <= Spare(s)' + overlaps' + faults'
  <2>1. stops[s] + Cardinality(MayStop(s)) <= Spare(s) + overlaps + faults
        /\ stops[s] \in Nat /\ overlaps \in Nat /\ faults \in Nat
        /\ Cardinality(MayStop(s)) \in Nat
    BY FewAreFinite DEF LiftInv, FewStops, Counters
  <2>2. Spare(s) \in {0, 1} /\ Spare(s)' \in {0, 1}
    BY DEF Spare
  <2>3. Cardinality(MayStop(s)') = 0 /\ stops'[s] = stops[s]
    BY <1>1, <1>2, FS_EmptySet
  <2> QED
    BY <1>1, <2>1, <2>2, <2>3
<1> QED
  BY <1>3, <1>4, <1>5, <1>6 DEF LiftInv, FewStops

\* a day begins with the checks that still run
LEMMA LiftNextDay ==
  ASSUME BaseInv, Works, LiftInv, NextDay
  PROVE  LiftInv'
<1>1. /\ UNCHANGED <<queue, check, raised, overlaps, faults>>
      /\ stops' = [s \in Senders |-> 0]
  BY DEF NextDay
<1>2. Jobs' /\ FewRun'
  BY <1>1 DEF LiftInv, Jobs, FewRun, Running
<1>3. Counters'
  BY <1>1 DEF LiftInv, Counters
<1>4. ASSUME NEW s \in Senders
      PROVE  stops'[s] + Cardinality(MayStop(s)') <= Spare(s)' + overlaps' + faults'
  <2>1. OnIt(s)' = OnIt(s)
    BY <1>1 DEF OnIt
  <2>2. \A k \in Checks : Owes(k, s)' <=> Owes(k, s)
    BY <1>1 DEF Owes, Waits
  <2>3. MayStop(s)' = MayStop(s)
    BY <2>1, <2>2 DEF MayStop, OnIt
  <2>4. /\ Cardinality(MayStop(s)) \in Nat /\ Cardinality(Running) \in Nat
        /\ Cardinality(MayStop(s)) <= Cardinality(Running)
        /\ Cardinality(Running) <= 1 + overlaps
        /\ overlaps \in Nat /\ faults \in Nat
    BY FewAreFinite DEF LiftInv, FewRun, Counters
  <2>5. stops'[s] = 0 /\ overlaps' = overlaps /\ faults' = faults
    BY <1>1
  <2>6. CASE OnIt(s) = {}
    <3>1. MayStop(s) = {}
      BY <2>6 DEF MayStop
    <3>2. Cardinality(MayStop(s)') = 0 /\ Spare(s)' \in Nat
      BY <2>3, <3>1, FS_EmptySet DEF Spare
    <3> QED
      BY <2>4, <2>5, <3>2
  <2>7. CASE OnIt(s) # {}
    <3>1. Spare(s)' = 1
      BY <2>1, <2>7 DEF Spare
    <3> QED
      BY <2>3, <2>4, <2>5, <3>1
  <2> QED
    BY <2>6, <2>7
<1> QED
  BY <1>2, <1>3, <1>4 DEF LiftInv, FewStops

LEMMA EnqueuedBy ==
  ASSUME NEW kind, NEW of, NEW to, NEW by, Enqueue(kind, of, to, by)
  PROVE  \E e : e.by = by /\ queue' = Append(queue, e)
<1> DEFINE e == [kind |-> kind, of |-> of, to |-> to, by |-> by]
<1>1. e.by = by /\ queue' = Append(queue, e)
  BY DEF Enqueue
<1> HIDE DEF e
<1> QED
  BY <1>1

\* What reviews and people append is no check's.
LEMMA LiftOthers ==
  ASSUME BaseInv, Works, LiftInv, Others
  PROVE  LiftInv'
<1>1. ASSUME NEW k \in Checks, CheckReads(k) \/ CheckPauses(k) \/ CheckRaises(k)
      PROVE  LiftInv'
  BY <1>1, LiftReads, LiftPauses, LiftRaises
<1>2. ASSUME UNCHANGED <<check, stops, overlaps, raised, day, faults>>,
             UNCHANGED queue \/ \E e : e.by \notin Checks /\ queue' = Append(queue, e)
      PROVE  LiftInv'
  <2>1. /\ raised' \in [Senders -> Nat]
        /\ \A s \in Senders : raised'[s] = raised[s] \/ raised'[s] = day
    BY <1>2 DEF LiftInv, Counters
  <2>2. Jobs' /\ \A k \in Checks : Waits(k, "alert")' <=> Waits(k, "alert")
    <3>1. CASE UNCHANGED queue
      BY <1>2, <3>1 DEF LiftInv, Jobs, Waits
    <3>2. ASSUME NEW e, e.by \notin Checks, queue' = Append(queue, e)
          PROVE  Jobs' /\ \A k \in Checks : Waits(k, "alert")' <=> Waits(k, "alert")
      <4>1. queue \in Seq(Entry) /\ queue' \in Seq(Entry)
        BY OthersBase, CheckShape DEF BaseInv, InLine
      <4>2. e = Append(queue, e)[Len(queue) + 1] /\ Len(queue) + 1 \in DOMAIN Append(queue, e)
        BY <4>1
      <4>3. e \in Entry
        BY <3>2, <4>1, <4>2
      <4> QED
        BY <1>2, <3>2, <4>3, JobsMore DEF LiftInv
    <3> QED
      BY <1>2, <3>1, <3>2
  <2> QED
    BY <1>2, <2>1, <2>2, LiftApart
<1>3. \A by \in Reviews \cup {Person} : by \notin Checks
  BY ActorsAssumption
<1>4. CASE \E s \in Senders : PolicyBounce(s)
  BY <1>2, <1>4 DEF PolicyBounce, bounds, seen
<1>5. ASSUME NEW v \in Reviews, ReviewReads(v) \/ ReviewSteps(v)
      PROVE  LiftInv'
  <2>1. UNCHANGED <<check, stops, overlaps, raised, day, faults>>
    BY <1>5 DEF ReviewReads, ReviewSteps, journal, bounds, seen
  <2>2. UNCHANGED queue \/ \E up \in review[v].todo : Enqueue("stage", up[1], up[2], v)
    BY <1>5 DEF ReviewReads, ReviewSteps
  <2>3. UNCHANGED queue \/ \E e : e.by = v /\ queue' = Append(queue, e)
    BY <2>2, EnqueuedBy
  <2> QED
    BY <1>2, <1>3, <2>1, <2>3
<1>6. CASE SetSenderStatus \/ SetDomainStatus \/ UpdateStage \/ UpdateCeiling
  <2>1. UNCHANGED <<check, stops, overlaps, raised, day, faults>>
    BY <1>6 DEF SetSenderStatus, SetDomainStatus, UpdateStage, UpdateCeiling, journal, bounds, seen
  <2>2. \E kind, of, to : Enqueue(kind, of, to, Person)
    BY <1>6 DEF SetSenderStatus, SetDomainStatus, UpdateStage, UpdateCeiling
  <2>3. \E e : e.by = Person /\ queue' = Append(queue, e)
    BY <2>2, EnqueuedBy
  <2> QED
    BY <1>2, <1>3, <2>1, <2>3
<1> QED
  BY <1>1, <1>4, <1>5, <1>6 DEF Others

LEMMA LiftWriter ==
  ASSUME BaseInv, Works, LiftInv, NEW w \in Writers, WriterSteps(w)
  PROVE  LiftInv'
<1>1. /\ UNCHANGED <<check, day>>
      /\ queue' = queue \/ \E e \in Entry : e.by \in Writers /\ queue' = Append(queue, e)
  BY WriterBase
<1>2. \/ UNCHANGED <<stops, overlaps, raised, faults>>
      \/ UNCHANGED <<stops, overlaps, raised>> /\ faults' = faults + 1
  BY DEF WriterSteps, ReadFirst, GiveUp, Gate, Accepted, AnswerLost, Refused, AfterPause,
         Attempt, QuickReply, journal, bounds, seen
<1>3. Jobs' /\ \A k \in Checks : Waits(k, "alert")' <=> Waits(k, "alert")
  <2>1. CASE queue' = queue
    BY <1>1, <2>1 DEF LiftInv, Jobs, Waits
  <2>2. ASSUME NEW e \in Entry, e.by \in Writers, queue' = Append(queue, e)
        PROVE  Jobs' /\ \A k \in Checks : Waits(k, "alert")' <=> Waits(k, "alert")
    <3>1. e.by \notin Checks
      BY <2>2, ActorsAssumption
    <3> QED
      BY <1>1, <2>2, <3>1, JobsMore DEF LiftInv
  <2> QED
    BY <1>1, <2>1, <2>2
<1>4. /\ raised' \in [Senders -> Nat]
      /\ \A s \in Senders : raised'[s] = raised[s] \/ raised'[s] = day
  BY <1>2 DEF LiftInv, Counters
<1> QED
  BY <1>1, <1>2, <1>3, <1>4, LiftApart

LEMMA LiftInit == Init => LiftInv
<1> SUFFICES ASSUME Init PROVE LiftInv
  OBVIOUS
<1>1. /\ \A k \in Checks : check[k].at = "idle" /\ check[k].todo = {}
      /\ Running = {} /\ \A s \in Senders : MayStop(s) = {}
  BY DEF Init, IdleWork, Running, MayStop, OnIt
<1>2. Jobs
  BY <1>1 DEF Init, Jobs
<1>3. Counters /\ overlaps = 0 /\ faults = 0 /\ \A s \in Senders : stops[s] = 0
  BY DEF Init, Counters
<1>4. FewRun
  BY <1>1, <1>3, FS_EmptySet DEF FewRun
<1>5. FewStops
  BY <1>1, <1>3, FS_EmptySet DEF FewStops, Spare
<1> QED
  BY <1>2, <1>3, <1>4, <1>5 DEF LiftInv

LEMMA LiftNext == Shape /\ LiftInv /\ [Next]_vars => LiftInv'
<1> SUFFICES ASSUME Shape, LiftInv, [Next]_vars PROVE LiftInv'
  OBVIOUS
<1> USE DEF Shape
<1>1. ASSUME NEW w \in Writers, WriterSteps(w) PROVE LiftInv'
  BY <1>1, LiftWriter
<1>2. CASE Others
  BY <1>2, LiftOthers
<1>3. CASE Lands
  BY <1>3, LiftLands
<1>4. CASE LandFails
  BY <1>4, LiftFails
<1>5. CASE Restart
  BY <1>5, LiftRestart
<1>6. CASE NextDay
  BY <1>6, LiftNextDay
<1>7. CASE UNCHANGED vars
  <2>1. UNCHANGED <<queue, check, stops, overlaps, raised, day, faults>>
    BY <1>7 DEF vars, journal, bounds, seen
  <2>2. Jobs' /\ \A k \in Checks : Waits(k, "alert")' <=> Waits(k, "alert")
    BY <2>1 DEF LiftInv, Jobs, Waits
  <2>3. raised' \in [Senders -> Nat] /\ \A s \in Senders : raised'[s] = raised[s]
    BY <2>1 DEF LiftInv, Counters
  <2> QED
    BY <2>1, <2>2, <2>3, LiftApart
<1> QED
  BY <1>1, <1>2, <1>3, <1>4, <1>5, <1>6, <1>7, NextSplits

\* An alarm pauses a mailbox once a day (LiftedStaysLifted), but for the checks that
\* ran side by side and the ones cut off between the pause and its alarm, however
\* many mailboxes, checks and days.
THEOREM PauseStaysLifted == Spec => []LiftedStaysLifted
<1>1. Shape /\ LiftInv => LiftedStaysLifted
  <2> SUFFICES ASSUME Shape, LiftInv, NEW s \in Senders PROVE stops[s] <= 1 + overlaps + faults
    BY DEF LiftedStaysLifted
  <2>1. /\ stops[s] + Cardinality(MayStop(s)) <= Spare(s) + overlaps + faults
        /\ stops[s] \in Nat /\ overlaps \in Nat /\ faults \in Nat
        /\ Cardinality(MayStop(s)) \in Nat
    BY FewAreFinite DEF LiftInv, FewStops, Counters, Shape
  <2>2. Spare(s) \in {0, 1}
    BY DEF Spare
  <2> QED
    BY <2>1, <2>2
<1> QED
  BY <1>1, ShapeInit, ShapeNext, LiftInit, LiftNext, PTL DEF Spec

-----------------------------------------------------------------------------
(* Counts of all the mailboxes.                                            *)

Count == [Senders -> Int]
N == Cardinality(Senders)

LEMMA RowIs ==
  /\ N \in Nat /\ InRow \in [1 .. N -> Senders]
  /\ \A i, j \in 1 .. N : InRow[i] = InRow[j] => i = j
<1>1. N \in Nat /\ ExistsBijection(1 .. N, Senders)
  BY DomainAssumption, FS_CardinalityType DEF N
<1>2. InRow \in Bijection(1 .. N, Senders)
  BY <1>1, Zenon DEF InRow, N, ExistsBijection
<1> QED
  BY <1>1, <1>2 DEF Bijection, Injection, IsInjective

LEMMA SmallestIn ==
  ASSUME NEW T \in SUBSET Nat, T # {}
  PROVE  \E x \in T : \A y \in T : ~(y < x)
<1> DEFINE R == OpToRel(<, Nat)
<1>1. \A x, y \in Nat : <<x, y>> \in R <=> x < y
  BY DEF OpToRel
<1>2. IsWellFoundedOn(R, Nat)
  BY NatLessThanWellFounded
<1> HIDE DEF R
<1>3. PICK x \in T : \A y \in T : ~(<<y, x>> \in R)
  BY <1>2, WFMin
<1> QED
  BY <1>1, <1>3

\* g adds the first n of a count up, one after another
Adds(g, c, n) == g = [i \in 0 .. n |-> IF i = 0 THEN 0 ELSE g[i - 1] + c[InRow[i]]]

LEMMA SumExists ==
  ASSUME NEW c \in Count
  PROVE  \E g \in [0 .. N -> Int] : Adds(g, c, N)
<1> DEFINE P(m) == \E g \in [0 .. m -> Int] : Adds(g, c, m)
           T == {m \in 0 .. N : ~P(m)}
<1>0. N \in Nat /\ \A i \in 1 .. N : c[InRow[i]] \in Int
  BY RowIs DEF Count
<1>1. T = {}
  <2> SUFFICES ASSUME T # {} PROVE FALSE
    OBVIOUS
  <2>1. PICK m \in T : \A y \in T : ~(y < m)
    <3>1. T \in SUBSET Nat
      BY <1>0
    <3> HIDE DEF T
    <3> QED
      BY <3>1, SmallestIn
  <2>2. CASE m = 0
    <3>1. [i \in 0 .. 0 |-> 0] = [i \in 0 .. 0 |-> IF i = 0 THEN 0 ELSE [j \in 0 .. 0 |-> 0][i - 1] + c[InRow[i]]]
      OBVIOUS
    <3>2. Adds([i \in 0 .. 0 |-> 0], c, 0) /\ [i \in 0 .. 0 |-> 0] \in [0 .. 0 -> Int]
      BY <3>1 DEF Adds
    <3> QED
      BY <2>2, <3>2
  <2>3. CASE m # 0
    <3>1. m - 1 \in 0 .. N /\ m - 1 < m /\ m \in 1 .. N
      BY <1>0, <2>3
    <3>2. PICK g \in [0 .. m - 1 -> Int] : Adds(g, c, m - 1)
      BY <2>1, <3>1
    <3> DEFINE h == [i \in 0 .. m |-> IF i < m THEN g[i] ELSE g[m - 1] + c[InRow[m]]]
    <3>3. c[InRow[m]] \in Int /\ g[m - 1] \in Int
      BY <1>0, <3>1
    <3>4. h \in [0 .. m -> Int]
      BY <3>1, <3>3
    <3>5. ASSUME NEW i \in 0 .. m
          PROVE  h[i] = IF i = 0 THEN 0 ELSE h[i - 1] + c[InRow[i]]
      <4>1. CASE i = m
        <5>1. h[i] = g[m - 1] + c[InRow[m]] /\ h[i - 1] = g[m - 1]
          BY <3>1, <4>1
        <5> QED
          BY <2>3, <4>1, <5>1
      <4>2. CASE i < m
        <5>1. i \in 0 .. m - 1
          BY <3>1, <4>2
        <5>2. g[i] = IF i = 0 THEN 0 ELSE g[i - 1] + c[InRow[i]]
          BY <3>2, <5>1 DEF Adds
        <5>3. h[i] = g[i] /\ (i # 0 => h[i - 1] = g[i - 1])
          BY <4>2, <5>1
        <5> QED
          BY <5>2, <5>3
      <4> QED
        BY <4>1, <4>2
    <3>6. Adds(h, c, m)
      <4>1. h = [i \in 0 .. m |-> h[i]]
        BY <3>4
      <4> HIDE DEF h
      <4> QED
        BY <3>5, <4>1 DEF Adds
    <3> HIDE DEF h
    <3>7. P(m)
      BY <3>4, <3>6
    <3> QED
      BY <3>7
  <2> QED
    BY <2>2, <2>3
<1>2. N \in 0 .. N
  BY <1>0
<1> QED
  BY <1>1, <1>2

LEMMA TotalIs ==
  ASSUME NEW c \in Count
  PROVE  \E g : /\ Total(c) = g[N] /\ g[0] = 0
                /\ \A i \in 1 .. N : g[i] = g[i - 1] + c[InRow[i]] /\ g[i] \in Int
<1> DEFINE g == CHOOSE sum : sum = [i \in 0 .. N |-> IF i = 0 THEN 0 ELSE sum[i - 1] + c[InRow[i]]]
<1>1. Total(c) = g[N]
  BY Zenon DEF Total, N
<1>2. g = [i \in 0 .. N |-> IF i = 0 THEN 0 ELSE g[i - 1] + c[InRow[i]]]
  BY SumExists, Zenon DEF Adds
<1> HIDE DEF g
<1>3. N \in Nat /\ \A i \in 1 .. N : c[InRow[i]] \in Int
  BY RowIs DEF Count
<1>4. g[0] = 0 /\ \A i \in 1 .. N : g[i] = g[i - 1] + c[InRow[i]]
  BY <1>2, <1>3
<1>5. \A i \in 0 .. N : g[i] \in Int
  <2> DEFINE T == {i \in 0 .. N : g[i] \notin Int}
  <2> SUFFICES ASSUME T # {} PROVE FALSE
    OBVIOUS
  <2>1. PICK m \in T : \A y \in T : ~(y < m)
    <3>1. T \in SUBSET Nat
      BY <1>3
    <3> HIDE DEF T
    <3> QED
      BY <3>1, SmallestIn
  <2>2. m \in 1 .. N
    BY <1>3, <1>4
  <2>3. g[m - 1] \in Int
    BY <1>3, <2>1, <2>2
  <2> QED
    BY <1>3, <1>4, <2>2, <2>3
<1> QED
  BY <1>1, <1>3, <1>4, <1>5

\* What holds of every mailbox holds of them all.
LEMMA TotalBelow ==
  ASSUME NEW a \in Count, NEW b \in Count, NEW c \in Count,
         \A s \in Senders : a[s] <= b[s] + c[s]
  PROVE  /\ Total(a) \in Int /\ Total(b) \in Int /\ Total(c) \in Int
         /\ Total(a) <= Total(b) + Total(c)
<1>0. N \in Nat /\ \A i \in 1 .. N : InRow[i] \in Senders
  BY RowIs
<1>1. PICK f : /\ Total(a) = f[N] /\ f[0] = 0
               /\ \A i \in 1 .. N : f[i] = f[i - 1] + a[InRow[i]] /\ f[i] \in Int
  BY TotalIs
<1>2. PICK g : /\ Total(b) = g[N] /\ g[0] = 0
               /\ \A i \in 1 .. N : g[i] = g[i - 1] + b[InRow[i]] /\ g[i] \in Int
  BY TotalIs
<1>3. PICK h : /\ Total(c) = h[N] /\ h[0] = 0
               /\ \A i \in 1 .. N : h[i] = h[i - 1] + c[InRow[i]] /\ h[i] \in Int
  BY TotalIs
<1>4. \A i \in 0 .. N : f[i] \in Int /\ g[i] \in Int /\ h[i] \in Int
  BY <1>0, <1>1, <1>2, <1>3
<1>5. \A i \in 0 .. N : f[i] <= g[i] + h[i]
  <2> DEFINE T == {i \in 0 .. N : ~(f[i] <= g[i] + h[i])}
  <2> SUFFICES ASSUME T # {} PROVE FALSE
    OBVIOUS
  <2>1. PICK m \in T : \A y \in T : ~(y < m)
    <3>1. T \in SUBSET Nat
      BY <1>0
    <3> HIDE DEF T
    <3> QED
      BY <3>1, SmallestIn
  <2>2. m \in 1 .. N /\ m - 1 \in 0 .. N /\ m - 1 < m
    BY <1>0, <1>1, <1>2, <1>3
  <2>3. f[m - 1] <= g[m - 1] + h[m - 1]
    BY <2>1, <2>2
  <2>4. a[InRow[m]] <= b[InRow[m]] + c[InRow[m]]
        /\ a[InRow[m]] \in Int /\ b[InRow[m]] \in Int /\ c[InRow[m]] \in Int
    BY <1>0, <2>2 DEF Count
  <2>5. /\ f[m] = f[m - 1] + a[InRow[m]] /\ g[m] = g[m - 1] + b[InRow[m]]
        /\ h[m] = h[m - 1] + c[InRow[m]]
    BY <1>1, <1>2, <1>3, <2>2
  <2>6. /\ f[m - 1] \in Int /\ g[m - 1] \in Int /\ h[m - 1] \in Int
    BY <1>4, <2>2
  <2>7. f[m] <= g[m] + h[m]
    BY <2>3, <2>4, <2>5, <2>6
  <2> QED
    BY <2>7
<1> QED
  BY <1>0, <1>1, <1>2, <1>3, <1>4, <1>5

\* One more of one mailbox is at most one more of all.
LEMMA TotalOneMore ==
  ASSUME NEW a \in Count, NEW b \in Count, NEW s \in Senders,
         a[s] <= b[s] + 1, \A t \in Senders : t # s => a[t] <= b[t]
  PROVE  Total(a) \in Int /\ Total(b) \in Int /\ Total(a) <= Total(b) + 1
<1>0. N \in Nat /\ (\A i \in 1 .. N : InRow[i] \in Senders)
      /\ \A i, j \in 1 .. N : InRow[i] = InRow[j] => i = j
  BY RowIs
<1>1. PICK f : /\ Total(a) = f[N] /\ f[0] = 0
               /\ \A i \in 1 .. N : f[i] = f[i - 1] + a[InRow[i]] /\ f[i] \in Int
  BY TotalIs
<1>2. PICK g : /\ Total(b) = g[N] /\ g[0] = 0
               /\ \A i \in 1 .. N : g[i] = g[i - 1] + b[InRow[i]] /\ g[i] \in Int
  BY TotalIs
<1>3. \A i \in 0 .. N : f[i] \in Int /\ g[i] \in Int
  BY <1>0, <1>1, <1>2
<1> DEFINE Past(i) == \E j \in 1 .. i : InRow[j] = s
           OK(i) == f[i] <= g[i] + 1 /\ (~Past(i) => f[i] <= g[i])
<1>4. \A i \in 0 .. N : OK(i)
  <2> DEFINE T == {i \in 0 .. N : ~OK(i)}
  <2> SUFFICES ASSUME T # {} PROVE FALSE
    OBVIOUS
  <2>1. PICK m \in T : \A y \in T : ~(y < m)
    <3>1. T \in SUBSET Nat
      BY <1>0
    <3> HIDE DEF T
    <3> QED
      BY <3>1, SmallestIn
  <2>2. m \in 1 .. N /\ m - 1 \in 0 .. N /\ m - 1 < m /\ m \in 1 .. m /\ m \notin 1 .. m - 1
        /\ 1 .. m - 1 \subseteq 1 .. m /\ 1 .. m \subseteq 1 .. N
    BY <1>0, <1>1, <1>2
  <2>3. OK(m - 1)
    BY <2>1, <2>2
  <2>4. /\ a[InRow[m]] \in Int /\ b[InRow[m]] \in Int
        /\ a[InRow[m]] <= b[InRow[m]] + 1 /\ (InRow[m] # s => a[InRow[m]] <= b[InRow[m]])
    BY <1>0, <2>2 DEF Count
  <2>5. f[m] = f[m - 1] + a[InRow[m]] /\ g[m] = g[m - 1] + b[InRow[m]]
    BY <1>1, <1>2, <2>2
  <2>6. f[m - 1] \in Int /\ g[m - 1] \in Int
    BY <1>3, <2>2
  <2>7. CASE InRow[m] = s
    <3>1. Past(m) /\ ~Past(m - 1)
      BY <1>0, <2>2, <2>7
    <3>2. f[m - 1] <= g[m - 1]
      BY <2>3, <3>1
    <3>3. f[m] <= g[m] + 1
      BY <2>4, <2>5, <2>6, <3>2
    <3> QED
      BY <3>1, <3>3
  <2>8. CASE InRow[m] # s
    <3>1. Past(m - 1) => Past(m)
      BY <2>2
    <3>2. f[m] <= g[m] + 1
      BY <2>3, <2>4, <2>5, <2>6, <2>8
    <3>3. ~Past(m) => f[m] <= g[m]
      BY <2>3, <2>4, <2>5, <2>6, <2>8, <3>1
    <3> QED
      BY <3>2, <3>3
  <2> QED
    BY <2>7, <2>8
<1>5. N \in 0 .. N
  BY <1>0
<1> QED
  BY <1>1, <1>2, <1>3, <1>4, <1>5

LEMMA TotalNothing ==
  ASSUME NEW a \in Count, \A s \in Senders : a[s] = 0
  PROVE  Total(a) = 0
<1>0. N \in Nat /\ \A i \in 1 .. N : InRow[i] \in Senders
  BY RowIs
<1>2. PICK f : /\ Total(a) = f[N] /\ f[0] = 0
               /\ \A i \in 1 .. N : f[i] = f[i - 1] + a[InRow[i]] /\ f[i] \in Int
  BY TotalIs
<1>3. \A i \in 0 .. N : f[i] = 0
  <2> DEFINE T == {i \in 0 .. N : f[i] # 0}
  <2> SUFFICES ASSUME T # {} PROVE FALSE
    OBVIOUS
  <2>1. PICK m \in T : \A y \in T : ~(y < m)
    <3>1. T \in SUBSET Nat
      BY <1>0
    <3> HIDE DEF T
    <3> QED
      BY <3>1, SmallestIn
  <2>2. m \in 1 .. N /\ m - 1 \in 0 .. N /\ m - 1 < m
    BY <1>0, <1>2
  <2>3. f[m - 1] = 0 /\ a[InRow[m]] = 0
    BY <1>0, <2>1, <2>2
  <2> QED
    BY <1>2, <2>2, <2>3
<1> QED
  BY <1>0, <1>2, <1>3

-----------------------------------------------------------------------------
(* Who waits for what, as the line moves.                                  *)

LEMMA LineGrows ==
  ASSUME queue \in Seq(Entry), NEW e \in Entry, queue' = Append(queue, e)
  PROVE  /\ \A k, kind : k # e.by => (Waits(k, kind)' <=> Waits(k, kind))
         /\ Waits(e.by, e.kind)'
         /\ (\A i \in DOMAIN queue : queue[i].by # e.by) =>
              \A kind : kind # e.kind => ~Waits(e.by, kind)'
<1>1. /\ DOMAIN queue' = DOMAIN queue \cup {Len(queue) + 1}
      /\ \A i \in DOMAIN queue : queue'[i] = queue[i]
      /\ queue'[Len(queue) + 1] = e
  OBVIOUS
<1>2. ASSUME NEW k, NEW kind, k # e.by PROVE Waits(k, kind)' <=> Waits(k, kind)
  <2>1. \A i \in DOMAIN queue' : queue'[i].by = k => \E j \in DOMAIN queue : queue[j] = queue'[i]
    BY <1>1, <1>2
  <2>2. \A i \in DOMAIN queue : queue[i].by = k => \E j \in DOMAIN queue' : queue'[j] = queue[i]
    BY <1>1
  <2> QED
    BY <2>1, <2>2, LineSame
<1>3. Waits(e.by, e.kind)'
  BY <1>1 DEF Waits
<1>4. ASSUME \A i \in DOMAIN queue : queue[i].by # e.by, NEW kind, kind # e.kind
      PROVE  ~Waits(e.by, kind)'
  BY <1>1, <1>4 DEF Waits
<1> QED
  BY <1>2, <1>3, <1>4

\* the first of the line goes
LEMMA LineGoes ==
  ASSUME queue \in Seq(Entry), queue # <<>>, queue' = Tail(queue), NEW k0, k0 = Head(queue).by
  PROVE  /\ \A k, kind : k # k0 => (Waits(k, kind)' <=> Waits(k, kind))
         /\ (\A i \in DOMAIN queue : queue[i].by = k0 => i = 1) => \A kind : ~Waits(k0, kind)'
<1>1. /\ DOMAIN queue' = 1 .. (Len(queue) - 1) /\ DOMAIN queue = 1 .. Len(queue) /\ Len(queue) \in Nat
      /\ \A i \in DOMAIN queue' : queue'[i] = queue[i + 1]
      /\ queue[1].by = k0
  OBVIOUS
<1>2. \A i \in DOMAIN queue' : i \in Nat /\ i + 1 \in DOMAIN queue /\ i + 1 # 1
  BY <1>1
<1>3. ASSUME NEW i \in DOMAIN queue \ {1}
      PROVE  i - 1 \in DOMAIN queue' /\ queue'[i - 1] = queue[i]
  <2>1. i \in 2 .. Len(queue)
    BY <1>1
  <2>2. i - 1 \in 1 .. (Len(queue) - 1) /\ (i - 1) + 1 = i
    BY <1>1, <2>1
  <2> QED
    BY <1>1, <2>2
<1>4. ASSUME NEW k, NEW kind, k # k0 PROVE Waits(k, kind)' <=> Waits(k, kind)
  <2>1. \A i \in DOMAIN queue' : queue'[i].by = k => \E j \in DOMAIN queue : queue[j] = queue'[i]
    BY <1>1, <1>2
  <2>2. \A i \in DOMAIN queue : queue[i].by = k => \E j \in DOMAIN queue' : queue'[j] = queue[i]
    BY <1>1, <1>3, <1>4
  <2> QED
    BY <2>1, <2>2, LineSame
<1>5. ASSUME \A i \in DOMAIN queue : queue[i].by = k0 => i = 1, NEW kind
      PROVE  ~Waits(k0, kind)'
  <2>1. \A i \in DOMAIN queue' : queue'[i].by # k0
    BY <1>1, <1>2, <1>5
  <2> QED
    BY <2>1 DEF Waits
<1> QED
  BY <1>4, <1>5

\* ... and another append of whoever wrote it comes to the end
LEMMA LineTurns ==
  ASSUME queue \in Seq(Entry), queue # <<>>, NEW e \in Entry, e.by = Head(queue).by,
         queue' = Append(Tail(queue), e)
  PROVE  /\ \A k, kind : k # e.by => (Waits(k, kind)' <=> Waits(k, kind))
         /\ Waits(e.by, e.kind)'
         /\ (\A i \in DOMAIN queue : queue[i].by = e.by => i = 1) =>
              \A kind : kind # e.kind => ~Waits(e.by, kind)'
<1>1. /\ DOMAIN queue' = 1 .. Len(queue) /\ DOMAIN queue = 1 .. Len(queue) /\ Len(queue) \in Nat \ {0}
      /\ \A i \in DOMAIN queue' : i # Len(queue) => queue'[i] = queue[i + 1]
      /\ queue'[Len(queue)] = e
      /\ queue[1].by = e.by
  OBVIOUS
<1>2. \A i \in DOMAIN queue' : i # Len(queue) => i + 1 \in DOMAIN queue
  BY <1>1
<1>3. ASSUME NEW i \in DOMAIN queue \ {1}
      PROVE  i - 1 \in DOMAIN queue' /\ queue'[i - 1] = queue[i]
  <2>1. i \in 2 .. Len(queue)
    BY <1>1
  <2>2. i - 1 \in 1 .. Len(queue) /\ (i - 1) + 1 = i /\ i - 1 # Len(queue)
    BY <1>1, <2>1
  <2> QED
    BY <1>1, <2>2
<1>4. ASSUME NEW k, NEW kind, k # e.by PROVE Waits(k, kind)' <=> Waits(k, kind)
  <2>1. \A i \in DOMAIN queue' : queue'[i].by = k => \E j \in DOMAIN queue : queue[j] = queue'[i]
    BY <1>1, <1>2, <1>4
  <2>2. \A i \in DOMAIN queue : queue[i].by = k => \E j \in DOMAIN queue' : queue'[j] = queue[i]
    BY <1>1, <1>3, <1>4
  <2> QED
    BY <2>1, <2>2, LineSame
<1>5. Waits(e.by, e.kind)'
  <2>1. Len(queue) \in DOMAIN queue'
    BY <1>1
  <2> QED
    BY <1>1, <2>1 DEF Waits
<1>6. ASSUME \A i \in DOMAIN queue : queue[i].by = e.by => i = 1, NEW kind, kind # e.kind
      PROVE  ~Waits(e.by, kind)'
  <2>1. \A i \in DOMAIN queue' : i # Len(queue) => queue'[i].by # e.by
    BY <1>1, <1>2, <1>6
  <2> QED
    BY <1>1, <1>6, <2>1 DEF Waits
<1> QED
  BY <1>4, <1>5, <1>6

-----------------------------------------------------------------------------
(* Of the letters the provider took, the journal counts each, but for those *)
(* journaled as failed: an attempt counts from its line on, and a letter in *)
(* hand is counted and not yet taken, or about to be uncounted.             *)

\* the attempt of writer w to write from mailbox s counts, and has no end yet
InHand(w, s) ==
  /\ writer[w].of = s
  /\ \/ writer[w].at \in {"gate", "provider", "refused"}
     \/ writer[w].at = "queued" /\ (Waits(w, "failed") \/ Waits(w, "status"))
Hands(s) == {w \in Writers : InHand(w, s)}

Numbers ==
  /\ delivered \in [Senders -> Nat] /\ unheard \in [Senders -> Nat]
  /\ top \in [Senders -> Nat] /\ blind \in [Senders -> Nat] /\ blindAny \in Nat

Gap(s) == delivered[s] - used[s] - unheard[s]
Told == \A s \in Senders : IsFiniteSet(Hands(s)) /\ Gap(s) + Cardinality(Hands(s)) <= 0

LEMMA ToldStep ==
  ASSUME Told, NEW s \in Senders, NEW w \in Writers,
         \A x \in Writers \ {w} : InHand(x, s)' <=> InHand(x, s),
         Gap(s) \in Int, Gap(s)' \in Int,
         InHand(w, s)' /\ ~InHand(w, s) => Gap(s)' <= Gap(s) - 1,
         (InHand(w, s)' <=> InHand(w, s)) => Gap(s)' <= Gap(s),
         ~InHand(w, s)' /\ InHand(w, s) => Gap(s)' <= Gap(s) + 1
  PROVE  IsFiniteSet(Hands(s)') /\ Gap(s)' + Cardinality(Hands(s)') <= 0
<1> DEFINE H == Hands(s)
           I == Hands(s)'
           g == Gap(s)
           h == Gap(s)'
<1>1. IsFiniteSet(H) /\ g + Cardinality(H) <= 0
  BY DEF Told
<1>2. Cardinality(H) \in Nat
  BY <1>1, FS_CardinalityType
<1>3. CASE InHand(w, s)' /\ ~InHand(w, s)
  <2>1. I = H \cup {w} /\ w \notin H
    BY <1>3 DEF Hands
  <2>2. h <= g - 1 /\ g \in Int /\ h \in Int
    BY <1>3
  <2> HIDE DEF H, I, g, h
  <2>3. IsFiniteSet(I) /\ Cardinality(I) = Cardinality(H) + 1
    BY <1>1, <2>1, FS_AddElement
  <2>4. h + Cardinality(I) <= 0
    BY <1>1, <1>2, <2>2, <2>3
  <2> QED
    BY <2>3, <2>4 DEF I, h
<1>4. CASE InHand(w, s)' <=> InHand(w, s)
  <2>1. I = H
    BY <1>4 DEF Hands
  <2>2. h <= g /\ g \in Int /\ h \in Int
    BY <1>4
  <2> HIDE DEF H, I, g, h
  <2>3. IsFiniteSet(I) /\ h + Cardinality(I) <= 0
    BY <1>1, <1>2, <2>1, <2>2
  <2> QED
    BY <2>3 DEF I, h
<1>5. CASE ~InHand(w, s)' /\ InHand(w, s)
  <2>1. I = H \ {w} /\ w \in H
    BY <1>5 DEF Hands
  <2>2. h <= g + 1 /\ g \in Int /\ h \in Int
    BY <1>5
  <2> HIDE DEF H, I, g, h
  <2>3. IsFiniteSet(I) /\ Cardinality(I) = Cardinality(H) - 1
    BY <1>1, <2>1, FS_RemoveElement
  <2>4. h + Cardinality(I) <= 0
    BY <1>1, <1>2, <2>2, <2>3
  <2> QED
    BY <2>3, <2>4 DEF I, h
<1> QED
  BY <1>3, <1>4, <1>5

\* Nobody's letter comes in hand, and nothing is counted.
LEMMA ToldStays ==
  ASSUME BaseInv, Numbers, Told, UNCHANGED <<delivered, used, unheard>>,
         \A w \in Writers : writer'[w] = writer[w],
         \A w \in Writers, kind \in Kinds : Waits(w, kind)' <=> Waits(w, kind)
  PROVE  Told'
<1>1. \A s \in Senders : Gap(s)' = Gap(s)
  BY DEF Gap
<1>2. "failed" \in Kinds /\ "status" \in Kinds
  BY DEF Kinds
<1>3. \A s \in Senders, w \in Writers : InHand(w, s)' <=> InHand(w, s)
  BY <1>2 DEF InHand
<1>4. \A s \in Senders : Hands(s)' = Hands(s)
  BY <1>3 DEF Hands
<1> QED
  BY <1>1, <1>4 DEF Told

LEMMA GapIs ==
  ASSUME BaseInv, Numbers
  PROVE  \A s \in Senders : Gap(s) \in Int /\ used[s] \in Int /\ delivered[s] \in Nat /\ unheard[s] \in Nat
BY DEF BaseInv, Tables, Numbers, Gap

LEMMA HandsElse ==
  ASSUME NEW w \in Writers, \A x \in Writers \ {w} : writer'[x] = writer[x],
         \A k, kind : k # w => (Waits(k, kind)' <=> Waits(k, kind))
  PROVE  \A s : \A x \in Writers \ {w} : InHand(x, s)' <=> InHand(x, s)
BY DEF InHand

LEMMA SendsIs ==
  ASSUME BaseInv, NEW w \in Writers, writer[w].at # "queued", NEW s, NEW kind, Sends(w, s, kind)
  PROVE  /\ \A k, what : k # w => (Waits(k, what)' <=> Waits(k, what))
         /\ Waits(w, kind)' /\ \A what : what # kind => ~Waits(w, what)'
<1>1. PICK e \in Entry : e.by = w /\ e.of = s /\ e.kind = kind /\ queue' = Append(queue, e)
  BY DEF Sends
<1>2. queue \in Seq(Entry) /\ \A i \in DOMAIN queue : queue[i].by # w
  BY DEF BaseInv, InLine
<1> QED
  BY <1>1, <1>2, LineGrows

\* Writer w moves on; what of mailbox s was counted, or taken, is said in `more'.
LEMMA ToldWriter ==
  ASSUME BaseInv, Numbers, Numbers', Told, NEW w \in Writers, NEW at, NEW of, Becomes(w, at, of),
         \A k, kind : k # w => (Waits(k, kind)' <=> Waits(k, kind)),
         UNCHANGED used,
         \A s \in Senders :
           \/ /\ InHand(w, s)' <=> InHand(w, s)
              /\ \/ delivered'[s] = delivered[s] /\ unheard'[s] = unheard[s]
                 \/ delivered'[s] = delivered[s] + 1 /\ unheard'[s] = unheard[s] + 1
           \/ /\ ~InHand(w, s)' /\ InHand(w, s)
              /\ delivered'[s] = delivered[s] + 1 /\ unheard'[s] = unheard[s]
  PROVE  Told'
<1>1. \A x \in Writers \ {w} : writer'[x] = writer[x]
  BY DEF Becomes
<1>2. ASSUME NEW s \in Senders
      PROVE  IsFiniteSet(Hands(s)') /\ Gap(s)' + Cardinality(Hands(s)') <= 0
  <2>1. \A x \in Writers \ {w} : InHand(x, s)' <=> InHand(x, s)
    BY <1>1, HandsElse
  <2>2. Gap(s) \in Int /\ used[s] \in Int /\ delivered[s] \in Nat /\ unheard[s] \in Nat
    BY GapIs
  <2>3. Gap(s)' \in Int /\ Gap(s)' = delivered'[s] - used[s] - unheard'[s]
    BY <2>2 DEF Numbers, Gap
  <2>4. \/ (InHand(w, s)' <=> InHand(w, s)) /\ Gap(s)' = Gap(s)
        \/ ~InHand(w, s)' /\ InHand(w, s) /\ Gap(s)' = Gap(s) + 1
    BY <2>2, <2>3 DEF Gap
  <2>5. Gap(s)' <= Gap(s) + 1 /\ (~(~InHand(w, s)' /\ InHand(w, s)) => Gap(s)' <= Gap(s))
    BY <2>2, <2>3, <2>4
  <2> QED
    BY <2>1, <2>2, <2>3, <2>4, <2>5, ToldStep
<1> QED
  BY <1>2 DEF Told

\* the letter is taken
LEMMA TakenIs ==
  ASSUME Numbers, NEW w \in Writers, writer[w].of \in Senders, Taken(w)
  PROVE  /\ delivered' \in [Senders -> Nat] /\ delivered'[writer[w].of] = delivered[writer[w].of] + 1
         /\ \A s \in Senders \ {writer[w].of} : delivered'[s] = delivered[s]
<1> DEFINE o == writer[w].of
<1>1. delivered' = [delivered EXCEPT ![o] = @ + 1] /\ o \in Senders /\ delivered \in [Senders -> Nat]
  BY DEF Taken, Numbers
<1> HIDE DEF o
<1>2. /\ delivered' \in [Senders -> Nat] /\ delivered'[o] = delivered[o] + 1
      /\ \A s \in Senders \ {o} : delivered'[s] = delivered[s]
  BY <1>1
<1> QED
  BY <1>2 DEF o

LEMMA DayWriter ==
  ASSUME BaseInv, Numbers, Told, NEW w \in Writers, WriterSteps(w)
  PROVE  Numbers' /\ Told'
<1> DEFINE o == writer[w].of
<1>0. UNCHANGED <<used, top, blind, blindAny>>
  BY DEF WriterSteps, ReadFirst, GiveUp, Gate, Accepted, AnswerLost, Refused, AfterPause,
         Attempt, QuickReply, journal, seen
<1>1. CASE ReadFirst(w) \/ GiveUp(w)
  <2>1. PICK at, of : at \in {"ready", "idle"} /\ Becomes(w, at, of)
    BY <1>1, ReadFirstIs, GiveUpIs
  <2>2. /\ writer[w].at \in {"idle", "ready"} /\ UNCHANGED <<queue, delivered, unheard>>
    BY <1>1 DEF ReadFirst, GiveUp, seen
  <2>3. \A k, kind : Waits(k, kind)' <=> Waits(k, kind)
    BY <2>2 DEF Waits
  <2>4. \A s \in Senders : ~InHand(w, s) /\ ~InHand(w, s)'
    BY <2>1, <2>2 DEF InHand, Becomes
  <2>5. Numbers'
    BY <1>0, <2>2 DEF Numbers
  <2> QED
    BY <1>0, <2>1, <2>2, <2>3, <2>4, <2>5, ToldWriter
<1>2. ASSUME NEW s0 \in Senders, Attempt(w, s0) \/ QuickReply(w, s0)
      PROVE  Numbers' /\ Told'
  <2>1. /\ Becomes(w, "queued", s0) /\ Sends(w, s0, "sending")
        /\ writer[w].at = "ready" \/ writer[w].at = "idle"
    BY <1>2, AttemptIs, QuickReplyIs
  <2>2. UNCHANGED <<delivered, unheard>>
    BY <1>2 DEF Attempt, QuickReply, seen
  <2>3. /\ \A k, kind : k # w => (Waits(k, kind)' <=> Waits(k, kind))
        /\ ~Waits(w, "failed")' /\ ~Waits(w, "status")'
    BY <2>1, SendsIs
  <2>4. \A s \in Senders : ~InHand(w, s) /\ ~InHand(w, s)'
    BY <2>1, <2>3 DEF InHand, Becomes
  <2>5. Numbers'
    BY <1>0, <2>2 DEF Numbers
  <2> QED
    BY <1>0, <2>1, <2>2, <2>3, <2>4, <2>5, ToldWriter
<1>3. CASE Gate(w) \/ Refused(w) \/ AfterPause(w)
  <2>1. /\ writer[w].at \in {"gate", "provider", "refused"} /\ UNCHANGED <<delivered, unheard>>
    BY <1>3 DEF Gate, Refused, AfterPause, seen
  <2>2. \/ Becomes(w, "provider", o) /\ UNCHANGED queue
        \/ Becomes(w, "queued", o) /\ (Sends(w, o, "failed") \/ Sends(w, o, "status"))
    BY <1>3, GateIs, RefusedIs
  <2>3. PICK at : Becomes(w, at, o)
    BY <2>2
  <2>4. \A k, kind : k # w => (Waits(k, kind)' <=> Waits(k, kind))
    <3>1. CASE UNCHANGED queue
      BY <3>1 DEF Waits
    <3> QED
      BY <2>1, <2>2, <3>1, SendsIs
  <2>5. \A s \in Senders : InHand(w, s) <=> s = o
    BY <2>1 DEF InHand
  <2>6. \A s \in Senders : InHand(w, s)' <=> s = o
    <3>1. CASE Becomes(w, "provider", o)
      BY <3>1 DEF InHand, Becomes
    <3>2. CASE Becomes(w, "queued", o) /\ (Sends(w, o, "failed") \/ Sends(w, o, "status"))
      <4>1. Waits(w, "failed")' \/ Waits(w, "status")'
        BY <2>1, <3>2, SendsIs
      <4> QED
        BY <3>2, <4>1 DEF InHand, Becomes
    <3> QED
      BY <2>2, <3>1, <3>2
  <2>7. Numbers'
    BY <1>0, <2>1 DEF Numbers
  <2> QED
    BY <1>0, <2>1, <2>3, <2>4, <2>5, <2>6, <2>7, ToldWriter
<1>4. ASSUME writer[w].at = "provider", o \in Senders, Taken(w), UNCHANGED unheard,
             NEW at \in {"idle", "ready", "queued"}, NEW of, Becomes(w, at, of),
             at = "queued" => Sends(w, of, "sent"), at # "queued" => UNCHANGED queue
      PROVE  Numbers' /\ Told'
  <2>1. /\ delivered' \in [Senders -> Nat] /\ delivered'[o] = delivered[o] + 1
        /\ \A s \in Senders \ {o} : delivered'[s] = delivered[s]
    BY <1>4, TakenIs
  <2>2. Numbers'
    BY <1>0, <1>4, <2>1 DEF Numbers
  <2>3. /\ \A k, kind : k # w => (Waits(k, kind)' <=> Waits(k, kind))
        /\ at = "queued" => ~Waits(w, "failed")' /\ ~Waits(w, "status")'
    <3>1. CASE at = "queued"
      BY <1>4, <3>1, SendsIs
    <3>2. CASE at # "queued"
      BY <1>4, <3>2 DEF Waits
    <3> QED
      BY <3>1, <3>2
  <2>4. \A s \in Senders : InHand(w, s) <=> s = o
    BY <1>4 DEF InHand
  <2>5. \A s \in Senders : ~InHand(w, s)'
    BY <1>4, <2>3 DEF InHand, Becomes
  <2>6. \A s \in Senders : unheard'[s] = unheard[s]
    BY <1>4
  <2> HIDE DEF o
  <2> QED
    BY <1>0, <1>4, <2>1, <2>2, <2>3, <2>4, <2>5, <2>6, ToldWriter
<1>5. CASE Accepted(w)
  <2>1. Becomes(w, "queued", o) /\ Sends(w, o, "sent") /\ writer[w].at = "provider" /\ o \in Senders
        /\ Taken(w) /\ UNCHANGED unheard
    BY <1>5, AcceptedIs
  <2> HIDE DEF o
  <2> QED
    BY <1>4, <2>1
<1>6. CASE AnswerLost(w)
  <2>1. writer[w].at = "provider" /\ o \in Senders /\ Taken(w)
    BY <1>6, AnswerLostIs
  <2>2. CASE UNCHANGED <<queue, unheard>>
             /\ (Becomes(w, "ready", NoOne) \/ Becomes(w, "idle", NoOne))
    BY <1>4, <2>1, <2>2
  <2>3. CASE /\ Becomes(w, "queued", o) /\ Sends(w, o, "failed")
             /\ unheard' = [unheard EXCEPT ![o] = @ + 1]
    <3>1. /\ delivered' \in [Senders -> Nat] /\ delivered'[o] = delivered[o] + 1
          /\ \A s \in Senders \ {o} : delivered'[s] = delivered[s]
      BY <2>1, TakenIs
    <3>2. /\ unheard' \in [Senders -> Nat] /\ unheard'[o] = unheard[o] + 1
          /\ \A s \in Senders \ {o} : unheard'[s] = unheard[s]
      <4>1. unheard \in [Senders -> Nat] /\ o \in Senders
        BY <2>1 DEF Numbers
      <4> HIDE DEF o
      <4> QED
        BY <2>3, <4>1
    <3>3. Numbers'
      BY <1>0, <3>1, <3>2 DEF Numbers
    <3>4. /\ \A k, kind : k # w => (Waits(k, kind)' <=> Waits(k, kind))
          /\ Waits(w, "failed")'
      BY <2>1, <2>3, SendsIs
    <3>5. \A s \in Senders : (InHand(w, s) <=> s = o) /\ (InHand(w, s)' <=> s = o)
      BY <2>1, <2>3, <3>4 DEF InHand, Becomes
    <3> HIDE DEF o
    <3> QED
      BY <1>0, <2>3, <3>1, <3>2, <3>3, <3>4, <3>5, ToldWriter
  <2> QED
    BY <1>6, <2>2, <2>3, AnswerLostIs
<1> QED
  BY <1>1, <1>2, <1>3, <1>5, <1>6 DEF WriterSteps

-----------------------------------------------------------------------------
(* What becomes of the appends.                                            *)

\* the writer whose append is first in the line
LEMMA WriterFirst ==
  ASSUME BaseInv, queue # <<>>, NEW w \in Writers, w = Head(queue).by
  PROVE  /\ writer[w].at = "queued" /\ writer[w].of = Head(queue).of /\ Head(queue).of \in Senders
         /\ Head(queue) \in Entry /\ Head(queue).kind \in {"sending", "sent", "failed", "status"}
         /\ Waits(w, Head(queue).kind)
         /\ \A kind : kind # Head(queue).kind => ~Waits(w, kind)
         /\ \A i \in DOMAIN queue : queue[i].by = w => i = 1
<1>1. queue \in Seq(Entry) /\ Head(queue) \in Entry /\ Head(queue) = queue[1] /\ 1 \in DOMAIN queue
  BY HeadIs DEF BaseInv, InLine
<1>2. \A i \in DOMAIN queue : queue[i].by = w => i = 1
  BY <1>1 DEF BaseInv, InLine
<1>3. Head(queue).kind \in {"sending", "sent", "failed", "status"}
  BY <1>1 DEF Entry
<1>4. Waits(w, Head(queue).kind) /\ \A kind : kind # Head(queue).kind => ~Waits(w, kind)
  BY <1>1, <1>2 DEF Waits
<1>5. writer[w].at = "queued" /\ writer[w].of = Head(queue).of /\ Head(queue).of \in Senders
  BY HeadIs
<1> QED
  BY <1>1, <1>2, <1>3, <1>4, <1>5

\* the numbers of the day, one append later
LEMMA NumbersLand ==
  ASSUME BaseInv, BaseInv', Numbers, Lands
  PROVE  /\ Numbers' /\ UNCHANGED <<delivered, unheard>>
         /\ \A s \in Senders : /\ top'[s] >= top[s] /\ top'[s] >= ColdAllowance(s)'
                               /\ blind'[s] >= blind[s]
         /\ blindAny' >= blindAny
<1> DEFINE e == Head(queue)
<1>1. e \in Entry /\ queue # <<>> /\ UNCHANGED <<delivered, unheard>>
  BY HeadIs DEF Lands
<1>2. \A s \in Senders : ColdAllowance(s)' \in Nat
  <2> TAKE s \in Senders
  <2>1. sender'[s] \in Mailbox
    BY DEF BaseInv, Tables
  <2>2. sender'[s].ceiling \in Nat /\ Allow[sender'[s].stage] \in Nat
    BY <2>1, AllowFacts DEF Mailbox
  <2> QED
    BY <2>2, MinNat DEF ColdAllowance
<1>3. top' = [s \in Senders |-> Max({top[s], ColdAllowance(s)'})]
  BY DEF Lands, Noted
<1>4. /\ top' \in [Senders -> Nat]
      /\ \A s \in Senders : top'[s] >= top[s] /\ top'[s] >= ColdAllowance(s)'
  <2>1. ASSUME NEW s \in Senders
        PROVE  top'[s] \in Nat /\ top'[s] >= top[s] /\ top'[s] >= ColdAllowance(s)'
    <3>1. top'[s] = Max({top[s], ColdAllowance(s)'}) /\ top[s] \in Nat
      BY <1>3 DEF Numbers
    <3> QED
      BY <1>2, <3>1, MinNat
  <2> QED
    BY <1>3, <2>1
<1>5. blind' \in [Senders -> Nat] /\ \A s \in Senders : blind'[s] >= blind[s]
  <2>1. blind' = blind \/ (e.kind = "sending" /\ blind' = [blind EXCEPT ![e.of] = @ + 1])
    BY DEF Lands, Noted
  <2>2. e.kind = "sending" => e.of \in Senders
    BY <1>1 DEF Entry
  <2> HIDE DEF e
  <2> QED
    BY <2>1, <2>2 DEF Numbers
<1>6. blindAny' \in Nat /\ blindAny' >= blindAny
  BY DEF Lands, Noted, Numbers
<1> QED
  BY <1>1, <1>4, <1>5, <1>6 DEF Numbers

LEMMA ToldLands ==
  ASSUME BaseInv, BaseInv', Numbers, Told, Lands
  PROVE  Told'
<1> DEFINE e == Head(queue)
<1>1. /\ queue # <<>> /\ queue \in Seq(Entry) /\ queue' = Tail(queue) /\ e \in Entry
      /\ used' = Ledger(e) /\ UNCHANGED <<delivered, unheard>>
  BY HeadIs DEF Lands, BaseInv, InLine
<1>2. \A s \in Senders :
        used'[s] = IF e.of # s THEN used[s]
                   ELSE IF e.kind = "sending" THEN used[s] + 1
                   ELSE IF e.kind = "failed" THEN used[s] - 1
                   ELSE used[s]
  BY <1>1, LedgerIs DEF BaseInv
<1>3. CASE e.by \notin Writers
  <2>1. writer' = writer
    BY <1>3 DEF Lands, Landed
  <2>2. e.kind \notin {"sending", "failed"}
    BY <1>1, <1>3 DEF Entry
  <2>3. UNCHANGED used
    BY <1>1, <2>2 DEF Ledger
  <2>4. \A w \in Writers : \A kind : Waits(w, kind)' <=> Waits(w, kind)
    BY <1>1, <1>3, LineGoes
  <2> QED
    BY <1>1, <2>1, <2>3, <2>4, ToldStays
<1>4. ASSUME NEW w \in Writers, w = e.by
      PROVE  Told'
  <2>1. /\ writer[w].at = "queued" /\ writer[w].of = e.of /\ e.of \in Senders
        /\ e.kind \in {"sending", "sent", "failed", "status"}
        /\ Waits(w, e.kind) /\ (\A kind : kind # e.kind => ~Waits(w, kind))
        /\ \A i \in DOMAIN queue : queue[i].by = w => i = 1
    BY <1>1, <1>4, WriterFirst
  <2>2. \A k, kind : k # w => (Waits(k, kind)' <=> Waits(k, kind))
    BY <1>1, <1>4, LineGoes
  <2>3. /\ e.kind = "sending" => Becomes(w, "gate", e.of)
        /\ e.kind = "status" => Becomes(w, "refused", e.of)
        /\ e.kind \in {"failed", "sent"} => \E at \in {"ready", "idle"} : Becomes(w, at, NoOne)
    BY <1>4, LandedWriter DEF Ended
  <2>4. \A x \in Writers \ {w} : writer'[x] = writer[x]
    BY <2>1, <2>3 DEF Becomes
  <2>5. ASSUME NEW s \in Senders
        PROVE  IsFiniteSet(Hands(s)') /\ Gap(s)' + Cardinality(Hands(s)') <= 0
    <3>1. \A x \in Writers \ {w} : InHand(x, s)' <=> InHand(x, s)
      BY <2>2, <2>4, HandsElse
    <3>2. Gap(s) \in Int /\ used[s] \in Int /\ delivered[s] \in Nat /\ unheard[s] \in Nat
      BY GapIs
    <3>3. InHand(w, s) <=> s = e.of /\ e.kind \in {"failed", "status"}
      BY <2>1 DEF InHand
    <3>4. InHand(w, s)' <=> s = e.of /\ e.kind \in {"sending", "status"}
      BY <2>1, <2>3 DEF InHand, Becomes
    <3>5. Gap(s)' = delivered[s] - used'[s] - unheard[s] /\ Gap(s) = delivered[s] - used[s] - unheard[s]
      BY <1>1 DEF Gap
    <3>6. used'[s] = IF s = e.of /\ e.kind = "sending" THEN used[s] + 1
                     ELSE IF s = e.of /\ e.kind = "failed" THEN used[s] - 1 ELSE used[s]
      BY <1>2
    <3> HIDE DEF e
    <3>7. Gap(s)' \in Int
      BY <3>2, <3>5, <3>6
    <3>8. InHand(w, s)' /\ ~InHand(w, s) => Gap(s)' <= Gap(s) - 1
      BY <3>2, <3>3, <3>4, <3>5, <3>6
    <3>9. (InHand(w, s)' <=> InHand(w, s)) => Gap(s)' <= Gap(s)
      BY <2>1, <3>2, <3>3, <3>4, <3>5, <3>6
    <3>10. ~InHand(w, s)' /\ InHand(w, s) => Gap(s)' <= Gap(s) + 1
      BY <3>2, <3>3, <3>4, <3>5, <3>6
    <3> QED
      BY <3>1, <3>2, <3>7, <3>8, <3>9, <3>10, ToldStep
  <2> QED
    BY <2>5 DEF Told
<1> QED
  BY <1>3, <1>4

\* An append that fails ends its writer's letter, or has it reported as failed.
LEMMA FailsWriter ==
  ASSUME BaseInv, LandFails, NEW w \in Writers, w = Head(queue).by
  PROVE  \/ /\ UNCHANGED writer /\ Head(queue).kind \in {"sent", "status"}
            /\ \E f \in Entry : /\ f.by = w /\ f.kind = "failed" /\ f.of = Head(queue).of
                                /\ queue' = Append(Tail(queue), f)
            /\ unheard' = IF Head(queue).kind = "sent"
                          THEN [unheard EXCEPT ![Head(queue).of] = @ + 1] ELSE unheard
         \/ Ended(w) /\ queue' = Tail(queue) /\ UNCHANGED unheard
<1> DEFINE e == Head(queue)
           unsaid == e.by \in Singles \cup Replies /\ e.kind \in {"sent", "status"}
           f == [kind |-> "failed", of |-> e.of, to |-> "", by |-> e.by]
<1>1. /\ e \in Entry /\ queue # <<>> /\ e.of \in Senders /\ Letters
      /\ writer \in [Writers -> Letter]
  BY HeadIs DEF LandFails, BaseInv, InLine, Letters
<1>2. CASE unsaid
  <2>1. f \in Entry
    BY <1>1 DEF Entry, Kinds
  <2>2. writer' = writer /\ queue' = Append(Tail(queue), f)
    BY <1>2 DEF LandFails
  <2>3. unheard' = IF e.kind = "sent" THEN [unheard EXCEPT ![e.of] = @ + 1] ELSE unheard
    BY <1>2 DEF LandFails
  <2>4. f.by = w /\ f.kind = "failed" /\ f.of = e.of
    OBVIOUS
  <2> HIDE DEF f
  <2> QED
    BY <1>2, <2>1, <2>2, <2>3, <2>4
<1>3. CASE ~unsaid
  <2>1. queue' = Tail(queue) /\ unheard' = unheard /\ writer[w].ledger \in [Senders -> Int]
    BY <1>1, <1>3 DEF LandFails, Letter
  <2>2. \/ writer' = [writer EXCEPT ![w] = IdleWriter]
        \/ writer' = [writer EXCEPT ![w] = NextLetter(w, writer[w].ledger)]
    BY <1>3 DEF LandFails
  <2>3. Ended(w)
    BY <1>1, <2>1, <2>2, Idles, EndedIs DEF Ended
  <2> QED
    BY <2>1, <2>3
<1> QED
  BY <1>2, <1>3

\* Of the appends, the one that fails leaves the line, for another of its writer or for none.
LEMMA FailsLine ==
  ASSUME BaseInv, LandFails
  PROVE  /\ \A k, kind : k # Head(queue).by => (Waits(k, kind)' <=> Waits(k, kind))
         /\ \A w \in Writers \ {Head(queue).by} : writer'[w] = writer[w]
<1> DEFINE k0 == Head(queue).by
<1>1. queue # <<>> /\ queue \in Seq(Entry) /\ Head(queue) \in Entry
  BY HeadIs DEF LandFails, BaseInv, InLine
<1>2. CASE k0 \notin Writers
  <2>1. Head(queue).kind # "failed" /\ k0 \notin Singles \cup Replies
    BY <1>1, <1>2 DEF Entry, Writers
  <2>2. writer' = writer /\ queue' = Tail(queue)
    BY <1>2, <2>1 DEF LandFails
  <2> QED
    BY <1>1, <2>2, LineGoes
<1>3. CASE k0 \in Writers
  <2>1. CASE Ended(k0) /\ queue' = Tail(queue)
    <3>1. \A k, kind : k # k0 => (Waits(k, kind)' <=> Waits(k, kind))
      BY <1>1, <2>1, LineGoes
    <3> QED
      BY <2>1, <3>1 DEF Ended, Becomes
  <2>2. ASSUME UNCHANGED writer, NEW f \in Entry, f.by = k0, queue' = Append(Tail(queue), f)
        PROVE  /\ \A k, kind : k # k0 => (Waits(k, kind)' <=> Waits(k, kind))
               /\ \A w \in Writers \ {k0} : writer'[w] = writer[w]
    BY <1>1, <2>2, LineTurns
  <2> QED
    BY <1>3, <2>1, <2>2, FailsWriter
<1> QED
  BY <1>2, <1>3

LEMMA ToldFails ==
  ASSUME BaseInv, Numbers, Told, LandFails
  PROVE  Numbers' /\ Told'
<1> DEFINE e == Head(queue)
<1>1. /\ queue # <<>> /\ queue \in Seq(Entry) /\ e \in Entry
      /\ UNCHANGED <<delivered, used, top, blind, blindAny>>
  BY HeadIs DEF LandFails, BaseInv, InLine, journal
<1>2. CASE e.by \notin Writers
  <2>1. UNCHANGED unheard
    BY <1>2 DEF LandFails, Writers
  <2>2. /\ \A w \in Writers : writer'[w] = writer[w]
        /\ \A w \in Writers : \A kind : Waits(w, kind)' <=> Waits(w, kind)
    BY <1>2, FailsLine
  <2>3. Numbers'
    BY <1>1, <2>1 DEF Numbers
  <2> QED
    BY <1>1, <2>1, <2>2, <2>3, ToldStays
<1>3. ASSUME NEW w \in Writers, w = e.by
      PROVE  Numbers' /\ Told'
  <2>1. /\ writer[w].at = "queued" /\ writer[w].of = e.of /\ e.of \in Senders
        /\ Waits(w, e.kind) /\ (\A kind : kind # e.kind => ~Waits(w, kind))
        /\ \A i \in DOMAIN queue : queue[i].by = w => i = 1
    BY <1>1, <1>3, WriterFirst
  <2>2. /\ \A x \in Writers \ {w} : writer'[x] = writer[x]
        /\ \A k, kind : k # w => (Waits(k, kind)' <=> Waits(k, kind))
    BY <1>3, FailsLine
  <2>3. \A s \in Senders : InHand(w, s) <=> s = e.of /\ e.kind \in {"failed", "status"}
    BY <2>1 DEF InHand
  <2>4. CASE /\ UNCHANGED writer /\ e.kind \in {"sent", "status"}
             /\ \E f \in Entry : /\ f.by = w /\ f.kind = "failed" /\ f.of = e.of
                                 /\ queue' = Append(Tail(queue), f)
             /\ unheard' = IF e.kind = "sent" THEN [unheard EXCEPT ![e.of] = @ + 1] ELSE unheard
    <3>1. PICK f \in Entry : /\ f.by = w /\ f.kind = "failed" /\ f.of = e.of
                             /\ queue' = Append(Tail(queue), f)
      BY <2>4
    <3>2. Waits(w, "failed")'
      BY <1>1, <1>3, <3>1, LineTurns
    <3>3. \A s \in Senders : InHand(w, s)' <=> s = e.of
      BY <2>1, <2>4, <3>2 DEF InHand
    <3>4. /\ unheard' \in [Senders -> Nat]
          /\ \A s \in Senders : unheard'[s] = IF s = e.of /\ e.kind = "sent" THEN unheard[s] + 1 ELSE unheard[s]
      <4>1. unheard \in [Senders -> Nat]
        BY DEF Numbers
      <4> HIDE DEF e
      <4> QED
        BY <2>1, <2>4, <4>1
    <3>5. Numbers'
      BY <1>1, <3>4 DEF Numbers
    <3>6. ASSUME NEW s \in Senders
          PROVE  IsFiniteSet(Hands(s)') /\ Gap(s)' + Cardinality(Hands(s)') <= 0
      <4>1. \A x \in Writers \ {w} : InHand(x, s)' <=> InHand(x, s)
        BY <2>2, HandsElse
      <4>2. Gap(s) \in Int /\ used[s] \in Int /\ delivered[s] \in Nat /\ unheard[s] \in Nat
        BY GapIs
      <4>3. Gap(s)' = delivered[s] - used[s] - unheard'[s] /\ Gap(s) = delivered[s] - used[s] - unheard[s]
        BY <1>1 DEF Gap
      <4> HIDE DEF e
      <4>4. Gap(s)' \in Int /\ Gap(s)' <= Gap(s)
        BY <3>4, <4>2, <4>3
      <4>5. InHand(w, s)' /\ ~InHand(w, s) => Gap(s)' <= Gap(s) - 1
        BY <2>3, <2>4, <3>3, <3>4, <4>2, <4>3
      <4>6. ~InHand(w, s)' /\ InHand(w, s) => Gap(s)' <= Gap(s) + 1
        BY <4>2, <4>4
      <4> QED
        BY <4>1, <4>2, <4>4, <4>5, <4>6, ToldStep
    <3> QED
      BY <3>5, <3>6 DEF Told
  <2>5. CASE Ended(w) /\ queue' = Tail(queue) /\ UNCHANGED unheard
    <3>1. \A s \in Senders : ~InHand(w, s)'
      BY <2>5 DEF Ended, Becomes, InHand
    <3>2. Numbers'
      BY <1>1, <2>5 DEF Numbers
    <3>3. ASSUME NEW s \in Senders
          PROVE  IsFiniteSet(Hands(s)') /\ Gap(s)' + Cardinality(Hands(s)') <= 0
      <4>1. \A x \in Writers \ {w} : InHand(x, s)' <=> InHand(x, s)
        BY <2>2, HandsElse
      <4>2. Gap(s) \in Int /\ Gap(s)' = Gap(s)
        BY <1>1, <2>5, GapIs DEF Gap
      <4> HIDE DEF e
      <4> QED
        BY <3>1, <4>1, <4>2, ToldStep
    <3> QED
      BY <3>2, <3>3 DEF Told
  <2> QED
    BY <1>3, <2>4, <2>5, FailsWriter
<1> QED
  BY <1>2, <1>3

LEMMA ToldOthers ==
  ASSUME BaseInv, Works, Numbers, Told, Others
  PROVE  /\ Numbers' /\ Told' /\ UNCHANGED <<delivered, unheard, top, blind, blindAny>>
         /\ \A w \in Writers : \A kind : Waits(w, kind)' <=> Waits(w, kind)
<1>1. /\ UNCHANGED queue \/ \E e : Puts(e)
      /\ UNCHANGED used /\ \A w \in Writers : writer'[w] = writer[w]
  BY OthersAre
<1>2. UNCHANGED <<delivered, unheard, top, blind, blindAny>>
  BY DEF Others, PolicyBounce, CheckReads, CheckPauses, CheckRaises, ReviewReads, ReviewSteps,
         SetSenderStatus, SetDomainStatus, UpdateStage, UpdateCeiling, seen
<1>3. \A w \in Writers : \A kind : Waits(w, kind)' <=> Waits(w, kind)
  <2>1. CASE UNCHANGED queue
    BY <2>1 DEF Waits
  <2>2. ASSUME NEW e, Puts(e) PROVE \A w \in Writers : \A kind : Waits(w, kind)' <=> Waits(w, kind)
    <3>1. e \in Entry /\ e.by \notin Writers /\ queue' = Append(queue, e) /\ queue \in Seq(Entry)
      BY <2>2 DEF Puts, BaseInv, InLine
    <3> QED
      BY <3>1, LineGrows
  <2> QED
    BY <1>1, <2>1, <2>2
<1>4. Numbers'
  BY <1>2 DEF Numbers
<1> QED
  BY <1>1, <1>2, <1>3, <1>4, ToldStays

\* Nobody has a letter in hand.
LEMMA ToldIdle ==
  ASSUME BaseInv, Numbers, \A w \in Writers : writer'[w].at = "idle",
         \A s \in Senders : Gap(s)' <= 0, \A s \in Senders : Gap(s)' \in Int
  PROVE  Told'
<1>1. \A s \in Senders : Hands(s)' = {}
  BY DEF Hands, InHand
<1>2. \A s \in Senders : IsFiniteSet(Hands(s)') /\ Cardinality(Hands(s)') = 0
  BY <1>1, FS_EmptySet
<1> QED
  BY <1>2 DEF Told

LEMMA ToldRestart ==
  ASSUME BaseInv, Numbers, Told, Restart
  PROVE  Numbers' /\ Told'
<1>1. /\ UNCHANGED <<delivered, unheard, used, top, blind, blindAny>>
      /\ \A w \in Writers : writer'[w].at = "idle"
  BY RestartBase DEF Restart, journal, seen
<1>2. \A s \in Senders : Gap(s)' = Gap(s) /\ Gap(s) \in Int
  BY <1>1, GapIs DEF Gap
<1>3. \A s \in Senders : Gap(s) <= 0
  BY <1>2, FS_CardinalityType DEF Told
<1>4. Numbers'
  BY <1>1 DEF Numbers
<1> QED
  BY <1>1, <1>2, <1>3, <1>4, ToldIdle

LEMMA ToldNextDay ==
  ASSUME BaseInv, Numbers, Told, NextDay
  PROVE  Numbers' /\ Told'
<1>1. /\ delivered' = [s \in Senders |-> 0] /\ unheard' = [s \in Senders |-> 0]
      /\ used' = [s \in Senders |-> 0] /\ blind' = [s \in Senders |-> 0] /\ blindAny' = 0
      /\ top' = [s \in Senders |-> ColdAllowance(s)]
      /\ \A w \in Writers : writer'[w].at = "idle"
  BY DEF NextDay
<1>2. \A s \in Senders : Gap(s)' = 0
  BY <1>1 DEF Gap
<1>3. Numbers'
  BY <1>1, ColdNat DEF Numbers, BaseInv
<1> QED
  BY <1>1, <1>2, <1>3, ToldIdle

-----------------------------------------------------------------------------
(* An attempt is made where there is room, as far as its writer can see.    *)

LEMMA TotalLess ==
  ASSUME NEW a \in Count, NEW b \in Count, \A s \in Senders : a[s] <= b[s]
  PROVE  Total(a) \in Int /\ Total(b) \in Int /\ Total(a) <= Total(b)
<1> DEFINE z == [s \in Senders |-> 0]
<1>1. z \in Count /\ \A s \in Senders : z[s] = 0
  BY DEF Count
<1> HIDE DEF z
<1>2. Total(z) = 0
  BY <1>1, TotalNothing
<1>3. \A s \in Senders : a[s] <= b[s] + z[s]
  BY <1>1 DEF Count
<1>4. Total(a) \in Int /\ Total(b) \in Int /\ Total(a) <= Total(b) + Total(z)
  BY <1>1, <1>3, TotalBelow
<1> QED
  BY <1>2, <1>4

Within ==
  /\ \A s \in Senders : ColdAllowance(s) <= top[s]
  /\ \A w \in Writers : \A s \in Senders : writer[w].allow[s] <= top[s]
  /\ \A w \in Writers \ Replies : Waits(w, "sending") => Room(w, writer[w].of)
  /\ \A s \in Senders : used[s] <= top[s] + blind[s]
  /\ Public \/ Total(used) <= DomainLimit + blindAny

\* the allowance of a writer, as it goes on
LEMMA AllowGoesOn ==
  ASSUME BaseInv, Numbers, Within, NEW w \in Writers,
         \/ writer'[w].allow = writer[w].allow
         \/ \A s \in Senders : writer'[w].allow[s] = 0
         \/ \A s \in Senders : writer'[w].allow[s] = ColdAllowance(s)
  PROVE  \A s \in Senders : writer'[w].allow[s] <= top[s]
<1>1. \A s \in Senders : top[s] \in Nat
  BY DEF Numbers
<1> QED
  BY <1>1 DEF Within

LEMMA RoomSame ==
  ASSUME NEW w \in Writers, NEW s, Keeps(w), Room(w, s), writer'[w].of = s
  PROVE  Room(w, writer[w].of)'
<1>1. /\ writer[w].ledger[s] < writer[w].allow[s]
      /\ Public \/ Total(writer[w].ledger) < DomainLimit
  BY Zenon DEF Room
<1>2. /\ writer'[w].ledger[s] < writer'[w].allow[s]
      /\ Public \/ Total(writer'[w].ledger) < DomainLimit
  BY <1>1, Zenon DEF Keeps
<1> QED
  BY <1>2, Zenon DEF Room

\* Writer w goes on, and nothing of the journal changes.
LEMMA WithinWriter ==
  ASSUME BaseInv, Numbers, Within, NEW w \in Writers, NEW at, NEW of, Becomes(w, at, of),
         \/ writer'[w].allow = writer[w].allow
         \/ \A s \in Senders : writer'[w].allow[s] = 0
         \/ \A s \in Senders : writer'[w].allow[s] = ColdAllowance(s),
         UNCHANGED <<sender, used, top, blind, blindAny>>,
         \A k, kind : k # w => (Waits(k, kind)' <=> Waits(k, kind)),
         w \notin Replies /\ Waits(w, "sending")' => Room(w, writer[w].of)'
  PROVE  Within'
<1>1. \A s \in Senders : ColdAllowance(s)' <= top'[s]
  BY DEF Within, ColdAllowance
<1>2. \A x \in Writers : \A s \in Senders : writer'[x].allow[s] <= top'[s]
  BY AllowGoesOn DEF Within, Becomes
<1>3. ASSUME NEW x \in Writers \ {w}, x \notin Replies, Waits(x, "sending")'
      PROVE  Room(x, writer[x].of)'
  <2>1. Waits(x, "sending") /\ writer'[x] = writer[x]
    BY <1>3 DEF Becomes
  <2>2. Room(x, writer[x].of)
    BY <1>3, <2>1 DEF Within
  <2> QED
    BY <2>1, <2>2, RoomSame DEF Keeps
<1>4. (\A s \in Senders : used'[s] <= top'[s] + blind'[s]) /\ (Public \/ Total(used') <= DomainLimit + blindAny')
  BY DEF Within
<1> QED
  BY <1>1, <1>2, <1>3, <1>4 DEF Within

LEMMA WithinSteps ==
  ASSUME BaseInv, Numbers, Within, NEW w \in Writers, WriterSteps(w)
  PROVE  Within'
<1> DEFINE o == writer[w].of
<1>0. UNCHANGED <<sender, used, top, blind, blindAny>>
  BY DEF WriterSteps, ReadFirst, GiveUp, Gate, Accepted, AnswerLost, Refused, AfterPause,
         Attempt, QuickReply, journal, seen
<1>1. CASE ReadFirst(w) \/ GiveUp(w)
  <2>1. writer[w].at # "queued" /\ UNCHANGED queue
    BY <1>1 DEF ReadFirst, GiveUp
  <2>2. ~Waits(w, "sending")' /\ \A k, kind : Waits(k, kind)' <=> Waits(k, kind)
    BY <2>1 DEF Waits, BaseInv, InLine
  <2>3. \E at, of : Becomes(w, at, of)
    BY <1>1, ReadFirstIs, GiveUpIs
  <2>4. \/ \A s \in Senders : writer'[w].allow[s] = 0
        \/ \A s \in Senders : writer'[w].allow[s] = ColdAllowance(s)
    BY <1>1, ReadFirstIs, GiveUpIs
  <2> QED
    BY <1>0, <2>2, <2>3, <2>4, WithinWriter
<1>2. ASSUME NEW s \in Senders, Attempt(w, s)
      PROVE  Within'
  <2>1. /\ Becomes(w, "queued", s) /\ Keeps(w) /\ Sends(w, s, "sending")
        /\ writer[w].at = "ready"
    BY <1>2, AttemptIs
  <2>2. Room(w, s)
    BY <1>2 DEF Attempt
  <2>3. Room(w, writer[w].of)'
    BY <2>1, <2>2, RoomSame DEF Becomes
  <2>4. \A k, kind : k # w => (Waits(k, kind)' <=> Waits(k, kind))
    BY <2>1, SendsIs
  <2> QED
    BY <1>0, <2>1, <2>3, <2>4, WithinWriter DEF Keeps
<1>3. ASSUME NEW at, NEW of, Becomes(w, at, of), writer[w].at # "queued",
             \/ writer'[w].allow = writer[w].allow
             \/ \A s \in Senders : writer'[w].allow[s] = 0,
             \/ UNCHANGED queue
             \/ \E kind \in {"failed", "status", "sent"} : Sends(w, of, kind)
      PROVE  Within'
  <2>1. (\A k, kind : k # w => (Waits(k, kind)' <=> Waits(k, kind))) /\ ~Waits(w, "sending")'
    <3>1. CASE UNCHANGED queue
      BY <1>3, <3>1 DEF Waits, BaseInv, InLine
    <3>2. ASSUME NEW kind \in {"failed", "status", "sent"}, Sends(w, of, kind)
          PROVE  (\A k, what : k # w => (Waits(k, what)' <=> Waits(k, what))) /\ ~Waits(w, "sending")'
      BY <1>3, <3>2, SendsIs
    <3> QED
      BY <1>3, <3>1, <3>2
  <2> QED
    BY <1>0, <1>3, <2>1, WithinWriter
<1>4. CASE Gate(w) \/ Refused(w) \/ AfterPause(w) \/ Accepted(w)
  <2>1. writer[w].at # "queued"
    BY <1>4 DEF Gate, Refused, AfterPause, Accepted
  <2>2. \E at : Becomes(w, at, o)
    BY <1>4, GateIs, RefusedIs, AcceptedIs
  <2>3. Keeps(w)
    BY <1>4, GateIs, RefusedIs, AcceptedIs
  <2>4. \/ UNCHANGED queue
        \/ \E kind \in {"failed", "status", "sent"} : Sends(w, o, kind)
    BY <1>4, GateIs, RefusedIs, AcceptedIs
  <2> QED
    BY <1>3, <2>1, <2>2, <2>3, <2>4 DEF Keeps
<1>5. CASE AnswerLost(w)
  <2>1. writer[w].at # "queued"
    BY <1>5 DEF AnswerLost
  <2>2. CASE /\ \/ Becomes(w, "ready", NoOne) /\ writer'[w].allow = writer[w].allow
                \/ Becomes(w, "idle", NoOne) /\ \A s \in Senders : writer'[w].allow[s] = 0
             /\ UNCHANGED queue
    BY <1>3, <2>1, <2>2
  <2>3. CASE Becomes(w, "queued", o) /\ Sends(w, o, "failed") /\ Keeps(w)
    BY <1>3, <2>1, <2>3 DEF Keeps
  <2> QED
    BY <1>5, <2>2, <2>3, AnswerLostIs
<1>6. ASSUME NEW s \in Senders, QuickReply(w, s)
      PROVE  Within'
  <2>1. Becomes(w, "queued", s) /\ Keeps(w) /\ Sends(w, s, "sending") /\ writer[w].at = "idle" /\ w \in Replies
    BY <1>6, QuickReplyIs
  <2>2. \A k, kind : k # w => (Waits(k, kind)' <=> Waits(k, kind))
    BY <2>1, SendsIs
  <2> QED
    BY <1>0, <2>1, <2>2, WithinWriter DEF Keeps
<1> QED
  BY <1>1, <1>2, <1>4, <1>5, <1>6 DEF WriterSteps

\* The attempt counts: its writer saw room, or there was one it could not see, or it is
\* a reply: then there was room, or it is counted as one beyond it.
LEMMA UsedLands ==
  ASSUME BaseInv, BaseInv', Numbers, Within, Lands
  PROVE  /\ \A s \in Senders : used'[s] <= top'[s] + blind'[s]
         /\ (Public \/ Total(used') <= DomainLimit + blindAny')
<1> DEFINE e == Head(queue)
           w == e.by
           o == e.of
           l == writer[w].ledger
<1>1. /\ queue # <<>> /\ e \in Entry /\ used' = Ledger(e)
      /\ used \in Count /\ used' \in Count
  BY HeadIs DEF Lands, BaseInv, Tables, Count
<1>2. \A s \in Senders :
        used'[s] = IF o # s THEN used[s]
                   ELSE IF e.kind = "sending" THEN used[s] + 1
                   ELSE IF e.kind = "failed" THEN used[s] - 1
                   ELSE used[s]
  BY <1>1, LedgerIs DEF BaseInv
<1>3. /\ \A s \in Senders : /\ top'[s] >= top[s] /\ blind'[s] >= blind[s]
                            /\ {top[s], top'[s], blind[s], blind'[s]} \subseteq Nat
                            /\ used[s] \in Int
                            /\ used[s] <= top[s] + blind[s]
      /\ blindAny' >= blindAny /\ blindAny \in Nat /\ blindAny' \in Nat /\ DomainLimit \in Nat
      /\ (Public \/ Total(used) <= DomainLimit + blindAny)
  <2>1. /\ Numbers' /\ blindAny' >= blindAny
        /\ \A s \in Senders : top'[s] >= top[s] /\ blind'[s] >= blind[s]
    BY NumbersLand
  <2> QED
    BY <1>1, <2>1, DomainAssumption DEF Numbers, Within, Count
<1>4. CASE e.kind # "sending"
  <2>1. \A s \in Senders : used'[s] <= used[s]
    BY <1>2, <1>3, <1>4
  <2>2. Total(used') \in Int /\ Total(used) \in Int /\ Total(used') <= Total(used)
    BY <1>1, <2>1, TotalLess
  <2>3. \A s \in Senders : used'[s] \in Int
    BY <1>1 DEF Count
  <2> QED
    BY <1>3, <2>1, <2>2, <2>3
<1>5. CASE e.kind = "sending"
  <2>1. w \in Writers
    BY <1>1, <1>5 DEF Entry
  <2>2. Waits(w, "sending") /\ writer[w].of = o /\ o \in Senders /\ w \in Writers
    BY <1>1, <1>5, <2>1, WriterFirst
  <2>3. w \notin Replies => Room(w, o)
    BY <2>2 DEF Within
  <2>4. w \notin Replies => l[o] < writer[w].allow[o] /\ (Public \/ Total(l) < DomainLimit)
    BY <2>3, Zenon DEF Room
  <2>5. l \in Count /\ writer[w].allow[o] \in Nat /\ writer[w].allow[o] <= top[o]
    BY <2>2 DEF BaseInv, Letters, Letter, Count, Within
  <2>6. /\ blind' = IF Beyond(w, o) THEN [blind EXCEPT ![o] = @ + 1] ELSE blind
        /\ blindAny' = IF BeyondAny(w) THEN blindAny + 1 ELSE blindAny
    BY <1>5 DEF Lands, Noted
  <2>11. /\ Beyond(w, o) <=> IF w \in Replies THEN used[o] >= top[o] ELSE l[o] < used[o]
         /\ BeyondAny(w) <=> IF w \in Replies THEN Total(used) >= DomainLimit
                                              ELSE \E s \in Senders : l[s] < used[s]
    BY DEF Beyond, BeyondAny
  <2>7. Beyond(w, o) => blind'[o] = blind[o] + 1
    <3>1. blind \in [Senders -> Nat]
      BY DEF Numbers
    <3> HIDE DEF o, l, w
    <3> QED
      BY <2>2, <2>6, <3>1
  <2> HIDE DEF e, w, o, l
  <2>8. used'[o] <= top'[o] + blind'[o]
    <3>1. used'[o] = used[o] + 1 /\ l[o] \in Int
      BY <1>2, <1>5, <2>2, <2>5 DEF Count
    <3>2. CASE Beyond(w, o)
      BY <1>3, <2>2, <2>7, <3>1, <3>2
    <3>3. CASE ~Beyond(w, o) /\ w \notin Replies
      <4>1. used[o] + 1 <= writer[w].allow[o]
        BY <1>3, <2>2, <2>4, <2>5, <2>11, <3>1, <3>3
      <4>2. used[o] + 1 <= top'[o]
        BY <1>3, <2>2, <2>5, <4>1
      <4> QED
        BY <1>3, <2>2, <3>1, <4>2
    <3>4. CASE ~Beyond(w, o) /\ w \in Replies
      <4>1. ~(used[o] >= top[o])
        BY <2>11, <3>4
      <4> QED
        BY <1>3, <2>2, <3>1, <4>1
    <3> QED
      BY <3>2, <3>3, <3>4
  <2>9. \A s \in Senders : used'[s] <= top'[s] + blind'[s]
    <3> TAKE s \in Senders
    <3>1. CASE s # o
      BY <1>2, <1>3, <3>1
    <3> QED
      BY <2>8, <3>1
  <2>10. Public \/ Total(used') <= DomainLimit + blindAny'
    <3> SUFFICES ASSUME ~Public PROVE Total(used') <= DomainLimit + blindAny'
      OBVIOUS
    <3>0. used'[o] <= used[o] + 1 /\ \A t \in Senders : t # o => used'[t] <= used[t]
      BY <1>2, <1>3, <1>5, <2>2
    <3>1. Total(used') \in Int /\ Total(used) \in Int /\ Total(used') <= Total(used) + 1
      BY <1>1, <2>2, <3>0, TotalOneMore
    <3>2. CASE BeyondAny(w)
      <4>1. blindAny' = blindAny + 1
        BY <2>6, <3>2
      <4> QED
        BY <1>3, <3>1, <4>1
    <3>3. CASE ~BeyondAny(w) /\ w \notin Replies
      <4>1. \A s \in Senders : used[s] <= l[s] /\ l[s] \in Int
        BY <1>3, <2>5, <2>11, <3>3 DEF Count
      <4>2. used'[o] <= l[o] + 1 /\ \A t \in Senders : t # o => used'[t] <= l[t]
        BY <1>2, <1>3, <1>5, <2>2, <4>1
      <4>3. Total(used') \in Int /\ Total(l) \in Int /\ Total(used') <= Total(l) + 1
        BY <1>1, <2>2, <2>5, <4>2, TotalOneMore
      <4>4. Total(l) + 1 <= DomainLimit
        BY <1>3, <2>4, <3>3, <4>3
      <4> QED
        BY <1>3, <4>3, <4>4
    <3>4. CASE ~BeyondAny(w) /\ w \in Replies
      <4>1. ~(Total(used) >= DomainLimit)
        BY <2>11, <3>4
      <4> QED
        BY <1>3, <3>1, <4>1
    <3> QED
      BY <3>2, <3>3, <3>4
  <2> QED
    BY <2>9, <2>10
<1> QED
  BY <1>4, <1>5

\* The writer of what has left the line goes on; the registry may have changed.
LEMMA WithinLine ==
  ASSUME BaseInv, Numbers, Numbers', Within, NEW k0,
         \A k, kind : k # k0 => (Waits(k, kind)' <=> Waits(k, kind)),
         k0 \in Writers => ~Waits(k0, "sending")',
         \A x \in Writers \ {k0} : writer'[x] = writer[x],
         k0 \in Writers => \/ writer'[k0].allow = writer[k0].allow
                           \/ \A s \in Senders : writer'[k0].allow[s] = 0,
         \A s \in Senders : top'[s] >= top[s] /\ top'[s] >= ColdAllowance(s)'
  PROVE  /\ \A s \in Senders : ColdAllowance(s)' <= top'[s]
         /\ \A w \in Writers : \A s \in Senders : writer'[w].allow[s] <= top'[s]
         /\ \A w \in Writers \ Replies : Waits(w, "sending")' => Room(w, writer[w].of)'
<1>1. ASSUME NEW w \in Writers, NEW s \in Senders PROVE writer'[w].allow[s] <= top'[s]
  <2>1. top[s] \in Nat /\ top'[s] \in Nat /\ writer[w].allow[s] \in Nat /\ writer[w].allow[s] <= top[s]
    BY DEF Numbers, Within, BaseInv, Letters, Letter
  <2>2. writer'[w].allow[s] = writer[w].allow[s] \/ writer'[w].allow[s] = 0
    OBVIOUS
  <2> QED
    BY <2>1, <2>2
<1>2. ASSUME NEW w \in Writers \ Replies, Waits(w, "sending")' PROVE Room(w, writer[w].of)'
  <2>1. Waits(w, "sending") /\ writer'[w] = writer[w]
    BY <1>2
  <2>2. Room(w, writer[w].of)
    BY <2>1 DEF Within
  <2> QED
    BY <2>1, <2>2, RoomSame DEF Keeps
<1>3. \A s \in Senders : ColdAllowance(s)' <= top'[s]
  <2> TAKE s \in Senders
  <2>1. top'[s] >= ColdAllowance(s)'
    OBVIOUS
  <2> QED
    BY <2>1
<1> QED
  BY <1>1, <1>2, <1>3

LEMMA WithinLands ==
  ASSUME BaseInv, BaseInv', Numbers, Within, Lands
  PROVE  Within'
<1>0. PICK k0 : k0 = Head(queue).by
  OBVIOUS
<1>1. queue # <<>> /\ queue \in Seq(Entry) /\ queue' = Tail(queue) /\ Head(queue) \in Entry
  BY HeadIs DEF Lands, BaseInv, InLine
<1>2. /\ \A k, kind : k # k0 => (Waits(k, kind)' <=> Waits(k, kind))
      /\ k0 \in Writers => ~Waits(k0, "sending")'
  <2>1. \A k, kind : k # k0 => (Waits(k, kind)' <=> Waits(k, kind))
    BY <1>0, <1>1, LineGoes
  <2>2. ASSUME k0 \in Writers PROVE ~Waits(k0, "sending")'
    <3>1. \A i \in DOMAIN queue : queue[i].by = k0 => i = 1
      BY <1>0, <1>1, <2>2, WriterFirst
    <3>2. \A kind : ~Waits(k0, kind)'
      BY <1>0, <1>1, <3>1, LineGoes
    <3> QED
      BY <3>2
  <2> QED
    BY <2>1, <2>2
<1>3. /\ Numbers' /\ \A s \in Senders : top'[s] >= top[s] /\ top'[s] >= ColdAllowance(s)'
      /\ \A s \in Senders : used'[s] <= top'[s] + blind'[s]
      /\ (Public \/ Total(used') <= DomainLimit + blindAny')
  BY NumbersLand, UsedLands
<1>4. /\ \A x \in Writers \ {k0} : writer'[x] = writer[x]
      /\ k0 \in Writers => \/ writer'[k0].allow = writer[k0].allow
                           \/ \A s \in Senders : writer'[k0].allow[s] = 0
  <2>1. CASE k0 \in Writers
    <3>1. Head(queue).kind \in {"sending", "sent", "failed", "status"}
      BY <1>0, <1>1, <2>1, WriterFirst
    <3> QED
      BY <1>0, <2>1, <3>1, LandedWriter DEF Ended, Becomes, Keeps
  <2>2. CASE k0 \notin Writers
    BY <1>0, <2>2 DEF Lands, Landed
  <2> QED
    BY <2>1, <2>2
<1>5. /\ \A s \in Senders : ColdAllowance(s)' <= top'[s]
      /\ \A w \in Writers : \A s \in Senders : writer'[w].allow[s] <= top'[s]
      /\ \A w \in Writers \ Replies : Waits(w, "sending")' => Room(w, writer[w].of)'
  BY <1>2, <1>3, <1>4, WithinLine
<1> QED
  BY <1>3, <1>5 DEF Within

LEMMA WithinFails ==
  ASSUME BaseInv, BaseInv', Numbers, Numbers', Within, LandFails
  PROVE  Within'
<1>0. PICK k0 : k0 = Head(queue).by
  OBVIOUS
<1>1. /\ queue # <<>> /\ queue \in Seq(Entry) /\ Head(queue) \in Entry
      /\ UNCHANGED <<sender, used, top, blind, blindAny>>
  BY HeadIs DEF LandFails, BaseInv, InLine, journal
<1>2. /\ \A k, kind : k # k0 => (Waits(k, kind)' <=> Waits(k, kind))
      /\ \A x \in Writers \ {k0} : writer'[x] = writer[x]
  BY <1>0, FailsLine
<1>3. \A s \in Senders : top'[s] >= top[s] /\ top'[s] >= ColdAllowance(s)'
  <2> TAKE s \in Senders
  <2>1. ColdAllowance(s)' = ColdAllowance(s) /\ top'[s] = top[s] /\ top[s] \in Nat
        /\ ColdAllowance(s) \in Nat /\ ColdAllowance(s) <= top[s]
    BY <1>1, ColdNat DEF ColdAllowance, Within, Numbers, BaseInv
  <2> QED
    BY <2>1
<1>4. ASSUME k0 \in Writers
      PROVE  /\ ~Waits(k0, "sending")'
             /\ \/ writer'[k0].allow = writer[k0].allow
                \/ \A s \in Senders : writer'[k0].allow[s] = 0
  <2>1. \A i \in DOMAIN queue : queue[i].by = k0 => i = 1
    BY <1>0, <1>1, <1>4, WriterFirst
  <2>2. CASE UNCHANGED writer /\ \E f \in Entry : /\ f.by = k0 /\ f.kind = "failed"
                                                  /\ queue' = Append(Tail(queue), f)
    <3>1. PICK f \in Entry : f.by = k0 /\ f.kind = "failed" /\ queue' = Append(Tail(queue), f)
      BY <2>2
    <3>2. ~Waits(k0, "sending")'
      <4>1. f.by = Head(queue).by /\ \A i \in DOMAIN queue : queue[i].by = f.by => i = 1
        BY <1>0, <2>1, <3>1
      <4>2. \A kind : kind # "failed" => ~Waits(f.by, kind)'
        BY <1>1, <3>1, <4>1, LineTurns
      <4> QED
        BY <3>1, <4>2
    <3> QED
      BY <2>2, <3>2
  <2>3. CASE Ended(k0) /\ queue' = Tail(queue)
    <3>1. ~Waits(k0, "sending")'
      <4>1. \A kind : ~Waits(k0, kind)'
        BY <1>0, <1>1, <2>1, <2>3, LineGoes
      <4> QED
        BY <4>1
    <3> QED
      BY <2>3, <3>1 DEF Ended
  <2> QED
    BY <1>0, <1>4, <2>2, <2>3, FailsWriter
<1>5. (\A s \in Senders : used'[s] <= top'[s] + blind'[s]) /\ (Public \/ Total(used') <= DomainLimit + blindAny')
  BY <1>1 DEF Within
<1>6. /\ \A s \in Senders : ColdAllowance(s)' <= top'[s]
      /\ \A w \in Writers : \A s \in Senders : writer'[w].allow[s] <= top'[s]
      /\ \A w \in Writers \ Replies : Waits(w, "sending")' => Room(w, writer[w].of)'
  BY <1>2, <1>3, <1>4, WithinLine
<1> QED
  BY <1>5, <1>6 DEF Within

LEMMA WithinOthers ==
  ASSUME BaseInv, Works, Numbers, Told, Within, Others
  PROVE  Within'
<1>1. /\ UNCHANGED <<top, blind, blindAny>>
      /\ \A w \in Writers : \A kind : Waits(w, kind)' <=> Waits(w, kind)
  BY ToldOthers
<1>2. UNCHANGED <<sender, used, writer>>
  BY OthersAre
<1>3. ASSUME NEW w \in Writers \ Replies, Waits(w, "sending")' PROVE Room(w, writer[w].of)'
  <2>1. Room(w, writer[w].of) /\ writer'[w] = writer[w]
    BY <1>1, <1>2, <1>3 DEF Within
  <2> QED
    BY <2>1, RoomSame DEF Keeps
<1> QED
  BY <1>1, <1>2, <1>3 DEF Within, ColdAllowance

LEMMA WithinRestart ==
  ASSUME BaseInv, Numbers, Within, Restart
  PROVE  Within'
<1>1. /\ UNCHANGED <<sender, used, top, blind, blindAny>> /\ queue' = <<>>
      /\ \A w \in Writers : writer'[w] = IdleWriter
  BY DEF Restart, journal, seen
<1>2. \A w \in Writers, s \in Senders : writer'[w].allow[s] = 0 /\ top[s] \in Nat
  BY <1>1, IdleIs DEF Numbers
<1>3. \A w \in Writers : ~Waits(w, "sending")'
  BY <1>1 DEF Waits
<1> QED
  BY <1>1, <1>2, <1>3 DEF Within, ColdAllowance

\* nothing is counted yet, and nobody has an allowance
LEMMA WithinNew ==
  ASSUME Tables', Letters', queue' = <<>>, \A w \in Writers : writer'[w].at = "idle",
         \A s \in Senders : ColdAllowance(s)' <= top'[s] /\ top'[s] \in Nat,
         used' = [s \in Senders |-> 0], blind' = [s \in Senders |-> 0], blindAny' = 0
  PROVE  Within'
<1>1. \A w \in Writers : \A s \in Senders : writer'[w].allow[s] <= top'[s]
  BY DEF Letters
<1>2. \A w \in Writers : ~Waits(w, "sending")'
  BY DEF Waits
<1>3. \A s \in Senders : used'[s] <= top'[s] + blind'[s]
  OBVIOUS
<1>4. Total(used') <= DomainLimit + blindAny'
  <2>1. used' \in Count /\ \A s \in Senders : used'[s] = 0
    BY DEF Count
  <2>2. Total(used') = 0
    BY <2>1, TotalNothing
  <2> QED
    BY <2>2, DomainAssumption
<1> QED
  BY <1>1, <1>2, <1>3, <1>4 DEF Within

LEMMA WithinNextDay ==
  ASSUME BaseInv, BaseInv', Numbers, Within, NextDay
  PROVE  Within'
<1>1. /\ queue' = <<>> /\ (\A w \in Writers : writer'[w].at = "idle") /\ UNCHANGED sender
      /\ top' = [s \in Senders |-> ColdAllowance(s)] /\ used' = [s \in Senders |-> 0]
      /\ blind' = [s \in Senders |-> 0] /\ blindAny' = 0
  BY DEF NextDay
<1>2. ASSUME NEW s \in Senders PROVE ColdAllowance(s)' <= top'[s] /\ top'[s] \in Nat
  <2>1. ColdAllowance(s)' = ColdAllowance(s) /\ top'[s] = ColdAllowance(s) /\ ColdAllowance(s) \in Nat
    BY <1>1, ColdNat DEF ColdAllowance, BaseInv
  <2> QED
    BY <2>1
<1> QED
  BY <1>1, <1>2, WithinNew DEF BaseInv

-----------------------------------------------------------------------------
(* The day's letters.                                                      *)

DayInv == Numbers /\ Told /\ Within

LEMMA DayInit == Init => DayInv
<1> SUFFICES ASSUME Init PROVE DayInv
  OBVIOUS
<1>1. Tables /\ Letters
  BY ShapeInit DEF Shape, BaseInv
<1>2. /\ delivered = [s \in Senders |-> 0] /\ unheard = [s \in Senders |-> 0]
      /\ used = [s \in Senders |-> 0] /\ blind = [s \in Senders |-> 0] /\ blindAny = 0
      /\ top = [s \in Senders |-> Allow[1]] /\ queue = <<>>
      /\ \A w \in Writers : writer[w].at = "idle"
  BY DEF Init, IdleWriter
<1>3. Numbers
  BY <1>2, AllowFacts DEF Numbers
<1>4. Told
  <2>1. \A s \in Senders : Hands(s) = {} /\ Gap(s) = 0
    BY <1>2 DEF Hands, InHand, Gap
  <2> QED
    BY <2>1, FS_EmptySet DEF Told
<1>5. Within
  <2>1. \A s \in Senders : ColdAllowance(s) <= top[s] /\ top[s] \in Nat
    <3> TAKE s \in Senders
    <3>1. sender[s].stage = 1 /\ sender[s].ceiling = Allow[Len(Allow)]
      BY DEF Init
    <3>2. Allow[1] \in Nat /\ Allow[Len(Allow)] \in Nat /\ top[s] = Allow[1]
      BY <1>2, AllowFacts
    <3> QED
      BY <3>1, <3>2, MinNat DEF ColdAllowance
  <2>2. \A w \in Writers : \A s \in Senders : writer[w].allow[s] <= top[s]
    BY <1>1, <1>2, <2>1 DEF Letters
  <2>3. \A w \in Writers : ~Waits(w, "sending")
    BY <1>2 DEF Waits
  <2>4. \A s \in Senders : used[s] <= top[s] + blind[s]
    BY <1>2, <2>1
  <2>5. used \in Count /\ \A s \in Senders : used[s] = 0
    BY <1>2 DEF Count
  <2>6. Total(used) <= DomainLimit + blindAny
    BY <1>2, <2>5, TotalNothing, DomainAssumption
  <2> QED
    BY <2>1, <2>2, <2>3, <2>4, <2>6 DEF Within
<1> QED
  BY <1>3, <1>4, <1>5 DEF DayInv

LEMMA DayNext == Shape /\ DayInv /\ [Next]_vars => DayInv'
<1> SUFFICES ASSUME Shape, DayInv, [Next]_vars PROVE DayInv'
  OBVIOUS
<1> USE DEF Shape, DayInv
<1>0. BaseInv'
  BY ShapeNext
<1>1. ASSUME NEW w \in Writers, WriterSteps(w) PROVE DayInv'
  BY <1>1, DayWriter, WithinSteps
<1>2. CASE Others
  BY <1>2, ToldOthers, WithinOthers
<1>3. CASE Lands
  BY <1>0, <1>3, NumbersLand, ToldLands, WithinLands
<1>4. CASE LandFails
  BY <1>0, <1>4, ToldFails, WithinFails
<1>5. CASE Restart
  BY <1>5, ToldRestart, WithinRestart
<1>6. CASE NextDay
  BY <1>0, <1>6, ToldNextDay, WithinNextDay
<1>7. CASE UNCHANGED vars
  <2>1. /\ UNCHANGED <<queue, sender, used, writer>>
        /\ UNCHANGED <<delivered, unheard, top, blind, blindAny>>
    BY <1>7 DEF vars, journal, seen
  <2>2. Numbers' /\ \A k, kind : Waits(k, kind)' <=> Waits(k, kind)
    BY <2>1 DEF Numbers, Waits
  <2>3. Told'
    BY <2>1, <2>2, ToldStays
  <2>4. ASSUME NEW w \in Writers \ Replies, Waits(w, "sending")' PROVE Room(w, writer[w].of)'
    <3>1. Room(w, writer[w].of) /\ writer'[w] = writer[w]
      BY <2>1, <2>2, <2>4 DEF Within
    <3> QED
      BY <3>1, RoomSame DEF Keeps
  <2>5. Within'
    BY <2>1, <2>4 DEF Within, ColdAllowance
  <2> QED
    BY <2>2, <2>3, <2>5
<1> QED
  BY <1>1, <1>2, <1>3, <1>4, <1>5, <1>6, <1>7, NextSplits

\* However many mailboxes write on the domain, and however many letters and replies are
\* on their way at once: the day's letters stay within the allowances of the mailboxes
\* and, unless it is a public one, the limit of the domain (DayAllowance), but for those
\* whose writer could not see another's, the replies written when there was no room left
\* (they ask for none), and those that went and were journaled as failed.
THEOREM DayKeepsToItsAllowance == Spec => []DayAllowance
<1>1. Shape /\ DayInv => DayAllowance
  <2> SUFFICES ASSUME Shape, DayInv PROVE DayAllowance
    OBVIOUS
  <2>1. ASSUME NEW s \in Senders
        PROVE  /\ delivered[s] \in Nat /\ unheard[s] \in Nat /\ used[s] \in Int
               /\ top[s] \in Nat /\ blind[s] \in Nat
               /\ delivered[s] <= used[s] + unheard[s] /\ used[s] <= top[s] + blind[s]
    <3>1. delivered[s] \in Nat /\ unheard[s] \in Nat /\ used[s] \in Int
          /\ top[s] \in Nat /\ blind[s] \in Nat
      BY DEF DayInv, Numbers, Shape, BaseInv, Tables
    <3>2. Cardinality(Hands(s)) \in Nat /\ Gap(s) + Cardinality(Hands(s)) <= 0
      BY FS_CardinalityType DEF DayInv, Told
    <3>3. delivered[s] - used[s] - unheard[s] <= 0
      BY <3>1, <3>2 DEF Gap
    <3>4. used[s] <= top[s] + blind[s]
      BY DEF DayInv, Within
    <3> QED
      BY <3>1, <3>3, <3>4
  <2>2. delivered \in Count /\ used \in Count /\ unheard \in Count
    BY DEF DayInv, Numbers, Shape, BaseInv, Tables, Count
  <2>3. /\ Total(delivered) \in Int /\ Total(used) \in Int /\ Total(unheard) \in Int
        /\ Total(delivered) <= Total(used) + Total(unheard)
    BY <2>1, <2>2, TotalBelow
  <2>4. (Public \/ Total(used) <= DomainLimit + blindAny) /\ DomainLimit \in Nat /\ blindAny \in Nat
    BY DomainAssumption DEF DayInv, Within, Numbers
  <2>5. Public \/ Total(delivered) <= DomainLimit + blindAny + Total(unheard)
    BY <2>3, <2>4
  <2>6. \A s \in Senders : delivered[s] <= top[s] + blind[s] + unheard[s]
    BY <2>1
  <2> QED
    BY <2>5, <2>6 DEF DayAllowance
<1> QED
  BY <1>1, ShapeInit, ShapeNext, DayInit, DayNext, PTL DEF Spec
=============================================================================
