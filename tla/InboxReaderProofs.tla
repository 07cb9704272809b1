-------------------------- MODULE InboxReaderProofs --------------------------
(***************************************************************************)
(* That no cursor of an inbox is ever taken past an answer nobody read,    *)
(* and that what is read twice is journaled once, for any number of        *)
(* letters, messages and faults and any caps of Gmail's lists.             *)
(*                                                                         *)
(* A cursor is honest because the pass that wrote it was: what its reader  *)
(* was to go on from (next) covers nothing but what is journaled, what is  *)
(* still in its list and what it knows it leaves out.  Journal lines are   *)
(* never taken back, so both stay true whatever the other reader does.     *)
(***************************************************************************)
EXTENDS InboxReader, TLAPS

Message == [letter : Letters, kind : Kinds, age : Nat, gone : BOOLEAN, known : BOOLEAN]

Place == 1 .. MaxArrived

Pass == [at : {"off", "fetched", "write", "save"}, list : SUBSET Place, newest : BOOLEAN,
         next : Nat, left : SUBSET Place, acts : BOOLEAN]

Types ==
  /\ letters \in [Letters -> {"none", "out", "told"}]
  /\ inbox \in Seq(Message) /\ Len(inbox) <= MaxArrived
  /\ told \in [Place -> 0 .. 2] /\ acted \in [Place -> 0 .. 2]
  /\ cursor \in Nat /\ saved \in Nat
  /\ poll \in [Readers -> Pass]
  /\ skipped \subseteq Place /\ overlap \in BOOLEAN /\ faults \in Nat

\* An answer that was known when it came is an answer to a letter the journal calls sent.
KnownIsOurs == \A i \in Arrived : inbox[i].known => Ours(i)

\* Every answer up to a place is journaled, or among those set aside.
ReadTo(c, aside) ==
  /\ c <= Len(inbox)
  /\ \A i \in 1 .. c : Answers(i) /\ i \notin skipped => told[i] > 0 \/ i \in aside

Honest(c) == c = NoCursor \/ ReadTo(c, {})

Cursors == Honest(cursor) /\ Honest(saved)

\* A pass under way answers for its list and for what it leaves out, and it acts only
\* on a message it has journaled.
HonestPass(p) ==
  /\ p.at \in {"fetched", "write"} => ReadTo(p.next, p.list \cup p.left)
  /\ p.acts => p.at = "write" /\ p.list # {} /\ \A i \in p.list : IsFirst(p, i) => told[i] > 0

Passes == \A r \in Readers : HonestPass(poll[r])

CursorInv == Types /\ KnownIsOurs /\ Cursors /\ Passes

\* While no two passes have met: one works, and its list is untold but for the message
\* it is about to act on.
Untold(p) ==
  p.at = "write" =>
    \A i \in p.list : \/ told[i] = 0
                      \/ p.acts /\ IsFirst(p, i) /\ told[i] = 1 /\ acted[i] = 0

OnceInv ==
  ~overlap => /\ \A r, q \in Readers : Working(r) /\ Working(q) => r = q
              /\ \A r \in Readers : Untold(poll[r])
              /\ \A i \in Place : told[i] <= 1 /\ acted[i] <= told[i]

-----------------------------------------------------------------------------

LEMMA Bounds == /\ MaxArrived \in Nat /\ CatchUp \in Nat /\ Page \in Nat
                /\ NewerThan \in Nat /\ MaxFaults \in Nat
BY ConstantsAssumption

\* The place a list begins with is one place.
LEMMA OneFirst ==
  ASSUME NEW p \in Pass, NEW i \in p.list, NEW j \in p.list, IsFirst(p, i), IsFirst(p, j)
  PROVE  i = j
<1>1. i \in Nat /\ j \in Nat
  BY Bounds DEF Pass, Place
<1>2. CASE p.newest
  BY <1>1, <1>2 DEF IsFirst
<1>3. CASE ~p.newest
  BY <1>1, <1>3 DEF IsFirst
<1> QED
  BY <1>2, <1>3

\* What is set aside of a pass: only the list, its order and what it was about to do.
LEMMA RestIsPass ==
  ASSUME NEW p \in Pass, NEW s \in SUBSET p.list
  PROVE  /\ Rest(p, s) \in Pass
         /\ Rest(p, s).at = p.at /\ Rest(p, s).list = s /\ Rest(p, s).acts = FALSE
         /\ Rest(p, s).next = p.next /\ Rest(p, s).left = p.left
<1> DEFINE N == p.newest /\ Cardinality(s) > 1
           q == [p EXCEPT !.list = s, !.newest = N, !.acts = FALSE]
<1>1. Rest(p, s) = q
  BY Zenon DEF Rest
<1>2. N \in BOOLEAN
  OBVIOUS
<1> HIDE DEF N
<1>3. q \in Pass /\ q.at = p.at /\ q.list = s /\ q.acts = FALSE /\ q.next = p.next /\ q.left = p.left
  BY <1>2 DEF Pass
<1> QED
  BY <1>1, <1>3

LEMMA OffIsPass == Off \in Pass /\ Off.at = "off" /\ Off.acts = FALSE
BY DEF Off, Pass

\* What a read fetches is a pass that answers for what it leaves out.
LEMMA FetchedIsHonest ==
  ASSUME CursorInv, NEW known \in BOOLEAN
  PROVE  /\ Fetched(cursor, known) \in Pass
         /\ Fetched(cursor, known).at = "fetched" /\ ~Fetched(cursor, known).acts
         /\ HonestPass(Fetched(cursor, known))
<1> USE Bounds
<1>1. Len(inbox) \in Nat /\ Arrived \subseteq Place
  BY DEF CursorInv, Types, Arrived, Place
<1>2. Recent \subseteq Arrived
  BY DEF Recent
<1>3. CASE known /\ cursor # NoCursor /\ Cardinality(Since(cursor)) <= CatchUp
  <2>1. Fetched(cursor, known) =
          [at |-> "fetched", list |-> {i \in Since(cursor) : Here(i)}, newest |-> FALSE,
           next |-> Len(inbox), left |-> {}, acts |-> FALSE]
    BY <1>3 DEF Fetched, Off, HistoryId
  <2>2. ReadTo(Len(inbox), {i \in Since(cursor) : Here(i)} \cup {})
    BY <1>1, <1>3 DEF CursorInv, Types, Cursors, Honest, ReadTo, Since, Answers, Arrived
  <2> QED
    BY <1>1, <2>1, <2>2 DEF Pass, HonestPass, Since
<1>4. CASE ~(known /\ cursor # NoCursor /\ Cardinality(Since(cursor)) <= CatchUp)
  <2> DEFINE L == {i \in Arrived \ Recent : Here(i) /\ told[i] = 0}
             N == Cardinality(Recent) > 1
  <2>1. Fetched(cursor, known) =
          [at |-> "fetched", list |-> Recent, newest |-> N,
           next |-> Len(inbox), left |-> L, acts |-> FALSE]
    BY <1>4 DEF Fetched, Off, HistoryId
  <2>2. ReadTo(Len(inbox), Recent \cup L)
    BY <1>1 DEF CursorInv, Types, ReadTo, Answers, Arrived, Place
  <2>3. L \subseteq Place /\ Recent \subseteq Place /\ N \in BOOLEAN
    BY <1>1, <1>2
  <2> HIDE DEF L, N
  <2> QED
    BY <1>1, <2>1, <2>2, <2>3 DEF Pass, HonestPass
<1> QED
  BY <1>3, <1>4


-----------------------------------------------------------------------------
(* A step takes nothing back that was read: what is journaled stays, what  *)
(* is passed over stays so, and no new answer comes before an old place.   *)

Grows ==
  /\ Len(inbox) <= Len(inbox') /\ skipped \subseteq skipped'
  /\ \A i \in Arrived : Answers(i)' => Answers(i)
  /\ \A i \in Place : told[i] > 0 => told'[i] > 0

LEMMA GrowingKeeps ==
  ASSUME Types, Types', Grows
  PROVE  /\ \A c \in Nat : Honest(c) => Honest(c)'
         /\ \A p \in Pass : HonestPass(p) => HonestPass(p)'
<1> USE Bounds
<1>0. Len(inbox) \in Nat /\ Len(inbox') \in Nat /\ Len(inbox') <= MaxArrived
  BY DEF Types
<1>1. \A c \in Nat : \A aside : ReadTo(c, aside) => ReadTo(c, aside)'
  BY <1>0 DEF Grows, ReadTo, Arrived, Place
<1>2. \A p \in Pass : \A i : IsFirst(p, i)' <=> IsFirst(p, i)
  BY DEF IsFirst
<1>3. \A p \in Pass : p.next \in Nat /\ p.list \subseteq Place
  BY DEF Pass
<1> QED
  BY <1>1, <1>2, <1>3 DEF Honest, HonestPass, NoCursor, Grows

LEMMA OnePassMoves ==
  ASSUME Types, Types', Passes, Grows, NEW r \in Readers, NEW c \in Pass,
         poll' = [poll EXCEPT ![r] = c], HonestPass(c)'
  PROVE  Passes'
<1>1. \A q \in Readers : poll[q] \in Pass /\ poll'[q] = IF q = r THEN c ELSE poll[q]
  BY DEF Types
<1>2. \A q \in Readers : HonestPass(poll[q])'
  <2> SUFFICES ASSUME NEW q \in Readers PROVE HonestPass(poll[q])'
    OBVIOUS
  <2> DEFINE p == poll[q]
  <2>1. CASE q = r
    <3>1. poll'[q] = c
      BY <1>1, <2>1
    <3> QED
      BY <3>1 DEF HonestPass, ReadTo, IsFirst
  <2>2. CASE q # r
    <3>1. poll'[q] = p /\ p \in Pass /\ HonestPass(p)
      BY <1>1, <2>2 DEF Passes
    <3>2. \A x \in Pass : HonestPass(x) => HonestPass(x)'
      BY GrowingKeeps
    <3> QED
      BY <3>1, <3>2 DEF HonestPass, ReadTo, IsFirst
  <2> QED
    BY <2>1, <2>2
<1> QED
  BY <1>2 DEF Passes

LEMMA PassesStay ==
  ASSUME Types, Types', Passes, Grows, poll' = poll
  PROVE  Passes'
<1>1. \A x \in Pass : HonestPass(x) => HonestPass(x)'
  BY GrowingKeeps
<1>2. \A q \in Readers : poll[q] \in Pass /\ poll'[q] = poll[q]
  BY DEF Types
<1> QED
  BY <1>1, <1>2 DEF Passes, HonestPass, ReadTo, IsFirst

LEMMA CursorsStay ==
  ASSUME Types, Types', Cursors, Grows, UNCHANGED <<cursor, saved>>
  PROVE  Cursors'
<1>1. \A c \in Nat : Honest(c) => Honest(c)'
  BY GrowingKeeps
<1> QED
  BY <1>1 DEF Types, Cursors, Honest, ReadTo, NoCursor

-----------------------------------------------------------------------------
(* The steps of a pass.                                                    *)

LEMMA FetchCursor == ASSUME CursorInv, NEW r \in Readers, Fetch(r) PROVE CursorInv'
<1> PICK known \in BOOLEAN : poll' = Goes(r, Fetched(cursor, known))
                             /\ faults' = IF known THEN faults ELSE faults + 1
  BY DEF Fetch
<1> PICK c \in Pass : c = Fetched(cursor, known) /\ HonestPass(c)
  BY FetchedIsHonest
<1>2. poll' = [poll EXCEPT ![r] = c]
  BY DEF Goes
<1>3. UNCHANGED <<letters, inbox, told, acted, cursor, saved, skipped>> /\ overlap' \in BOOLEAN
  BY DEF Fetch, CursorInv, Types
<1>4. Types'
  BY <1>2, <1>3 DEF CursorInv, Types
<1>5. Grows
  BY <1>3 DEF Grows, Answers, Arrived, Here, CursorInv, Types
<1>6. HonestPass(c)'
  BY <1>5, <1>4, GrowingKeeps DEF CursorInv
<1>7. KnownIsOurs' /\ Cursors'
  BY <1>3, <1>4, <1>5, CursorsStay DEF CursorInv, KnownIsOurs, Ours, Arrived
<1> QED
  BY <1>2, <1>4, <1>5, <1>6, <1>7, OnePassMoves DEF CursorInv

LEMMA ReadJournalCursor == ASSUME CursorInv, NEW r \in Readers, ReadJournal(r) PROVE CursorInv'
<1> PICK p \in Pass : p = poll[r]
  BY DEF CursorInv, Types
<1> DEFINE s == {i \in p.list : ~Seen(i) /\ Ours(i)}
<1>1. p.at = "fetched" /\ HonestPass(p) /\ ReadTo(p.next, p.list \cup p.left)
  BY DEF ReadJournal, CursorInv, Passes, HonestPass
<1>2. ReadTo(p.next, s \cup p.left)
  <2>1. \A i \in 1 .. p.next : Answers(i) => Ours(i) /\ i \in Place
    BY Bounds, <1>1 DEF CursorInv, Types, KnownIsOurs, Answers, Arrived, Place
  <2>2. \A i : told[i] > 0 <=> Seen(i)
    BY DEF Seen
  <2> QED
    BY <1>1, <2>1, <2>2 DEF ReadTo
<1>3. poll' = [poll EXCEPT ![r] = [Rest(p, s) EXCEPT !.at = "write"]] /\ s \in SUBSET p.list
  BY DEF ReadJournal, Goes
<1> HIDE DEF s
<1>4. PICK q \in Pass : /\ q = Rest(p, s) /\ q.list = s /\ q.acts = FALSE
                        /\ q.next = p.next /\ q.left = p.left
  BY <1>3, RestIsPass
<1>5. PICK c \in Pass : /\ c = [q EXCEPT !.at = "write"] /\ c.at = "write" /\ c.list = s
                        /\ c.acts = FALSE /\ c.next = p.next /\ c.left = p.left
  <2>1. [q EXCEPT !.at = "write"] \in Pass
    BY DEF Pass
  <2> QED
    BY <1>4, <2>1 DEF Pass
<1>6. poll' = [poll EXCEPT ![r] = c]
  BY <1>3, <1>4, <1>5
<1>7. HonestPass(c)
  BY <1>2, <1>5 DEF HonestPass
<1>8. UNCHANGED <<letters, inbox, told, acted, cursor, saved, skipped, overlap, faults>>
  BY DEF ReadJournal
<1>9. Types'
  BY <1>6, <1>8 DEF CursorInv, Types
<1>10. Grows
  BY <1>8 DEF Grows, Answers, Arrived, Here, CursorInv, Types
<1>11. HonestPass(c)'
  BY <1>7, <1>9, <1>10, GrowingKeeps DEF CursorInv
<1>12. KnownIsOurs' /\ Cursors'
  BY <1>8, <1>9, <1>10, CursorsStay DEF CursorInv, KnownIsOurs, Ours, Arrived
<1> QED
  BY <1>6, <1>9, <1>10, <1>11, <1>12, OnePassMoves DEF CursorInv

\* What writing one message does: it is journaled, or it is acted on.
LEMMA WriteOneIs ==
  ASSUME Types, NEW r \in Readers, WriteOne(r)
  PROVE  \E i \in poll[r].list :
           /\ IsFirst(poll[r], i) /\ i \in Place
           /\ \/ /\ poll[r].acts /\ told' = told
                 /\ acted' = [acted EXCEPT ![i] = IF @ = 0 THEN 1 ELSE 2]
                 /\ poll' = [poll EXCEPT ![r] = Rest(poll[r], poll[r].list \ {i})]
              \/ /\ ~poll[r].acts /\ acted' = acted
                 /\ told' = [told EXCEPT ![i] = IF @ = 0 THEN 1 ELSE 2]
                 /\ \/ poll' = [poll EXCEPT ![r] = Rest(poll[r], poll[r].list \ {i})]
                    \/ poll' = [poll EXCEPT ![r] = [poll[r] EXCEPT !.acts = TRUE]]
<1>1. poll[r] \in Pass
  BY DEF Types
<1>2. poll[r].list \subseteq Place
  BY <1>1 DEF Pass
<1> QED
  BY <1>2 DEF WriteOne, Goes

LEMMA WriteOneCursor == ASSUME CursorInv, NEW r \in Readers, WriteOne(r) PROVE CursorInv'
<1> PICK p \in Pass : p = poll[r]
  BY DEF CursorInv, Types
<1>1. p.at = "write" /\ HonestPass(p) /\ ReadTo(p.next, p.list \cup p.left)
  BY DEF WriteOne, CursorInv, Types, Passes, HonestPass
<1> PICK i \in p.list :
      /\ IsFirst(p, i) /\ i \in Place
      /\ \/ /\ p.acts /\ told' = told
            /\ acted' = [acted EXCEPT ![i] = IF @ = 0 THEN 1 ELSE 2]
            /\ poll' = [poll EXCEPT ![r] = Rest(p, p.list \ {i})]
         \/ /\ ~p.acts /\ acted' = acted
            /\ told' = [told EXCEPT ![i] = IF @ = 0 THEN 1 ELSE 2]
            /\ \/ poll' = [poll EXCEPT ![r] = Rest(p, p.list \ {i})]
               \/ poll' = [poll EXCEPT ![r] = [p EXCEPT !.acts = TRUE]]
  BY WriteOneIs DEF CursorInv
<1>2. UNCHANGED <<letters, inbox, cursor, saved, skipped, overlap, faults>>
  BY DEF WriteOne
<1>3. /\ told' \in [Place -> 0 .. 2] /\ acted' \in [Place -> 0 .. 2]
      /\ \A j \in Place : told[j] > 0 => told'[j] > 0
      /\ told'[i] > 0
  <2>1. told \in [Place -> 0 .. 2] /\ acted \in [Place -> 0 .. 2]
    BY DEF CursorInv, Types
  <2>2. CASE p.acts /\ told' = told /\ acted' = [acted EXCEPT ![i] = IF @ = 0 THEN 1 ELSE 2]
    BY <1>1, <2>1, <2>2 DEF HonestPass
  <2>3. CASE acted' = acted /\ told' = [told EXCEPT ![i] = IF @ = 0 THEN 1 ELSE 2]
    BY <2>1, <2>3
  <2> QED
    BY <2>2, <2>3
<1>4. Grows
  BY <1>2, <1>3 DEF Grows, Answers, Arrived, Here, CursorInv, Types
<1>5. KnownIsOurs'
  BY <1>2 DEF CursorInv, KnownIsOurs, Ours, Arrived
<1>6. ASSUME NEW c \in Pass, poll' = [poll EXCEPT ![r] = c], HonestPass(c)'
      PROVE  CursorInv'
  <2>1. Types'
    BY <1>2, <1>3, <1>6 DEF CursorInv, Types
  <2>2. Cursors'
    BY <1>2, <1>4, <2>1, CursorsStay DEF CursorInv
  <2> QED
    BY <1>4, <1>5, <1>6, <2>1, <2>2, OnePassMoves DEF CursorInv
<1>7. \A j \in 1 .. p.next : Answers(j)' => Answers(j) /\ j \in Place
  BY <1>2, Bounds DEF CursorInv, Types, Answers, Arrived, Here, Place
<1>8. ASSUME NEW s, p.list \ {i} \subseteq s PROVE ReadTo(p.next, s \cup p.left)'
  BY <1>1, <1>2, <1>3, <1>7, <1>8 DEF ReadTo
<1>9. CASE poll' = [poll EXCEPT ![r] = Rest(p, p.list \ {i})]
  <2>1. PICK c \in Pass : /\ c = Rest(p, p.list \ {i}) /\ c.list = p.list \ {i}
                          /\ c.acts = FALSE /\ c.next = p.next /\ c.left = p.left
    BY RestIsPass
  <2>2. ReadTo(c.next, c.list \cup c.left)'
    BY <1>8, <2>1 DEF ReadTo
  <2>3. HonestPass(c)'
    BY <2>1, <2>2 DEF HonestPass
  <2> QED
    BY <1>6, <1>9, <2>1, <2>3
<1>10. CASE poll' = [poll EXCEPT ![r] = [p EXCEPT !.acts = TRUE]]
  <2>1. PICK c \in Pass : /\ c = [p EXCEPT !.acts = TRUE] /\ c.at = "write" /\ c.list = p.list
                          /\ c.next = p.next /\ c.left = p.left /\ c.newest = p.newest
    <3>1. [p EXCEPT !.acts = TRUE] \in Pass
      BY DEF Pass
    <3> QED
      BY <1>1, <3>1 DEF Pass
  <2>2. ReadTo(c.next, c.list \cup c.left)'
    BY <1>8, <2>1 DEF ReadTo
  <2>3. \A j \in c.list : IsFirst(c, j) => j = i
    <3>1. \A j \in c.list : IsFirst(c, j) => IsFirst(p, j)
      BY <2>1 DEF IsFirst
    <3> QED
      BY <1>1, <2>1, <3>1, OneFirst
  <2>4. HonestPass(c)'
    BY <1>3, <2>1, <2>2, <2>3 DEF HonestPass, IsFirst
  <2> QED
    BY <1>6, <1>10, <2>1, <2>4
<1> QED
  BY <1>9, <1>10

LEMMA MoveCursorCursor == ASSUME CursorInv, NEW r \in Readers, MoveCursor(r) PROVE CursorInv'
<1> PICK p \in Pass : p = poll[r]
  BY DEF CursorInv, Types
<1>1. p.at = "write" /\ p.list = {} /\ ReadTo(p.next, p.list \cup p.left)
  BY DEF MoveCursor, CursorInv, Passes, HonestPass
<1>2. PICK c \in Pass : c = [p EXCEPT !.at = "save", !.next = 0, !.left = {}] /\ c.at = "save" /\ c.acts = p.acts
                        /\ c.list = {}
  <2>1. [p EXCEPT !.at = "save", !.next = 0, !.left = {}] \in Pass
    BY DEF Pass
  <2> QED
    BY <1>1, <2>1 DEF Pass
<1>3. poll' = [poll EXCEPT ![r] = c]
  BY <1>2 DEF MoveCursor, Goes
<1>4. /\ cursor' = p.next /\ skipped' = skipped \cup p.left
      /\ UNCHANGED <<letters, inbox, told, acted, saved, overlap, faults>>
  BY DEF MoveCursor
<1>5. Types'
  BY <1>3, <1>4 DEF CursorInv, Types, Pass
<1>6. Grows
  BY <1>4 DEF Grows, Answers, Arrived, Here, CursorInv, Types
<1>7. KnownIsOurs'
  BY <1>4 DEF CursorInv, KnownIsOurs, Ours, Arrived
<1>8. Cursors'
  <2>1. ReadTo(p.next, {})'
    BY <1>1, <1>4 DEF ReadTo, Answers, Arrived, Here
  <2>2. Honest(cursor)'
    BY <1>4, <2>1 DEF Honest, ReadTo
  <2>3. Honest(saved)'
    <3>1. \A x \in Nat : Honest(x) => Honest(x)'
      BY <1>5, <1>6, GrowingKeeps DEF CursorInv
    <3>2. saved \in Nat /\ Honest(saved) /\ saved' = saved
      BY <1>4 DEF CursorInv, Types, Cursors
    <3> QED
      BY <3>1, <3>2 DEF Honest, ReadTo, NoCursor
  <2> QED
    BY <2>2, <2>3 DEF Cursors
<1>9. HonestPass(c)'
  <2>1. ~p.acts
    BY <1>1 DEF CursorInv, Passes, HonestPass
  <2> QED
    BY <1>2, <2>1 DEF HonestPass
<1> QED
  BY <1>3, <1>5, <1>6, <1>7, <1>8, <1>9, OnePassMoves DEF CursorInv

\* Nobody works: there is nothing to answer for.
LEMMA OffIsHonest == HonestPass(Off) /\ HonestPass(Off)'
BY OffIsPass DEF HonestPass, ReadTo, Off

LEMMA SaveCursorCursor == ASSUME CursorInv, NEW r \in Readers, SaveCursor(r) PROVE CursorInv'
<1>1. poll' = [poll EXCEPT ![r] = Off] /\ saved' = cursor
      /\ UNCHANGED <<letters, inbox, told, acted, cursor, skipped, overlap, faults>>
  BY DEF SaveCursor, Goes
<1>2. Types'
  BY <1>1, OffIsPass DEF CursorInv, Types
<1>3. Grows
  BY <1>1 DEF Grows, Answers, Arrived, Here, CursorInv, Types
<1>4. KnownIsOurs' /\ Cursors'
  BY <1>1 DEF CursorInv, KnownIsOurs, Ours, Arrived, Cursors, Honest, ReadTo, Answers, Here, NoCursor
<1> QED
  BY <1>1, <1>2, <1>3, <1>4, OffIsPass, OffIsHonest, OnePassMoves DEF CursorInv

LEMMA ThrowsCursor == ASSUME CursorInv, NEW r \in Readers, Throws(r) PROVE CursorInv'
<1>1. poll' = [poll EXCEPT ![r] = Off] /\ faults' = faults + 1
      /\ UNCHANGED <<letters, inbox, told, acted, cursor, saved, skipped, overlap>>
  BY DEF Throws, Goes, Ends
<1>2. Types'
  BY <1>1, OffIsPass DEF CursorInv, Types
<1>3. Grows
  BY <1>1 DEF Grows, Answers, Arrived, Here, CursorInv, Types
<1>4. KnownIsOurs' /\ Cursors'
  BY <1>1, <1>2, <1>3, CursorsStay DEF CursorInv, KnownIsOurs, Ours, Arrived
<1> QED
  BY <1>1, <1>2, <1>3, <1>4, OffIsPass, OffIsHonest, OnePassMoves DEF CursorInv

LEMMA RestartCursor == ASSUME CursorInv, Restart PROVE CursorInv'
<1>1. poll' = [r \in Readers |-> Off] /\ cursor' = saved /\ faults' = faults + 1
      /\ UNCHANGED <<letters, inbox, told, acted, saved, skipped, overlap>>
  BY DEF Restart
<1>2. Types'
  BY <1>1, OffIsPass DEF CursorInv, Types
<1>3. KnownIsOurs' /\ Cursors'
  BY <1>1 DEF CursorInv, KnownIsOurs, Ours, Arrived, Cursors, Honest, ReadTo, Answers, Here, NoCursor
<1>4. Passes'
  <2>1. \A r \in Readers : poll'[r] = Off
    BY <1>1
  <2> QED
    BY <2>1, OffIsHonest DEF Passes, HonestPass, ReadTo, IsFirst
<1> QED
  BY <1>2, <1>3, <1>4 DEF CursorInv

-----------------------------------------------------------------------------
(* Around the pass.                                                        *)

LEMMA LetterCursor ==
  ASSUME CursorInv, NEW l \in Letters, Deliver(l) \/ RecordSent(l)
  PROVE  CursorInv'
<1>1. /\ \/ letters' = [letters EXCEPT ![l] = "out"] /\ letters[l] = "none"
         \/ letters' = [letters EXCEPT ![l] = "told"]
      /\ UNCHANGED <<inbox, told, acted, cursor, saved, poll, skipped, overlap, faults>>
  BY DEF Deliver, RecordSent
<1>2. Types'
  BY <1>1 DEF CursorInv, Types
<1>3. Grows
  BY <1>1 DEF Grows, Answers, Arrived, Here, CursorInv, Types
<1>4. \A k \in Letters : letters[k] = "told" => letters'[k] = "told"
  BY <1>1 DEF CursorInv, Types
<1>5. \A i \in Arrived : inbox[i].letter \in Letters
  <2>1. \A i \in Arrived : inbox[i] \in Message
    BY DEF CursorInv, Types, Arrived
  <2> QED
    BY <2>1 DEF Message
<1>6. KnownIsOurs'
  BY <1>1, <1>4, <1>5 DEF CursorInv, KnownIsOurs, Ours, Arrived
<1> QED
  BY <1>1, <1>2, <1>3, <1>6, CursorsStay, PassesStay DEF CursorInv

LEMMA ArriveCursor ==
  ASSUME CursorInv, NEW l \in Letters, NEW k \in Kinds, Arrive(l, k)
  PROVE  CursorInv'
<1> DEFINE m == [letter |-> l, kind |-> k, age |-> 0, gone |-> FALSE, known |-> letters[l] = "told"]
<1>1. m \in Message /\ m.letter = l /\ (m.known <=> letters[l] = "told")
  BY DEF Message
<1>2. inbox' = Append(inbox, m) /\ Len(inbox) < MaxArrived
      /\ UNCHANGED <<letters, told, acted, cursor, saved, poll, skipped, overlap, faults>>
  BY DEF Arrive
<1> HIDE DEF m
<1>3. inbox \in Seq(Message) /\ Len(inbox) \in Nat
  BY DEF CursorInv, Types
<1>4. /\ inbox' \in Seq(Message) /\ Len(inbox') = Len(inbox) + 1
      /\ \A i \in Arrived : inbox'[i] = inbox[i]
      /\ inbox'[Len(inbox) + 1] = m
  BY <1>1, <1>2, <1>3 DEF Arrived
<1>5. Types'
  BY <1>2, <1>3, <1>4, Bounds DEF CursorInv, Types
<1>6. Grows
  BY <1>2, <1>3, <1>4 DEF Grows, Answers, Arrived, Here, CursorInv, Types
<1>7. KnownIsOurs'
  <2> SUFFICES ASSUME NEW i \in Arrived', inbox'[i].known PROVE letters'[inbox'[i].letter] = "told"
    BY DEF KnownIsOurs, Ours
  <2>1. CASE i \in Arrived
    BY <1>2, <1>4, <2>1 DEF CursorInv, KnownIsOurs, Ours
  <2>2. CASE i \notin Arrived
    <3>1. i = Len(inbox) + 1
      BY <1>3, <1>4, <2>2 DEF Arrived
    <3> QED
      BY <1>1, <1>2, <1>4, <3>1
  <2> QED
    BY <2>1, <2>2
<1> QED
  BY <1>2, <1>5, <1>6, <1>7, CursorsStay, PassesStay DEF CursorInv

\* The inbox is what it was, but that messages go and grow older.
LEMMA AgedCursor ==
  ASSUME CursorInv, NEW box, inbox' = box,
         box \in Seq(Message), Len(box) = Len(inbox),
         \A i \in Arrived : /\ box[i].letter = inbox[i].letter /\ box[i].known = inbox[i].known
                            /\ inbox[i].gone => box[i].gone,
         UNCHANGED <<letters, told, acted, cursor, saved, poll, skipped, overlap, faults>>
  PROVE  CursorInv'
<1>1. Types'
  BY DEF CursorInv, Types
<1>2. Grows
  BY DEF Grows, Answers, Arrived, Here, CursorInv, Types
<1>3. KnownIsOurs'
  BY DEF CursorInv, KnownIsOurs, Ours, Arrived
<1> QED
  BY <1>1, <1>2, <1>3, CursorsStay, PassesStay DEF CursorInv

LEMMA DeleteCursor == ASSUME CursorInv, NEW i \in Arrived, Delete(i) PROVE CursorInv'
<1> DEFINE box == [inbox EXCEPT ![i].gone = TRUE, ![i].age = 0]
<1>1. inbox' = box /\ UNCHANGED <<letters, told, acted, cursor, saved, poll, skipped, overlap, faults>>
  BY DEF Delete
<1>2. inbox \in Seq(Message) /\ Len(inbox) \in Nat /\ inbox[i] \in Message
  BY DEF CursorInv, Types, Arrived
<1> DEFINE m == [inbox[i] EXCEPT !.gone = TRUE, !.age = 0]
<1>3. /\ m \in Message /\ m.letter = inbox[i].letter /\ m.known = inbox[i].known /\ m.gone
  BY <1>2 DEF Message
<1>4. box = [inbox EXCEPT ![i] = m]
  BY <1>2 DEF Arrived
<1> HIDE DEF m, box
<1>5. box \in Seq(Message) /\ Len(box) = Len(inbox)
      /\ \A j \in Arrived : box[j] = IF j = i THEN m ELSE inbox[j]
  BY <1>2, <1>3, <1>4 DEF Arrived
<1> QED
  BY <1>1, <1>3, <1>5, AgedCursor

LEMMA DayPassesCursor == ASSUME CursorInv, DayPasses PROVE CursorInv'
<1> DEFINE Older(i) == [inbox[i] EXCEPT !.age = IF @ <= NewerThan THEN @ + 1 ELSE @]
           Turned(i) == IF Here(i) THEN Older(i) ELSE inbox[i]
           box == [i \in Arrived |-> Turned(i)]
<1>1. inbox' = box /\ UNCHANGED <<letters, told, acted, cursor, saved, poll, skipped, overlap, faults>>
  BY DEF DayPasses
<1>2. inbox \in Seq(Message) /\ Len(inbox) \in Nat /\ \A i \in Arrived : inbox[i] \in Message
  BY DEF CursorInv, Types, Arrived
<1>3. \A i \in Arrived : /\ Older(i) \in Message /\ Older(i).letter = inbox[i].letter
                         /\ Older(i).known = inbox[i].known /\ Older(i).gone = inbox[i].gone
  BY <1>2, Bounds DEF Message
<1> HIDE DEF Older
<1>4. \A i \in Arrived : /\ Turned(i) \in Message /\ Turned(i).letter = inbox[i].letter
                         /\ Turned(i).known = inbox[i].known /\ Turned(i).gone = inbox[i].gone
  BY <1>2, <1>3
<1> HIDE DEF Turned
<1>5. box \in [1 .. Len(inbox) -> Message] /\ \A i \in Arrived : box[i] = Turned(i)
  BY <1>4 DEF Arrived
<1> HIDE DEF box
<1>6. box \in Seq(Message) /\ Len(box) = Len(inbox)
  BY <1>2, <1>5
<1> QED
  BY <1>1, <1>4, <1>5, <1>6, AgedCursor

LEMMA CursorStart == Init => CursorInv
<1> SUFFICES ASSUME Init PROVE CursorInv
  OBVIOUS
<1>1. inbox = << >> /\ Len(inbox) = 0
  BY DEF Init
<1>2. Types
  <2>1. inbox \in Seq(Message) /\ Len(inbox) <= MaxArrived
    BY <1>1, Bounds
  <2>2. told \in [Place -> 0 .. 2] /\ acted \in [Place -> 0 .. 2]
    BY DEF Init, Place
  <2>3. poll \in [Readers -> Pass] /\ letters \in [Letters -> {"none", "out", "told"}]
    BY OffIsPass DEF Init
  <2>4. cursor \in Nat /\ saved \in Nat /\ faults \in Nat
    BY Bounds DEF Init, NoCursor
  <2>5. skipped \subseteq Place /\ overlap \in BOOLEAN
    BY DEF Init
  <2> QED
    BY <2>1, <2>2, <2>3, <2>4, <2>5 DEF Types
<1>3. KnownIsOurs /\ Cursors
  BY <1>1 DEF Init, KnownIsOurs, Arrived, Cursors, Honest
<1>4. Passes
  BY OffIsHonest DEF Init, Passes
<1> QED
  BY <1>2, <1>3, <1>4 DEF CursorInv

LEMMA CursorStep == CursorInv /\ [Next]_vars => CursorInv'
<1> SUFFICES ASSUME CursorInv, [Next]_vars PROVE CursorInv'
  OBVIOUS
<1>1. CASE \E r \in Readers : Poll(r) \/ Throws(r)
  BY <1>1, FetchCursor, ReadJournalCursor, WriteOneCursor, MoveCursorCursor,
     SaveCursorCursor, ThrowsCursor DEF Poll
<1>2. CASE Restart
  BY <1>2, RestartCursor
<1>3. CASE \E l \in Letters : Deliver(l) \/ RecordSent(l)
  BY <1>3, LetterCursor
<1>4. CASE \E l \in Letters, k \in Kinds : Arrive(l, k)
  BY <1>4, ArriveCursor
<1>5. CASE \E i \in Arrived : Delete(i)
  BY <1>5, DeleteCursor
<1>6. CASE DayPasses
  BY <1>6, DayPassesCursor
<1>7. CASE UNCHANGED vars
  BY <1>7 DEF vars, CursorInv, Types, KnownIsOurs, Ours, Arrived, Cursors, Honest, ReadTo,
     Answers, Here, NoCursor, Passes, HonestPass, IsFirst
<1> QED
  BY <1>1, <1>2, <1>3, <1>4, <1>5, <1>6, <1>7 DEF Next

\* No cursor, in memory or in the file, lies past an answer to a letter the journal
\* knew of that is not journaled, but for those a catch-up left out - whatever fails,
\* whenever the portal restarts, and however many read at once.
THEOREM NothingPassedOver == Spec => []CursorHonest
<1>1. CursorInv => CursorHonest
  BY DEF CursorInv, Types, Cursors, Honest, ReadTo, CursorHonest
<1> QED
  BY <1>1, CursorStart, CursorStep, PTL DEF Spec

-----------------------------------------------------------------------------
(* While nobody reads at the same time as another, what is read twice is   *)
(* journaled once.                                                         *)

LEMMA OnceStart == Init => OnceInv
<1> SUFFICES ASSUME Init PROVE OnceInv
  OBVIOUS
<1>1. \A r \in Readers : poll[r] = Off
  BY DEF Init
<1>2. \A i \in Place : told[i] = 0 /\ acted[i] = 0
  BY DEF Init, Place
<1> QED
  BY <1>1, <1>2, OffIsPass DEF OnceInv, Working, Untold

\* Nothing is journaled, and a pass that goes on has nothing more to write.
LEMMA OnceStays ==
  ASSUME CursorInv, CursorInv', OnceInv, UNCHANGED <<told, acted>>,
         ~overlap' => ~overlap /\ \A r, q \in Readers : Working(r)' /\ Working(q)' => r = q,
         \A r \in Readers : \/ poll'[r] = poll[r] \/ poll'[r].at # "write"
                            \/ \A i \in poll'[r].list : told[i] = 0
  PROVE  OnceInv'
BY DEF OnceInv, Untold, IsFirst

LEMMA OnceWriteOne ==
  ASSUME CursorInv, CursorInv', OnceInv, NEW r \in Readers, WriteOne(r)
  PROVE  OnceInv'
<1> SUFFICES ASSUME ~overlap PROVE OnceInv'
  BY DEF OnceInv, WriteOne
<1> PICK p \in Pass : p = poll[r]
  BY DEF CursorInv, Types
<1> PICK i \in p.list :
      /\ IsFirst(p, i) /\ i \in Place
      /\ \/ /\ p.acts /\ told' = told
            /\ acted' = [acted EXCEPT ![i] = IF @ = 0 THEN 1 ELSE 2]
            /\ poll' = [poll EXCEPT ![r] = Rest(p, p.list \ {i})]
         \/ /\ ~p.acts /\ acted' = acted
            /\ told' = [told EXCEPT ![i] = IF @ = 0 THEN 1 ELSE 2]
            /\ \/ poll' = [poll EXCEPT ![r] = Rest(p, p.list \ {i})]
               \/ poll' = [poll EXCEPT ![r] = [p EXCEPT !.acts = TRUE]]
  BY WriteOneIs DEF CursorInv
<1>1. /\ told \in [Place -> 0 .. 2] /\ acted \in [Place -> 0 .. 2] /\ p.list \subseteq Place
      /\ \A q \in Readers : poll[q] \in Pass
      /\ \A j \in Place : told[j] <= 1 /\ acted[j] <= told[j]
  BY DEF CursorInv, Types, OnceInv, Pass
<1>2. p.at = "write" /\ \A q \in Readers \ {r} : poll[q].at = "off"
  BY DEF WriteOne, OnceInv, Working
<1>3. \A j \in p.list : told[j] = 0 \/ (p.acts /\ j = i /\ told[j] = 1 /\ acted[j] = 0)
  BY <1>2, OneFirst DEF OnceInv, Untold
<1>4. p.acts => told[i] > 0
  BY DEF CursorInv, Passes, HonestPass
<1>5. ASSUME NEW c \in Pass, poll' = [poll EXCEPT ![r] = c], c.at = "write", Untold(c)',
             \A j \in Place : told'[j] <= 1 /\ acted'[j] <= told'[j]
      PROVE  OnceInv'
  <2>1. \A q \in Readers : poll'[q] = IF q = r THEN c ELSE poll[q]
    BY <1>5 DEF CursorInv, Types
  <2>2. \A q, s \in Readers : Working(q)' /\ Working(s)' => q = s
    BY <1>2, <2>1 DEF Working
  <2>3. \A q \in Readers : Untold(poll[q])'
    BY <1>2, <1>5, <2>1 DEF Untold, IsFirst
  <2> QED
    BY <1>5, <2>2, <2>3 DEF OnceInv
<1>6. CASE /\ p.acts /\ told' = told
           /\ acted' = [acted EXCEPT ![i] = IF @ = 0 THEN 1 ELSE 2]
           /\ poll' = [poll EXCEPT ![r] = Rest(p, p.list \ {i})]
  <2>1. PICK c \in Pass : c = Rest(p, p.list \ {i}) /\ c.at = p.at /\ c.list = p.list \ {i}
    BY RestIsPass
  <2>2. told[i] = 1 /\ acted[i] = 0
    BY <1>3, <1>4, <1>6
  <2>3. \A j \in Place : told'[j] <= 1 /\ acted'[j] <= told'[j]
    BY <1>1, <1>6, <2>2
  <2>4. Untold(c)'
    BY <1>3, <1>6, <2>1 DEF Untold
  <2> QED
    BY <1>2, <1>5, <1>6, <2>1, <2>3, <2>4
<1>7. CASE /\ ~p.acts /\ acted' = acted
           /\ told' = [told EXCEPT ![i] = IF @ = 0 THEN 1 ELSE 2]
  <2>1. told[i] = 0 /\ acted[i] = 0 /\ told'[i] = 1 /\ acted'[i] = 0
    BY <1>1, <1>3, <1>7
  <2>2. \A j \in p.list \ {i} : told'[j] = 0
    BY <1>1, <1>3, <1>7
  <2>3. \A j \in Place : told'[j] <= 1 /\ acted'[j] <= told'[j]
    BY <1>1, <1>7, <2>1
  <2>4. CASE poll' = [poll EXCEPT ![r] = Rest(p, p.list \ {i})]
    <3>1. PICK c \in Pass : c = Rest(p, p.list \ {i}) /\ c.at = p.at /\ c.list = p.list \ {i}
      BY RestIsPass
    <3>2. Untold(c)'
      BY <2>2, <3>1 DEF Untold
    <3> QED
      BY <1>2, <1>5, <2>3, <2>4, <3>1, <3>2
  <2>5. CASE poll' = [poll EXCEPT ![r] = [p EXCEPT !.acts = TRUE]]
    <3>1. PICK c \in Pass : /\ c = [p EXCEPT !.acts = TRUE] /\ c.at = p.at /\ c.list = p.list
                            /\ c.acts /\ c.newest = p.newest
      <4>1. [p EXCEPT !.acts = TRUE] \in Pass
        BY DEF Pass
      <4> QED
        BY <4>1 DEF Pass
    <3>2. IsFirst(c, i)
      BY <3>1 DEF IsFirst
    <3>3. Untold(c)'
      BY <2>1, <2>2, <3>1, <3>2 DEF Untold, IsFirst
    <3> QED
      BY <1>2, <1>5, <2>3, <2>5, <3>1, <3>3
  <2> QED
    BY <1>7, <2>4, <2>5, <1>6
<1> QED
  BY <1>6, <1>7

LEMMA OnceStep == CursorInv /\ CursorInv' /\ OnceInv /\ [Next]_vars => OnceInv'
<1> SUFFICES ASSUME CursorInv, CursorInv', OnceInv, [Next]_vars PROVE OnceInv'
  OBVIOUS
<1>0. \A r \in Readers : poll[r] \in Pass
  BY DEF CursorInv, Types
<1>1. ASSUME NEW r \in Readers, NEW c, Working(r), poll' = [poll EXCEPT ![r] = c],
             c.at # "write" \/ \A i \in c.list : told[i] = 0,
             UNCHANGED <<told, acted, overlap>>
      PROVE  OnceInv'
  <2>1. \A q \in Readers : poll'[q] = IF q = r THEN c ELSE poll[q]
    BY <1>1 DEF CursorInv, Types
  <2>2. ~overlap' => ~overlap /\ \A q, s \in Readers : Working(q)' /\ Working(s)' => q = s
    BY <1>1, <2>1 DEF Working, OnceInv
  <2> QED
    BY <1>1, <2>1, <2>2, OnceStays
<1>2. ASSUME NEW r \in Readers, Fetch(r) PROVE OnceInv'
  <2>1. PICK known \in BOOLEAN : poll' = [poll EXCEPT ![r] = Fetched(cursor, known)]
    BY <1>2 DEF Fetch, Goes
  <2>2. PICK c \in Pass : c = Fetched(cursor, known) /\ c.at = "fetched"
    BY FetchedIsHonest
  <2>3. \A q \in Readers : poll'[q] = IF q = r THEN c ELSE poll[q]
    BY <2>1, <2>2 DEF CursorInv, Types
  <2>4. ~overlap' => ~overlap /\ \A q \in Readers \ {r} : ~Working(q)
    BY <1>2 DEF Fetch
  <2>5. ~overlap' => ~overlap /\ \A q, s \in Readers : Working(q)' /\ Working(s)' => q = s
    BY <2>3, <2>4 DEF Working
  <2> QED
    BY <1>2, <2>2, <2>3, <2>5, OnceStays DEF Fetch
<1>3. ASSUME NEW r \in Readers, ReadJournal(r) PROVE OnceInv'
  <2>1. PICK p \in Pass : p = poll[r]
    BY <1>0
  <2> DEFINE s == {i \in p.list : ~Seen(i) /\ Ours(i)}
  <2>2. s \in SUBSET p.list /\ \A i \in s : told[i] = 0
    <3>1. p.list \subseteq Place /\ told \in [Place -> 0 .. 2]
      BY DEF Pass, CursorInv, Types
    <3> QED
      BY <3>1 DEF Seen
  <2>3. poll' = [poll EXCEPT ![r] = [Rest(p, s) EXCEPT !.at = "write"]] /\ Working(r)
        /\ UNCHANGED <<told, acted, overlap>>
    BY <1>3, <2>1 DEF ReadJournal, Goes, Working
  <2> HIDE DEF s
  <2>4. [Rest(p, s) EXCEPT !.at = "write"].list = s
    <3>1. Rest(p, s) \in Pass /\ Rest(p, s).list = s
      BY <2>2, RestIsPass
    <3> QED
      BY <3>1 DEF Pass
  <2> QED
    BY <1>1, <2>2, <2>3, <2>4
<1>4. ASSUME NEW r \in Readers, MoveCursor(r) PROVE OnceInv'
  <2>1. [poll[r] EXCEPT !.at = "save", !.next = 0, !.left = {}].at = "save"
    BY <1>0 DEF Pass
  <2> QED
    BY <1>1, <1>4, <2>1 DEF MoveCursor, Goes, Working
<1>5. ASSUME NEW r \in Readers, SaveCursor(r) \/ Throws(r) PROVE OnceInv'
  BY <1>1, <1>5, OffIsPass DEF SaveCursor, Throws, Goes, Ends, Working
<1>6. CASE Restart
  <2>1. \A r \in Readers : poll'[r] = Off /\ ~Working(r)'
    BY <1>6, OffIsPass DEF Restart, Working
  <2> QED
    BY <1>6, <2>1, OffIsPass, OnceStays DEF Restart
<1>7. CASE UNCHANGED <<told, acted, poll, overlap>>
  BY <1>7, OnceStays DEF OnceInv, Working
<1> QED
  BY <1>2, <1>3, <1>4, <1>5, <1>6, <1>7, OnceWriteOne
  DEF Next, Poll, Deliver, RecordSent, Arrive, Delete, DayPasses, vars

\* A message is journaled once and acted on once, however often it is read: after an
\* error in the middle of a list, a restart on an older cursor, a cursor Google forgot -
\* as long as no two passes ran at once.
THEOREM ReadTwiceWrittenOnce == Spec => []OnceEach
<1>1. CursorInv /\ OnceInv => OnceEach
  <2> SUFFICES ASSUME CursorInv, OnceInv, ~overlap PROVE \A i \in Arrived : told[i] <= 1 /\ acted[i] <= 1
    BY DEF OnceEach, Once, ActedOnce
  <2> TAKE i \in Arrived
  <2>1. i \in Place /\ told[i] \in 0 .. 2 /\ acted[i] \in 0 .. 2
    BY Bounds DEF CursorInv, Types, Arrived, Place
  <2>2. told[i] <= 1 /\ acted[i] <= told[i]
    BY <2>1 DEF OnceInv
  <2> QED
    BY <2>1, <2>2
<1> QED
  BY <1>1, CursorStart, CursorStep, OnceStart, OnceStep, PTL DEF Spec

=============================================================================
