--------------------------- MODULE MailJournalProofs ---------------------------
(***************************************************************************)
(* What holds of the journal of the cold e-mail (MailJournal) for any      *)
(* people, readers, events and faults: what was acknowledged stays on      *)
(* disk, the file and the copy in memory are one chained list, and who was *)
(* forgotten is not named again.                                           *)
(***************************************************************************)
EXTENDS MailJournal, Integers, WellFoundedInduction, TLAPS

-----------------------------------------------------------------------------
(* The lines that can be read.                                             *)

LEMMA SmallestIn ==
  ASSUME NEW T \in SUBSET Nat, T # {}
  PROVE  \E x \in T : \A y \in T : ~(y < x)
<1> DEFINE R == OpToRel(<, Nat)
<1>1. \A x, y \in Nat : <<x, y>> \in R <=> x < y
  BY DEF OpToRel
<1>2. IsWellFoundedOn(R, Nat)
  BY NatLessThanWellFounded
<1> HIDE DEF R
<1>3. PICK x \in T : \A y \in T : ~(<<y, x>> \in R)
  BY <1>2, WFMin
<1> QED
  BY <1>1, <1>3

\* g keeps what can be read of the first n lines, one after another
Keeping(g, lines, n) ==
  g = [i \in 0 .. n |-> IF i = 0 THEN <<>>
                        ELSE IF lines[i].whole THEN Append(g[i - 1], lines[i]) ELSE g[i - 1]]

LEMMA KeepingExists ==
  ASSUME NEW lines \in Seq(LineType)
  PROVE  \E g : Keeping(g, lines, Len(lines))
<1> DEFINE N == Len(lines)
           P(m) == \E g : Keeping(g, lines, m)
           T == {m \in 0 .. N : ~P(m)}
<1>0. N \in Nat
  OBVIOUS
<1> HIDE DEF N
<1>1. T = {}
  <2> SUFFICES ASSUME T # {} PROVE FALSE
    OBVIOUS
  <2>1. PICK m \in T : \A y \in T : ~(y < m)
    <3>1. T \in SUBSET Nat
      BY <1>0
    <3> HIDE DEF T
    <3> QED
      BY <3>1, SmallestIn
  <2>2. CASE m = 0
    <3> DEFINE g == [i \in 0 .. 0 |-> <<>>]
    <3>1. g = [i \in 0 .. 0 |-> IF i = 0 THEN <<>>
                 ELSE IF lines[i].whole THEN Append(g[i - 1], lines[i]) ELSE g[i - 1]]
      OBVIOUS
    <3> HIDE DEF g
    <3>2. Keeping(g, lines, 0)
      BY <3>1 DEF Keeping
    <3> QED
      BY <2>2, <3>2
  <2>3. CASE m # 0
    <3>1. m - 1 \in 0 .. N /\ m - 1 < m /\ m \in 1 .. N
      BY <1>0, <2>3
    <3>2. PICK g : Keeping(g, lines, m - 1)
      BY <2>1, <3>1
    <3> DEFINE next == IF lines[m].whole THEN Append(g[m - 1], lines[m]) ELSE g[m - 1]
               h == [i \in 0 .. m |-> IF i < m THEN g[i] ELSE next]
    <3>3. ASSUME NEW i \in 0 .. m
          PROVE  h[i] = IF i = 0 THEN <<>>
                        ELSE IF lines[i].whole THEN Append(h[i - 1], lines[i]) ELSE h[i - 1]
      <4>1. CASE i = m
        <5>1. h[i] = next /\ h[i - 1] = g[m - 1]
          BY <3>1, <4>1
        <5> QED
          BY <2>3, <4>1, <5>1
      <4>2. CASE i < m
        <5>1. i \in 0 .. m - 1
          BY <3>1, <4>2
        <5>2. g[i] = IF i = 0 THEN <<>>
                     ELSE IF lines[i].whole THEN Append(g[i - 1], lines[i]) ELSE g[i - 1]
          BY <3>2, <5>1 DEF Keeping
        <5>3. h[i] = g[i] /\ (i # 0 => h[i - 1] = g[i - 1])
          BY <4>2, <5>1
        <5> QED
          BY <5>2, <5>3
      <4> QED
        BY <4>1, <4>2
    <3>4. h = [i \in 0 .. m |-> h[i]]
      OBVIOUS
    <3> HIDE DEF h
    <3>5. Keeping(h, lines, m)
      BY <3>3, <3>4 DEF Keeping
    <3>6. P(m)
      BY <3>5
    <3> QED
      BY <3>6
  <2> QED
    BY <2>2, <2>3
<1>2. N \in 0 .. N
  BY <1>0
<1> QED
  BY <1>1, <1>2 DEF N

LEMMA KeptIs ==
  ASSUME NEW lines \in Seq(LineType)
  PROVE  \E g : /\ Whole(lines) = g[Len(lines)] /\ g[0] = <<>>
                /\ \A i \in 1 .. Len(lines) :
                     g[i] = IF lines[i].whole THEN Append(g[i - 1], lines[i]) ELSE g[i - 1]
<1> DEFINE g == CHOOSE kept : kept =
                  [i \in 0 .. Len(lines) |->
                     IF i = 0 THEN <<>>
                     ELSE IF lines[i].whole THEN Append(kept[i - 1], lines[i]) ELSE kept[i - 1]]
<1>1. Whole(lines) = g[Len(lines)]
  BY Zenon DEF Whole
<1>2. g = [i \in 0 .. Len(lines) |->
             IF i = 0 THEN <<>>
             ELSE IF lines[i].whole THEN Append(g[i - 1], lines[i]) ELSE g[i - 1]]
  BY KeepingExists, Zenon DEF Keeping
<1> HIDE DEF g
<1>3. Len(lines) \in Nat
  OBVIOUS
<1>4. g[0] = <<>> /\ \A i \in 1 .. Len(lines) :
        g[i] = IF lines[i].whole THEN Append(g[i - 1], lines[i]) ELSE g[i - 1]
  <2> DEFINE f(i) == IF lines[i].whole THEN Append(g[i - 1], lines[i]) ELSE g[i - 1]
  <2>1. g = [i \in 0 .. Len(lines) |-> IF i = 0 THEN <<>> ELSE f(i)]
    BY <1>2, Zenon
  <2>2. 0 \in 0 .. Len(lines) /\ \A i \in 1 .. Len(lines) : i \in 0 .. Len(lines) /\ i # 0
    BY <1>3
  <2> HIDE DEF f
  <2>3. g[0] = <<>> /\ \A i \in 1 .. Len(lines) : g[i] = f(i)
    BY <2>1, <2>2, Zenon
  <2> QED
    BY <2>3, Zenon DEF f
<1> QED
  BY <1>1, <1>4

\* What can be read is lines of the file, all of them that can be read.
LEMMA WholeIs ==
  ASSUME NEW lines \in Seq(LineType)
  PROVE  /\ Whole(lines) \in Seq(LineType)
         /\ \A k \in DOMAIN Whole(lines) : /\ Whole(lines)[k].whole
                                           /\ \E j \in DOMAIN lines : lines[j] = Whole(lines)[k]
         /\ \A j \in DOMAIN lines : lines[j].whole =>
              \E k \in DOMAIN Whole(lines) : Whole(lines)[k] = lines[j]
         /\ (\A j \in DOMAIN lines : lines[j].whole) => Whole(lines) = lines
<1>0. Len(lines) \in Nat /\ DOMAIN lines = 1 .. Len(lines)
      /\ \A i \in 1 .. Len(lines) : lines[i] \in LineType
  OBVIOUS
<1>1. PICK g : /\ Whole(lines) = g[Len(lines)] /\ g[0] = <<>>
               /\ \A i \in 1 .. Len(lines) :
                    g[i] = IF lines[i].whole THEN Append(g[i - 1], lines[i]) ELSE g[i - 1]
  BY KeptIs
<1> DEFINE P(i) ==
      /\ g[i] \in Seq(LineType)
      /\ \A k \in DOMAIN g[i] : g[i][k].whole /\ \E j \in 1 .. i : lines[j] = g[i][k]
      /\ \A j \in 1 .. i : lines[j].whole => \E k \in DOMAIN g[i] : g[i][k] = lines[j]
      /\ (\A j \in 1 .. i : lines[j].whole) =>
           Len(g[i]) = i /\ \A j \in 1 .. i : g[i][j] = lines[j]
<1>2. \A i \in 0 .. Len(lines) : P(i)
  <2> DEFINE T == {i \in 0 .. Len(lines) : ~P(i)}
  <2> SUFFICES ASSUME T # {} PROVE FALSE
    OBVIOUS
  <2>1. PICK m \in T : \A y \in T : ~(y < m)
    <3>1. T \in SUBSET Nat
      BY <1>0
    <3> HIDE DEF T
    <3> QED
      BY <3>1, SmallestIn
  <2>2. CASE m = 0
    <3>1. g[0] = <<>> /\ 1 .. 0 = {}
      BY <1>1
    <3>2. P(0)
      BY <3>1
    <3> QED
      BY <2>1, <2>2, <3>2
  <2>3. CASE m # 0
    <3>1. m \in 1 .. Len(lines) /\ m - 1 \in 0 .. Len(lines) /\ m - 1 < m
          /\ 1 .. m = 1 .. (m - 1) \cup {m} /\ lines[m] \in LineType
      BY <1>0, <2>3
    <3>2. P(m - 1)
      BY <2>1, <3>1
    <3> DEFINE f == g[m - 1]
               l == lines[m]
    <3>3. /\ f \in Seq(LineType) /\ l \in LineType
          /\ \A k \in DOMAIN f : f[k].whole /\ \E j \in 1 .. (m - 1) : lines[j] = f[k]
          /\ \A j \in 1 .. (m - 1) : lines[j].whole => \E k \in DOMAIN f : f[k] = lines[j]
          /\ (\A j \in 1 .. (m - 1) : lines[j].whole) =>
               Len(f) = m - 1 /\ \A j \in 1 .. (m - 1) : f[j] = lines[j]
      BY <3>1, <3>2
    <3>4. g[m] = IF l.whole THEN Append(f, l) ELSE f
      BY <1>1, <3>1
    <3> HIDE DEF f, P
    <3>5. CASE ~l.whole
      <4>1. g[m] = f /\ ~lines[m].whole /\ \A j \in 1 .. m : j = m \/ j \in 1 .. (m - 1)
        BY <3>1, <3>4, <3>5
      <4>2. P(m)
        BY <3>1, <3>3, <4>1 DEF P
      <4> QED
        BY <2>1, <4>2
    <3>6. CASE l.whole
      <4>1. /\ g[m] \in Seq(LineType) /\ DOMAIN g[m] = DOMAIN f \cup {Len(f) + 1}
            /\ Len(g[m]) = Len(f) + 1 /\ Len(f) \in Nat /\ DOMAIN f = 1 .. Len(f)
            /\ \A k \in DOMAIN f : g[m][k] = f[k]
            /\ g[m][Len(f) + 1] = l
        BY <3>3, <3>4, <3>6
      <4>2. \A k \in DOMAIN g[m] : g[m][k].whole /\ \E j \in 1 .. m : lines[j] = g[m][k]
        BY <3>1, <3>3, <3>6, <4>1
      <4>3. ASSUME NEW j \in 1 .. m, lines[j].whole
            PROVE  \E k \in DOMAIN g[m] : g[m][k] = lines[j]
        <5>1. CASE j = m
          <6>1. Len(f) + 1 \in DOMAIN g[m] /\ g[m][Len(f) + 1] = lines[j]
            BY <4>1, <5>1
          <6> QED
            BY <6>1
        <5>2. CASE j # m
          <6>1. j \in 1 .. (m - 1)
            BY <3>1, <5>2
          <6>2. PICK k \in DOMAIN f : f[k] = lines[j]
            BY <3>3, <4>3, <6>1
          <6>3. k \in DOMAIN g[m] /\ g[m][k] = lines[j]
            BY <4>1, <6>2
          <6> QED
            BY <6>3
        <5> QED
          BY <5>1, <5>2
      <4>4. (\A j \in 1 .. m : lines[j].whole) =>
              Len(g[m]) = m /\ \A j \in 1 .. m : g[m][j] = lines[j]
        <5> SUFFICES ASSUME \A j \in 1 .. m : lines[j].whole
                     PROVE  Len(g[m]) = m /\ \A j \in 1 .. m : g[m][j] = lines[j]
          OBVIOUS
        <5>1. m \in Nat /\ \A j \in 1 .. (m - 1) : j \in 1 .. m
          BY <3>1
        <5>2. Len(f) = m - 1 /\ \A j \in 1 .. (m - 1) : f[j] = lines[j]
          BY <3>3, <5>1
        <5>3. Len(g[m]) = m /\ DOMAIN f = 1 .. (m - 1) /\ Len(f) + 1 = m
          BY <4>1, <5>1, <5>2
        <5>4. g[m][m] = lines[m] /\ \A j \in 1 .. (m - 1) : g[m][j] = lines[j]
          BY <4>1, <5>2, <5>3
        <5> QED
          BY <3>1, <5>3, <5>4
      <4>5. P(m)
        BY <4>1, <4>2, <4>3, <4>4 DEF P
      <4> QED
        BY <2>1, <4>5
    <3> QED
      BY <3>5, <3>6
  <2> QED
    BY <2>2, <2>3
<1>3. P(Len(lines))
  BY <1>0, <1>2
<1>4. (\A j \in DOMAIN lines : lines[j].whole) => Whole(lines) = lines
  BY <1>0, <1>1, <1>3
<1>5. /\ Whole(lines) \in Seq(LineType)
      /\ \A k \in DOMAIN Whole(lines) : /\ Whole(lines)[k].whole
                                        /\ \E j \in 1 .. Len(lines) : lines[j] = Whole(lines)[k]
      /\ \A j \in 1 .. Len(lines) : lines[j].whole =>
           \E k \in DOMAIN Whole(lines) : Whole(lines)[k] = lines[j]
  <2>1. P(Len(lines)) /\ Whole(lines) = g[Len(lines)]
    BY <1>1, <1>3
  <2> DEFINE w == Whole(lines)
             n == Len(lines)
  <2>2. w = g[n]
    BY <2>1
  <2> HIDE DEF w, n
  <2>3. /\ w \in Seq(LineType)
        /\ \A k \in DOMAIN w : w[k].whole /\ \E j \in 1 .. n : lines[j] = w[k]
        /\ \A j \in 1 .. n : lines[j].whole => \E k \in DOMAIN w : w[k] = lines[j]
    BY <2>1, <2>2 DEF n
  <2> QED
    BY <2>3 DEF w, n
<1> HIDE DEF P
<1> QED
  BY <1>0, <1>4, <1>5

\* One line more.
LEMMA WholeAppend ==
  ASSUME NEW lines \in Seq(LineType), NEW l \in LineType
  PROVE  Whole(Append(lines, l)) = IF l.whole THEN Append(Whole(lines), l) ELSE Whole(lines)
<1> DEFINE more == Append(lines, l)
           n == Len(lines)
<1>0. /\ more \in Seq(LineType) /\ Len(more) = n + 1 /\ n \in Nat
      /\ more[n + 1] = l /\ \A i \in 1 .. n : more[i] = lines[i]
  OBVIOUS
<1> HIDE DEF more, n
<1>1. PICK g : /\ Whole(lines) = g[n] /\ g[0] = <<>>
               /\ \A i \in 1 .. n : g[i] = IF lines[i].whole THEN Append(g[i - 1], lines[i]) ELSE g[i - 1]
  BY KeptIs DEF n
<1>2. PICK h : /\ Whole(more) = h[n + 1] /\ h[0] = <<>>
               /\ \A i \in 1 .. (n + 1) :
                    h[i] = IF more[i].whole THEN Append(h[i - 1], more[i]) ELSE h[i - 1]
  BY <1>0, KeptIs
<1>3. \A i \in 0 .. n : h[i] = g[i]
  <2> DEFINE T == {i \in 0 .. n : h[i] # g[i]}
  <2> SUFFICES ASSUME T # {} PROVE FALSE
    OBVIOUS
  <2>1. PICK m \in T : \A y \in T : ~(y < m)
    <3>1. T \in SUBSET Nat
      BY <1>0
    <3> HIDE DEF T
    <3> QED
      BY <3>1, SmallestIn
  <2>2. m # 0
    BY <1>1, <1>2, <2>1
  <2>3. m \in 1 .. n /\ m - 1 \in 0 .. n /\ m - 1 < m /\ m \in 1 .. (n + 1)
    BY <1>0, <2>1, <2>2
  <2>4. h[m - 1] = g[m - 1] /\ more[m] = lines[m]
    BY <1>0, <2>1, <2>3
  <2>5. h[m] = g[m]
    BY <1>1, <1>2, <2>3, <2>4
  <2> QED
    BY <2>1, <2>5
<1>4. h[n + 1] = IF l.whole THEN Append(h[n], l) ELSE h[n]
  <2>1. n + 1 \in 1 .. (n + 1) /\ (n + 1) - 1 = n
    BY <1>0
  <2> QED
    BY <1>0, <1>2, <2>1
<1>5. h[n] = Whole(lines)
  BY <1>0, <1>1, <1>3
<1> QED
  BY <1>2, <1>4, <1>5 DEF more

-----------------------------------------------------------------------------
(* The inductive invariant.                                                *)

CopyType == [has : BOOLEAN, entries : Seq(LineType), ends : BOOLEAN, problems : BOOLEAN]

\* a copy holds only lines that can be read
Readable(c) == c \in CopyType /\ \A i \in DOMAIN c.entries : c.entries[i].whole

Operation == [op : {"none", "append", "erase"}, at : {"off", "read", "begin", "sync"},
              who : SUBSET Person, copy : CopyType, mine : BOOLEAN]

Reading == [at : {"off", "open", "read"}, copy : CopyType]

Marks == {"race", "nosync", "rewritten", "halved"}

Shape ==
  /\ file \in Seq(LineType) /\ ends \in BOOLEAN
  /\ Readable(mem) /\ (~mem.has => mem = None)
  /\ writer \in Operation /\ Readable(writer.copy)
  /\ writer.at # "off" => writer.op # "none" /\ writer.copy.has
  /\ writer.op = "erase" => \A p, q \in writer.who : p = q
  /\ reading \in [Readers -> Reading]
  /\ \A r \in Readers : Readable(reading[r].copy) /\ (reading[r].at = "read" => reading[r].copy.has)
  /\ made \in 0 .. MaxEvents /\ acked \subseteq 1 .. made /\ forgotten \in [Person -> 0 .. made]
  /\ spoilt \subseteq Marks /\ cut \subseteq 1 .. made /\ faults \in 0 .. MaxFaults

\* the copies somebody is going to use: in memory, an operation's, a reader's
Copies ==
  {c \in {mem} : mem.has} \cup {c \in {writer.copy} : writer.at # "off"}
  \cup {reading[r].copy : r \in {q \in Readers : reading[q].at = "read"}}

\* no line has a number that has not been given yet
Numbered ==
  /\ \A i \in DOMAIN file : file[i].hash <= made
  /\ \A c \in Copies : \A i \in DOMAIN c.entries : c.entries[i].hash <= made

\* the line an append has written
Sent == Line(writer.copy.entries, writer.who, made)

\* nobody has heard of what waits for its sync; a line that was not cut short stands last
InSync ==
  writer.at = "sync" =>
    /\ made # 0 /\ made \notin acked /\ \A p \in Person : forgotten[p] < made
    /\ writer.op = "append" /\ made \notin Exposed /\ "halved" \notin spoilt =>
         ends /\ file # <<>> /\ Last(file) = Sent

\* what a short write left ends the file
Glued == made \in cut /\ file # <<>> /\ (~Last(file).whole \/ Last(file).hash \in cut)

\* whoever writes behind a torn line knows that it is torn, unless a short write left it
LineBreaks ==
  ~ends => \/ "halved" \in spoilt
           \/ Glued
           \/ writer.at # "sync" /\ \A c \in Copies : ~c.ends

\* unless two reads overlapped, a reader is alone and an operation works on the copy in memory
Turns ==
  "race" \notin spoilt =>
    /\ \A r \in Readers : reading[r].at # "off" =>
         ~mem.has /\ writer.at = "off" /\ \A q \in Readers \ {r} : reading[q].at = "off"
    /\ writer.at = "read" => ~mem.has
    /\ writer.at \in {"begin", "sync"} => mem = writer.copy /\ writer.mine

Hashes(lines) == {lines[i].hash : i \in DOMAIN lines}

\* no line names somebody forgotten after it
Silent(lines) == \A i \in DOMAIN lines : \A p \in lines[i].who : lines[i].hash > forgotten[p]

Held ==
  "race" \notin spoilt =>
    /\ "halved" \notin spoilt => \A c \in Copies : acked \subseteq Hashes(c.entries) \cup Exposed
    /\ \A c \in Copies : Silent(c.entries)

NoNames == "race" \notin spoilt => Silent(file)

NoRewrite == "rewritten" \in spoilt => "race" \in spoilt

\* the journal an erasure wrote
Erased ==
  writer.at = "sync" /\ writer.op = "erase" =>
    /\ ~Refused
    /\ \A i \in DOMAIN file : file[i].who \cap writer.who = {}
    /\ "halved" \notin spoilt => \E p \in writer.who : file = Forgetting(p, writer.copy.entries, made)

Broken(lines) == \E i \in DOMAIN lines : ~lines[i].whole

\* a copy has what the file has, but for what short writes exposed; so does its last entry
Agrees(c) ==
  /\ Known(c.entries) = Known(Whole(file))
  /\ Tip(c.entries) = Tip(Whole(file)) \/ Tip(c.entries) \in Exposed \/ made \in cut

\* if nothing else went wrong, every copy is one chain and agrees with the file, but for
\* the line on its way
Truth ==
  spoilt = {} =>
    /\ \A c \in Copies : Linked(c.entries)
    /\ writer.at # "sync" => \A c \in Copies : Agrees(c)
    /\ writer.at = "sync" /\ writer.op = "append" =>
         /\ Known(Whole(file)) = Known(Append(writer.copy.entries, Sent))
         /\ made \notin Exposed => Tip(Whole(file)) = made

\* if nothing at all went wrong, every copy is the file
Exact ==
  spoilt = {} /\ cut = {} =>
    /\ writer.at # "sync" => \A c \in Copies : c = Copy(file, ends)
    /\ writer.at = "sync" /\ writer.op = "append" =>
         /\ Whole(file) = Append(writer.copy.entries, Sent)
         /\ writer.copy.problems = Broken(file)

\* what the steps that write no line keep
OnDisk ==
  /\ AckedOnDisk /\ Numbered /\ InSync /\ LineBreaks /\ Held /\ NoNames /\ Erased
  /\ Truth /\ Exact /\ Chain

JInv == Shape /\ Turns /\ NoRewrite /\ OnDisk

-----------------------------------------------------------------------------
(* Lines, copies and what is recorded.                                     *)

LEMMA TypesOfCopies ==
  /\ Readable(None) /\ ~None.has /\ None.entries = <<>> /\ None \in CopyType
  /\ Off \in Operation /\ Off.op = "none" /\ Off.at = "off" /\ Off.who = {} /\ Off.copy = None
  /\ NotReading \in Reading /\ NotReading.at = "off" /\ NotReading.copy = None
<1>1. <<>> \in Seq(LineType) /\ DOMAIN <<>> = {}
  OBVIOUS
<1>2. Readable(None) /\ None \in CopyType /\ ~None.has /\ None.entries = <<>>
  BY <1>1 DEF Readable, None, CopyType
<1> QED
  BY <1>2 DEF Off, Operation, NotReading, Reading

LEMMA CopyIs ==
  ASSUME file \in Seq(LineType), ends \in BOOLEAN
  PROVE  LET c == Copy(file, ends) IN
         /\ Readable(c) /\ c.has /\ c.entries = Whole(file) /\ c.ends = ends
         /\ c.problems = Broken(file) /\ c \in CopyType
<1>1. /\ Whole(file) \in Seq(LineType)
      /\ \A k \in DOMAIN Whole(file) : Whole(file)[k].whole
  BY WholeIs
<1>2. Broken(file) \in BOOLEAN
  BY DEF Broken
<1>3. Copy(file, ends) = [has |-> TRUE, entries |-> Whole(file), ends |-> ends, problems |-> Broken(file)]
  BY DEF Copy, Broken
<1> QED
  BY <1>1, <1>2, <1>3 DEF Readable, CopyType

LEMMA RecordedIs ==
  ASSUME file \in Seq(LineType)
  PROVE  Recorded = Hashes(Whole(file))
<1>1. ASSUME NEW h \in Recorded
      PROVE  h \in Hashes(Whole(file))
  <2>1. PICK i \in DOMAIN file : file[i].whole /\ file[i].hash = h
    BY <1>1 DEF Recorded
  <2>2. PICK k \in DOMAIN Whole(file) : Whole(file)[k] = file[i]
    BY <2>1, WholeIs
  <2> QED
    BY <2>1, <2>2 DEF Hashes
<1>2. ASSUME NEW h \in Hashes(Whole(file))
      PROVE  h \in Recorded
  <2>1. PICK k \in DOMAIN Whole(file) : Whole(file)[k].hash = h
    BY <1>2 DEF Hashes
  <2>2. PICK j \in DOMAIN file : file[j] = Whole(file)[k] /\ Whole(file)[k].whole
    BY WholeIs
  <2> QED
    BY <2>1, <2>2 DEF Recorded
<1> QED
  BY <1>1, <1>2

LEMMA SilentWhole ==
  ASSUME file \in Seq(LineType), Silent(file)
  PROVE  Silent(Whole(file))
BY WholeIs DEF Silent

\* The last line and those before it.
LEMMA FrontIs ==
  ASSUME NEW lines \in Seq(LineType), lines # <<>>
  PROVE  /\ Front(lines) \in Seq(LineType) /\ Last(lines) \in LineType
         /\ lines = Append(Front(lines), Last(lines))
         /\ Len(lines) \in Nat /\ Len(lines) >= 1
         /\ DOMAIN Front(lines) = 1 .. (Len(lines) - 1)
         /\ \A i \in 1 .. (Len(lines) - 1) : Front(lines)[i] = lines[i]
         /\ Last(lines) = lines[Len(lines)]
<1>1. Len(lines) \in Nat /\ Len(lines) >= 1
  OBVIOUS
<1>2. /\ Front(lines) \in Seq(LineType) /\ Len(Front(lines)) = Len(lines) - 1
      /\ DOMAIN Front(lines) = 1 .. (Len(lines) - 1)
      /\ \A i \in 1 .. (Len(lines) - 1) : Front(lines)[i] = lines[i]
  BY <1>1 DEF Front
<1>3. Last(lines) = lines[Len(lines)] /\ Last(lines) \in LineType
  BY <1>1 DEF Last
<1>4. lines = Append(Front(lines), Last(lines))
  BY <1>1, <1>2, <1>3
<1> QED
  BY <1>1, <1>2, <1>3, <1>4

LEMMA LastOfAppend ==
  ASSUME NEW lines \in Seq(LineType), NEW l \in LineType
  PROVE  /\ Append(lines, l) \in Seq(LineType) /\ Append(lines, l) # <<>>
         /\ Last(Append(lines, l)) = l
         /\ DOMAIN Append(lines, l) = DOMAIN lines \cup {Len(lines) + 1}
         /\ Append(lines, l)[Len(lines) + 1] = l
         /\ \A i \in DOMAIN lines : Append(lines, l)[i] = lines[i] /\ i # Len(lines) + 1
<1>1. Len(Append(lines, l)) = Len(lines) + 1 /\ Append(lines, l)[Len(lines) + 1] = l /\ Len(lines) \in Nat
  OBVIOUS
<1>2. Last(Append(lines, l)) = l
  BY <1>1 DEF Last
<1> QED
  BY <1>1, <1>2

\* Linked and Known for a given set of lines that were exposed
LinkedBut(lines, E) ==
  \A i \in DOMAIN lines :
    \/ lines[i].prev = IF i = 1 THEN GENESIS ELSE lines[i - 1].hash
    \/ {lines[i].hash, lines[i].prev} \cap E # {}

KnownBut(lines, E) == {l \in ToSet(lines) : l.hash \notin E}

LEMMA ButIs ==
  ASSUME NEW lines
  PROVE  /\ Linked(lines) <=> LinkedBut(lines, Exposed)
         /\ Known(lines) = KnownBut(lines, Exposed)
         /\ Linked(lines)' <=> LinkedBut(lines, Exposed')
         /\ Known(lines)' = KnownBut(lines, Exposed')
BY DEF Linked, LinkedBut, Known, KnownBut

LEMMA LinkedMore ==
  ASSUME NEW lines, NEW E, NEW F, E \subseteq F, LinkedBut(lines, E)
  PROVE  LinkedBut(lines, F)
BY DEF LinkedBut

\* One line more is linked if it follows the last one, or is exposed.
LEMMA LinkedAppend ==
  ASSUME NEW lines \in Seq(LineType), NEW l \in LineType, NEW E
  PROVE  LinkedBut(Append(lines, l), E)
           <=> LinkedBut(lines, E) /\ (l.prev = Tip(lines) \/ {l.hash, l.prev} \cap E # {})
<1> DEFINE more == Append(lines, l)
           n == Len(lines)
           ok(s, i) == \/ s[i].prev = IF i = 1 THEN GENESIS ELSE s[i - 1].hash
                       \/ {s[i].hash, s[i].prev} \cap E # {}
<1>1. /\ n \in Nat /\ DOMAIN lines = 1 .. n /\ DOMAIN more = 1 .. (n + 1)
      /\ more[n + 1] = l /\ \A i \in 1 .. n : more[i] = lines[i]
  OBVIOUS
<1>2. Tip(lines) = IF n = 0 THEN GENESIS ELSE lines[n].hash
  BY DEF Tip, Last
<1> HIDE DEF more, n
<1>3. \A i \in 1 .. n : i - 1 \in 1 .. n \/ i = 1
  BY <1>1
<1>4. \A i \in 1 .. n : ok(more, i) <=> ok(lines, i)
  BY <1>1, <1>3
<1>5. ok(more, n + 1) <=> (l.prev = Tip(lines) \/ {l.hash, l.prev} \cap E # {})
  BY <1>1, <1>2
<1>6. DOMAIN more = 1 .. n \cup {n + 1}
  BY <1>1
<1>7. LinkedBut(more, E) <=> \A i \in DOMAIN more : ok(more, i)
  BY Zenon DEF LinkedBut
<1>8. LinkedBut(lines, E) <=> \A i \in DOMAIN lines : ok(lines, i)
  BY Zenon DEF LinkedBut
<1> HIDE DEF ok
<1> QED
  BY <1>1, <1>4, <1>5, <1>6, <1>7, <1>8 DEF more

LEMMA ChainIs == Chain <=> (spoilt = {} => LinkedBut(Whole(file), Exposed))
BY DEF Chain, Linked, LinkedBut

LEMMA KnownAppend ==
  ASSUME NEW lines \in Seq(LineType), NEW l \in LineType, NEW E
  PROVE  KnownBut(Append(lines, l), E)
           = KnownBut(lines, E) \cup (IF l.hash \in E THEN {} ELSE {l})
<1>1. ToSet(Append(lines, l)) = ToSet(lines) \cup {l}
  BY LastOfAppend DEF ToSet
<1> QED
  BY <1>1 DEF KnownBut

\* Numbers not given yet make no difference.
LEMMA KnownSame ==
  ASSUME NEW lines, NEW E, NEW F, NEW n \in Nat,
         \A i \in DOMAIN lines : lines[i].hash \in Nat /\ lines[i].hash <= n,
         E \subseteq F, F \subseteq E \cup {n + 1, n + 2}
  PROVE  KnownBut(lines, F) = KnownBut(lines, E)
<1>1. \A l \in ToSet(lines) : l.hash \in Nat /\ l.hash <= n
  BY DEF ToSet
<1>2. \A l \in ToSet(lines) : l.hash \notin {n + 1, n + 2}
  BY <1>1
<1>3. \A l \in ToSet(lines) : l.hash \in F <=> l.hash \in E
  BY <1>2
<1> QED
  BY <1>3 DEF KnownBut

\* The last entry of one line more.
LEMMA TipAppend ==
  ASSUME NEW lines \in Seq(LineType), NEW l \in LineType
  PROVE  Tip(Append(lines, l)) = l.hash
BY LastOfAppend DEF Tip

-----------------------------------------------------------------------------
(* The shape of the state.                                                 *)

\* What a step does to the operation and to the readers, field by field.
LEMMA WriterFields ==
  ASSUME Shape
  PROVE  /\ writer \in Operation /\ writer.op \in {"none", "append", "erase"}
         /\ writer.at \in {"off", "read", "begin", "sync"} /\ writer.who \in SUBSET Person
         /\ writer.copy \in CopyType /\ writer.mine \in BOOLEAN
         /\ writer.copy.entries \in Seq(LineType)
         /\ mem \in CopyType /\ mem.entries \in Seq(LineType) /\ mem.has \in BOOLEAN
BY DEF Shape, Readable, Operation, CopyType

\* An operation that is about to begin.
Begun(op, at, who, copy) == [Off EXCEPT !.op = op, !.at = at, !.who = who, !.copy = copy]

LEMMA Beginning ==
  \A op \in {"append", "erase"} : \A at \in {"begin", "read"} :
  \A who \in SUBSET Person : \A copy \in CopyType : \A w : w = Begun(op, at, who, copy) =>
    w \in Operation /\ w.op = op /\ w.at = at /\ w.who = who /\ w.copy = copy /\ w.mine = TRUE
<1> SUFFICES ASSUME NEW op \in {"append", "erase"}, NEW at \in {"begin", "read"},
                    NEW who \in SUBSET Person, NEW copy \in CopyType,
                    NEW w, w = Begun(op, at, who, copy)
             PROVE  w \in Operation /\ w.op = op /\ w.at = at /\ w.who = who /\ w.copy = copy /\ w.mine = TRUE
  OBVIOUS
<1>1. Off \in Operation /\ Off.mine = TRUE
  BY TypesOfCopies DEF Off
<1>2. PICK v : v = [Off EXCEPT !.op = op, !.at = at]
  OBVIOUS
<1>3. v \in Operation /\ v.op = op /\ v.at = at /\ v.mine = TRUE
  <2>1. PICK u : u = [Off EXCEPT !.op = op]
    OBVIOUS
  <2>2. u \in Operation /\ u.op = op /\ u.mine = TRUE
    BY <1>1, <2>1 DEF Operation
  <2>3. v = [u EXCEPT !.at = at]
    BY <1>2, <2>1
  <2> QED
    BY <2>2, <2>3 DEF Operation
<1>4. PICK u : u = [v EXCEPT !.who = who]
  OBVIOUS
<1>5. u \in Operation /\ u.op = op /\ u.at = at /\ u.who = who /\ u.mine = TRUE
  BY <1>3, <1>4 DEF Operation
<1>6. w = [u EXCEPT !.copy = copy]
  BY <1>2, <1>4 DEF Begun
<1>7. w \in Operation /\ w.op = op /\ w.at = at /\ w.who = who /\ w.copy = copy /\ w.mine = TRUE
  BY <1>5, <1>6 DEF Operation
<1> QED
  BY <1>7

LEMMA BeginsIs ==
  ASSUME Shape, NEW op \in {"append", "erase"}, NEW who \in SUBSET Person, Begins(op, who)
  PROVE  /\ writer' \in Operation /\ writer'.op = op /\ writer'.who = who /\ writer'.mine = TRUE
         /\ mem.has => writer'.at = "begin" /\ writer'.copy = mem /\ spoilt' = spoilt
         /\ ~mem.has => /\ writer'.at = "read" /\ writer'.copy = Copy(file, ends)
                        /\ spoilt' = Overlap /\ MayRead
<1>1. mem \in CopyType /\ Copy(file, ends) \in CopyType
  BY WriterFields, CopyIs DEF Shape
<1>2. CASE mem.has
  <2>1. writer' = [Off EXCEPT !.op = op, !.at = "begin", !.who = who, !.copy = mem] /\ spoilt' = spoilt
    BY <1>2 DEF Begins
  <2>2. writer' = Begun(op, "begin", who, mem)
    BY <2>1 DEF Begun
  <2>3. /\ writer' \in Operation /\ writer'.op = op /\ writer'.at = "begin" /\ writer'.who = who
        /\ writer'.copy = mem /\ writer'.mine = TRUE
    BY <1>1, <2>2, Beginning
  <2> QED
    BY <1>2, <2>1, <2>3
<1>3. CASE ~mem.has
  <2>1. /\ writer' = [Off EXCEPT !.op = op, !.at = "read", !.who = who, !.copy = Copy(file, ends)]
        /\ spoilt' = Overlap /\ MayRead
    BY <1>3 DEF Begins
  <2>2. writer' = Begun(op, "read", who, Copy(file, ends))
    BY <2>1 DEF Begun
  <2>3. /\ writer' \in Operation /\ writer'.op = op /\ writer'.at = "read" /\ writer'.who = who
        /\ writer'.copy = Copy(file, ends) /\ writer'.mine = TRUE
    BY <1>1, <2>2, Beginning
  <2> QED
    BY <1>3, <2>1, <2>3
<1> QED
  BY <1>2, <1>3

\* how a step leaves the fields of the operation
Moves(at, mine) ==
  writer' = [op |-> writer.op, at |-> at, who |-> writer.who, copy |-> writer.copy, mine |-> mine]

LEMMA MovesIs ==
  ASSUME Shape
  PROVE  /\ \A r \in Readers : Loaded(r) => Moves(writer.at, writer.at = "off")
         /\ OwnLoaded => Moves("begin", TRUE)
         /\ Write \/ Rename \/ RenameShort => Moves("sync", writer.mine)
         /\ CutShort => writer' = Off \/ Moves("sync", writer.mine)
<1>1. writer = [op |-> writer.op, at |-> writer.at, who |-> writer.who,
                copy |-> writer.copy, mine |-> writer.mine]
  BY DEF Shape, Operation
<1>2. ASSUME NEW at, NEW mine
      PROVE  /\ [writer EXCEPT !.mine = mine]
                = [op |-> writer.op, at |-> writer.at, who |-> writer.who,
                   copy |-> writer.copy, mine |-> mine]
             /\ [writer EXCEPT !.at = at]
                = [op |-> writer.op, at |-> at, who |-> writer.who,
                   copy |-> writer.copy, mine |-> writer.mine]
             /\ [writer EXCEPT !.at = at, !.mine = mine]
                = [op |-> writer.op, at |-> at, who |-> writer.who,
                   copy |-> writer.copy, mine |-> mine]
  <2>1. [writer EXCEPT !.mine = mine]
        = [op |-> writer.op, at |-> writer.at, who |-> writer.who, copy |-> writer.copy, mine |-> mine]
    BY <1>1
  <2>2. [writer EXCEPT !.at = at]
        = [op |-> writer.op, at |-> at, who |-> writer.who, copy |-> writer.copy, mine |-> writer.mine]
    BY <1>1
  <2>3. [writer EXCEPT !.at = at, !.mine = mine]
        = [op |-> writer.op, at |-> at, who |-> writer.who, copy |-> writer.copy, mine |-> mine]
    <3>1. PICK w : w = [writer EXCEPT !.at = at]
      OBVIOUS
    <3>2. w = [op |-> writer.op, at |-> at, who |-> writer.who, copy |-> writer.copy, mine |-> writer.mine]
      BY <2>2, <3>1
    <3>3. [writer EXCEPT !.at = at, !.mine = mine] = [w EXCEPT !.mine = mine]
      BY <3>1
    <3>4. [w EXCEPT !.mine = mine]
          = [op |-> writer.op, at |-> at, who |-> writer.who, copy |-> writer.copy, mine |-> mine]
      BY <3>2
    <3> QED
      BY <3>3, <3>4
  <2> QED
    BY <2>1, <2>2, <2>3
<1>3. ASSUME NEW r \in Readers, Loaded(r)
      PROVE  Moves(writer.at, writer.at = "off")
  BY <1>2, <1>3 DEF Loaded, Moves
<1>4. OwnLoaded => Moves("begin", TRUE)
  BY <1>2 DEF OwnLoaded, Moves
<1>5. Write \/ Rename \/ RenameShort => Moves("sync", writer.mine)
  BY <1>2 DEF Write, Rename, RenameShort, Moves
<1>6. CutShort => writer' = Off \/ Moves("sync", writer.mine)
  BY <1>2 DEF CutShort, Moves
<1> QED
  BY <1>3, <1>4, <1>5, <1>6

LEMMA ReadersIs ==
  ASSUME Shape, NEW r \in Readers
  PROVE  /\ StartRead(r) \/ Verify(r) =>
              /\ reading'[r].at = "open" /\ reading'[r].copy = reading[r].copy /\ reading'[r] \in Reading
              /\ reading' = [q \in Readers |-> IF q = r THEN reading'[r] ELSE reading[q]]
         /\ ReadFile(r) =>
              /\ reading'[r] = [at |-> "read", copy |-> Copy(file, ends)]
              /\ reading' = [q \in Readers |-> IF q = r THEN reading'[r] ELSE reading[q]]
         /\ Loaded(r) =>
              /\ reading'[r] = NotReading
              /\ reading' = [q \in Readers |-> IF q = r THEN reading'[r] ELSE reading[q]]
<1>1. reading \in [Readers -> Reading] /\ reading[r] \in Reading
  BY DEF Shape
<1>2. [reading[r] EXCEPT !.at = "open"] = [at |-> "open", copy |-> reading[r].copy]
      /\ [reading[r] EXCEPT !.at = "open"] \in Reading
  BY <1>1 DEF Reading
<1>3. ASSUME StartRead(r) \/ Verify(r)
      PROVE  /\ reading'[r].at = "open" /\ reading'[r].copy = reading[r].copy /\ reading'[r] \in Reading
             /\ reading' = [q \in Readers |-> IF q = r THEN reading'[r] ELSE reading[q]]
  <2>1. reading' = [reading EXCEPT ![r] = [reading[r] EXCEPT !.at = "open"]]
    BY <1>3 DEF StartRead, Verify
  <2> DEFINE new == [reading[r] EXCEPT !.at = "open"]
  <2>2. new.at = "open" /\ new.copy = reading[r].copy /\ new \in Reading
    BY <1>2
  <2> HIDE DEF new
  <2>3. reading' = [reading EXCEPT ![r] = new]
    BY <2>1 DEF new
  <2> QED
    BY <1>1, <2>2, <2>3
<1>4. ReadFile(r) => /\ reading'[r] = [at |-> "read", copy |-> Copy(file, ends)]
                     /\ reading' = [q \in Readers |-> IF q = r THEN reading'[r] ELSE reading[q]]
  BY <1>1 DEF ReadFile
<1>5. Loaded(r) => /\ reading'[r] = NotReading
                   /\ reading' = [q \in Readers |-> IF q = r THEN reading'[r] ELSE reading[q]]
  BY <1>1 DEF Loaded
<1> QED
  BY <1>3, <1>4, <1>5

LEMMA LineIs ==
  ASSUME Shape, NEW n \in 0 .. MaxEvents, NEW who \in SUBSET Person
  PROVE  LET l == Line(writer.copy.entries, who, n) IN
         /\ l \in LineType /\ l.whole /\ l.hash = n /\ l.who = who
         /\ l.prev = Tip(writer.copy.entries)
<1>1. 0 \in 0 .. MaxEvents
  BY ConstantsAssumption
<1>2. Tip(writer.copy.entries) \in 0 .. MaxEvents
  <2>1. writer.copy.entries \in Seq(LineType)
    BY WriterFields
  <2>2. CASE writer.copy.entries = <<>>
    BY <1>1, <2>2 DEF Tip, GENESIS
  <2>3. CASE writer.copy.entries # <<>>
    BY <2>1, <2>3, FrontIs DEF Tip, LineType
  <2> QED
    BY <2>2, <2>3
<1> QED
  BY <1>2 DEF Line, LineType

LEMMA TornIs == Torn \in LineType /\ ~Torn.whole /\ Torn.who = {} /\ Torn.hash = 0
BY ConstantsAssumption DEF Torn, LineType

LEMMA ScrubIs ==
  ASSUME NEW entries \in Seq(LineType), NEW p \in Person
  PROVE  /\ Scrub(entries, p) \in Seq(LineType) /\ DOMAIN Scrub(entries, p) = DOMAIN entries
         /\ Len(Scrub(entries, p)) = Len(entries)
         /\ \A i \in DOMAIN entries :
              /\ Scrub(entries, p)[i].whole = entries[i].whole
              /\ Scrub(entries, p)[i].hash = entries[i].hash
              /\ Scrub(entries, p)[i].prev = entries[i].prev
              /\ Scrub(entries, p)[i].who = entries[i].who \ {p}
<1>1. Len(entries) \in Nat /\ DOMAIN entries = 1 .. Len(entries)
      /\ \A i \in 1 .. Len(entries) : entries[i] \in LineType
  OBVIOUS
<1> DEFINE bare(i) == [entries[i] EXCEPT !.who = @ \ {p}]
<1>2. ASSUME NEW i \in 1 .. Len(entries)
      PROVE  /\ bare(i) \in LineType /\ bare(i).whole = entries[i].whole
             /\ bare(i).hash = entries[i].hash /\ bare(i).prev = entries[i].prev
             /\ bare(i).who = entries[i].who \ {p}
  BY <1>1 DEF LineType
<1>3. Scrub(entries, p) = [i \in 1 .. Len(entries) |-> bare(i)]
  BY <1>1 DEF Scrub
<1> HIDE DEF bare
<1>4. Scrub(entries, p) \in Seq(LineType) /\ Len(Scrub(entries, p)) = Len(entries)
  BY <1>1, <1>2, <1>3
<1> QED
  BY <1>1, <1>2, <1>3, <1>4

\* The new journal of an erasure: every line as it was but for the name, and one more.
LEMMA ForgettingIs ==
  ASSUME Shape, NEW n \in 0 .. MaxEvents, NEW p \in Person
  PROVE  LET es == writer.copy.entries
             all == Forgetting(p, es, n)
             l == Line(es, {}, n) IN
         /\ all \in Seq(LineType) /\ all # <<>> /\ Last(all) = l
         /\ l \in LineType /\ l.whole /\ l.hash = n /\ l.who = {} /\ l.prev = Tip(es)
         /\ Scrub(es, p) \in Seq(LineType) /\ all = Append(Scrub(es, p), l)
         /\ DOMAIN all = DOMAIN es \cup {Len(es) + 1} /\ all[Len(es) + 1] = l
         /\ \A i \in DOMAIN es :
              /\ all[i].whole /\ all[i].hash = es[i].hash /\ all[i].prev = es[i].prev
              /\ all[i].who = es[i].who \ {p}
         /\ \A i \in DOMAIN all : all[i].whole
<1> DEFINE es == writer.copy.entries
           all == Forgetting(p, es, n)
           l == Line(es, {}, n)
           old == Scrub(es, p)
<1>1. es \in Seq(LineType) /\ \A i \in DOMAIN es : es[i].whole
  BY WriterFields DEF Shape, Readable
<1>2. l \in LineType /\ l.whole /\ l.hash = n /\ l.who = {} /\ l.prev = Tip(es)
  <2>1. {} \in SUBSET Person
    OBVIOUS
  <2> QED
    BY <2>1, LineIs
<1>3. all = Append(old, l)
  BY DEF Forgetting
<1> HIDE DEF es, all, l, old
<1>4. /\ old \in Seq(LineType) /\ DOMAIN old = DOMAIN es /\ Len(old) = Len(es)
      /\ \A i \in DOMAIN es :
           /\ old[i].whole = es[i].whole /\ old[i].hash = es[i].hash
           /\ old[i].prev = es[i].prev /\ old[i].who = es[i].who \ {p}
  BY <1>1, ScrubIs DEF old
<1>5. /\ all \in Seq(LineType) /\ all # <<>> /\ Last(all) = l
      /\ DOMAIN all = DOMAIN old \cup {Len(old) + 1} /\ all[Len(old) + 1] = l
      /\ \A i \in DOMAIN old : all[i] = old[i]
  BY <1>2, <1>3, <1>4, LastOfAppend
<1>6. \A i \in DOMAIN all : all[i].whole
  BY <1>1, <1>2, <1>4, <1>5
<1>7. \A i \in DOMAIN es :
        /\ all[i].whole /\ all[i].hash = es[i].hash /\ all[i].prev = es[i].prev
        /\ all[i].who = es[i].who \ {p}
  BY <1>1, <1>4, <1>5
<1>8. DOMAIN all = DOMAIN es \cup {Len(es) + 1} /\ all[Len(es) + 1] = l
  BY <1>4, <1>5
<1> QED
  BY <1>2, <1>3, <1>4, <1>5, <1>6, <1>7, <1>8 DEF es, all, l, old

\* Behind which line a text lands: on a line of its own, or in what a short write left.
LEMMA BehindIs ==
  ASSUME Shape, LineBreaks, writer.at = "begin", NEW piece,
         file' = Behind(file, ends, writer.copy, piece)
  PROVE  \/ file' = Append(file, piece)
         \/ /\ file # <<>> /\ file' = Append(Front(file), Torn)
            /\ "halved" \notin spoilt => Glued
<1>1. writer.copy \in Copies
  BY DEF Copies
<1>2. CASE ends \/ ~writer.copy.ends \/ file = <<>>
  BY <1>2, Zenon DEF Behind
<1>3. CASE ~(ends \/ ~writer.copy.ends \/ file = <<>>)
  <2>1. file # <<>> /\ file' = Append(Front(file), Torn)
    BY <1>3, Zenon DEF Behind
  <2>2. "halved" \in spoilt \/ Glued
    BY <1>1, <1>3 DEF LineBreaks
  <2> QED
    BY <2>1, <2>2
<1> QED
  BY <1>2, <1>3

\* What an append leaves, written whole or cut short.
LEMMA WritingIs ==
  ASSUME Shape, LineBreaks, Write \/ CutShort
  PROVE  LET l == Line(writer.copy.entries, writer.who, made + 1) IN
         /\ l \in LineType /\ l.whole /\ l.hash = made + 1 /\ l.who = writer.who
         /\ l.prev = Tip(writer.copy.entries)
         /\ \/ file' = Append(file, l)
            \/ file' = file
            \/ file' = Append(file, Torn)
            \/ file # <<>> /\ file' = Append(Front(file), Torn) /\ ("halved" \notin spoilt => Glued)
         /\ made + 1 \notin Exposed' /\ "halved" \notin spoilt => file' = Append(file, l) /\ ends'
         /\ ends' \in BOOLEAN /\ (~ends' => Glued')
         /\ made' = made + 1 /\ made + 1 \in 0 .. MaxEvents
         /\ cut' \in {cut, cut \cup {made + 1}}
         /\ writer.op = "append" /\ writer.at = "begin"
         /\ \/ Moves("sync", writer.mine)
            \/ writer' = Off /\ made + 1 \in cut'
         /\ UNCHANGED <<mem, reading, acked, forgotten, spoilt>>
<1> DEFINE l == Line(writer.copy.entries, writer.who, made + 1)
<1>1. /\ writer.op = "append" /\ writer.at = "begin" /\ made < MaxEvents /\ writer.who \in SUBSET Person
      /\ made' = made + 1 /\ UNCHANGED <<mem, reading, acked, forgotten, spoilt>>
  BY WriterFields DEF Write, CutShort
<1>2. made + 1 \in 0 .. MaxEvents /\ made \in Nat
  BY <1>1, ConstantsAssumption DEF Shape
<1>3. l \in LineType /\ l.whole /\ l.hash = made + 1 /\ l.who = writer.who /\ l.prev = Tip(writer.copy.entries)
  BY <1>1, <1>2, LineIs
<1>4. PICK line : line = l
  OBVIOUS
<1>5. file \in Seq(LineType) /\ ends \in BOOLEAN
  BY DEF Shape
<1> HIDE DEF l
<1>6. CASE Write
  <2>1. file' = Behind(file, ends, writer.copy, line) /\ ends' = TRUE /\ cut' = cut
        /\ Moves("sync", writer.mine)
    BY <1>4, <1>6, MovesIs DEF Write, l
  <2>2. \/ file' = Append(file, line)
        \/ file # <<>> /\ file' = Append(Front(file), Torn) /\ ("halved" \notin spoilt => Glued)
    BY <1>1, <2>1, BehindIs
  <2>3. Glued => made + 1 \in Exposed'
    BY <2>1 DEF Glued, Exposed
  <2> QED
    BY <1>1, <1>2, <1>3, <1>4, <2>1, <2>2, <2>3 DEF l
<1>7. CASE CutShort
  <2>1. /\ cut' = cut \cup {made + 1} /\ made + 1 \in cut'
        /\ writer' = Off \/ Moves("sync", writer.mine)
    BY <1>7, MovesIs DEF CutShort
  <2>2. made + 1 \in Exposed'
    BY <2>1 DEF Exposed
  <2>3. CASE file' = file /\ ends' = TRUE
    BY <1>1, <1>2, <1>3, <2>1, <2>2, <2>3 DEF l
  <2>4. ASSUME NEW piece \in {Torn, line},
               file' = Behind(file, ends, writer.copy, piece), ends' = FALSE
        PROVE  /\ \/ file' = Append(file, line) \/ file' = Append(file, Torn)
                  \/ file # <<>> /\ file' = Append(Front(file), Torn) /\ ("halved" \notin spoilt => Glued)
               /\ Glued'
    <3>1. \/ file' = Append(file, piece)
          \/ file # <<>> /\ file' = Append(Front(file), Torn) /\ ("halved" \notin spoilt => Glued)
      BY <1>1, <2>4, BehindIs
    <3>2. piece \in LineType /\ (piece.whole => piece.hash = made + 1)
      BY <1>3, <1>4, <2>4, TornIs
    <3>3. Glued'
      <4>1. CASE file' = Append(file, piece)
        <5>1. file' # <<>> /\ Last(file') = piece
          BY <1>5, <3>2, <4>1, LastOfAppend
        <5> QED
          BY <1>1, <2>1, <3>2, <5>1 DEF Glued
      <4>2. CASE file # <<>> /\ file' = Append(Front(file), Torn)
        <5>1. file' # <<>> /\ Last(file') = Torn
          BY <1>5, <4>2, FrontIs, TornIs, LastOfAppend
        <5> QED
          BY <1>1, <2>1, <5>1, TornIs DEF Glued
      <4> QED
        BY <3>1, <4>1, <4>2
    <3> QED
      BY <2>4, <3>1, <3>3
  <2>5. (file' = file /\ ends' = TRUE)
        \/ \E piece \in {Torn, line} : file' = Behind(file, ends, writer.copy, piece) /\ ends' = FALSE
    BY <1>4, <1>7 DEF CutShort, l
  <2>6. CASE ends' = FALSE /\ \E piece \in {Torn, line} : file' = Behind(file, ends, writer.copy, piece)
    <3>1. PICK piece \in {Torn, line} : file' = Behind(file, ends, writer.copy, piece)
      BY <2>6
    <3>2. /\ \/ file' = Append(file, line) \/ file' = Append(file, Torn)
             \/ file # <<>> /\ file' = Append(Front(file), Torn) /\ ("halved" \notin spoilt => Glued)
          /\ Glued'
      BY <2>4, <2>6, <3>1
    <3> QED
      BY <1>1, <1>2, <1>3, <1>4, <2>1, <2>2, <2>6, <3>2 DEF l
  <2> QED
    BY <2>3, <2>5, <2>6
<1> QED
  BY <1>6, <1>7

\* What an erasure leaves, written whole or cut short.
LEMMA RenameIs ==
  ASSUME Shape, Rename \/ RenameShort
  PROVE  \E p \in writer.who :
         LET all == Forgetting(p, writer.copy.entries, made + 1) IN
         /\ p \in Person /\ writer.who = {p}
         /\ Rename => file' = all /\ ends' = TRUE
         /\ file' \in Seq(LineType) /\ ends' \in BOOLEAN
         /\ \A i \in DOMAIN file' : file'[i] = Torn \/ \E j \in DOMAIN all : file'[i] = all[j]
         /\ made' = made + 1 /\ made + 1 \in 0 .. MaxEvents
         /\ writer.op = "erase" /\ writer.at = "begin" /\ ~Refused
<1>1. writer.op = "erase" /\ writer.at = "begin" /\ made < MaxEvents /\ ~Refused /\ made' = made + 1
      /\ writer.who \in SUBSET Person /\ writer.copy.entries \in Seq(LineType)
  BY WriterFields DEF Rename, RenameShort
<1>2. made + 1 \in 0 .. MaxEvents
  BY <1>1, ConstantsAssumption DEF Shape
<1>3. \A p \in writer.who : p \in Person /\ writer.who = {p}
  BY <1>1 DEF Shape
<1>4. CASE Rename
  <2>1. PICK p \in writer.who : file' = Forgetting(p, writer.copy.entries, made + 1) /\ ends' = TRUE
    BY <1>4 DEF Rename
  <2>2. file' \in Seq(LineType)
    BY <1>2, <1>3, <2>1, ForgettingIs
  <2> QED
    BY <1>1, <1>2, <1>3, <2>1, <2>2
<1>5. CASE RenameShort
  <2>1. PICK p \in writer.who :
          \E n \in DOMAIN Forgetting(p, writer.copy.entries, made + 1) :
            \/ /\ file' = SubSeq(Forgetting(p, writer.copy.entries, made + 1), 1, n)
               /\ ends' \in BOOLEAN
            \/ /\ file' = Append(SubSeq(Forgetting(p, writer.copy.entries, made + 1), 1, n - 1), Torn)
               /\ ends' = FALSE
    BY <1>5 DEF RenameShort
  <2> DEFINE all == Forgetting(p, writer.copy.entries, made + 1)
  <2>2. all \in Seq(LineType)
    BY <1>2, <1>3, ForgettingIs
  <2>3. PICK n \in DOMAIN all :
          \/ file' = SubSeq(all, 1, n) /\ ends' \in BOOLEAN
          \/ file' = Append(SubSeq(all, 1, n - 1), Torn) /\ ends' = FALSE
    BY <2>1
  <2> HIDE DEF all
  <2>4. /\ n \in Nat /\ n >= 1 /\ n <= Len(all) /\ Len(all) \in Nat /\ DOMAIN all = 1 .. Len(all)
        /\ \A j \in 1 .. Len(all) : all[j] \in LineType
    BY <2>2, <2>3
  <2>5. ASSUME NEW k \in {n - 1, n}
        PROVE  /\ SubSeq(all, 1, k) \in Seq(LineType)
               /\ DOMAIN SubSeq(all, 1, k) = 1 .. k
               /\ \A i \in 1 .. k : SubSeq(all, 1, k)[i] = all[i] /\ i \in DOMAIN all
    BY <2>2, <2>4, <2>5
  <2>6. file' \in Seq(LineType)
        /\ \A i \in DOMAIN file' : file'[i] = Torn \/ \E j \in DOMAIN all : file'[i] = all[j]
    <3>1. CASE file' = SubSeq(all, 1, n)
      BY <2>5, <3>1
    <3>2. CASE file' = Append(SubSeq(all, 1, n - 1), Torn)
      <4>1. PICK k, part : k = n - 1 /\ part = SubSeq(all, 1, n - 1)
        OBVIOUS
      <4>2. part \in Seq(LineType) /\ DOMAIN part = 1 .. k
            /\ \A i \in 1 .. k : part[i] = all[i] /\ i \in DOMAIN all
        BY <2>5, <4>1
      <4>3. /\ file' \in Seq(LineType) /\ DOMAIN file' = DOMAIN part \cup {Len(part) + 1}
            /\ file'[Len(part) + 1] = Torn /\ \A i \in DOMAIN part : file'[i] = part[i]
        BY <3>2, <4>1, <4>2, TornIs, LastOfAppend
      <4> QED
        BY <4>2, <4>3
    <3> QED
      BY <2>3, <3>1, <3>2
  <2>7. ends' \in BOOLEAN
    BY <2>3
  <2>8. ~Rename
    <3>1. RenameShort => faults' = faults + 1
      BY DEF RenameShort
    <3>2. Rename => faults' = faults
      BY DEF Rename
    <3>3. faults \in Nat
      BY ConstantsAssumption DEF Shape
    <3> QED
      BY <1>5, <3>1, <3>2, <3>3
  <2> QED
    BY <1>1, <1>2, <1>3, <2>6, <2>7, <2>8 DEF all
<1> QED
  BY <1>4, <1>5

\* What a crash leaves of a line on its way.
LEMMA CrashIs ==
  ASSUME Shape, Crash
  PROVE  /\ file' \in Seq(LineType) /\ ends' \in BOOLEAN
         /\ file' # file =>
              /\ writer.at = "sync" /\ writer.op = "append" /\ file # <<>> /\ Last(file).hash = made
              /\ file' = Front(file) \/ file' = Append(Front(file), Torn)
<1>1. CASE ~(writer.op = "append" /\ writer.at = "sync")
  BY <1>1 DEF Crash, Shape
<1>2. CASE writer.op = "append" /\ writer.at = "sync"
  <2>1. Remains
    BY <1>2 DEF Crash
  <2>2. file \in Seq(LineType) /\ ends \in BOOLEAN /\ writer.copy.ends \in BOOLEAN
    BY WriterFields DEF Shape, CopyType
  <2>3. CASE file' = file /\ ends' \in {ends, FALSE}
    BY <2>2, <2>3
  <2>4. CASE /\ file # <<>> /\ Last(file).hash = made /\ ends' \in BOOLEAN
             /\ file' = Front(file) \/ file' = Append(Front(file), Torn)
    <3>1. Front(file) \in Seq(LineType)
      BY <2>2, <2>4, FrontIs
    <3>2. Append(Front(file), Torn) \in Seq(LineType)
      BY <3>1, TornIs, LastOfAppend
    <3> QED
      BY <1>2, <2>4, <3>1, <3>2
  <2> QED
    BY <2>1, <2>2, <2>3, <2>4 DEF Remains
<1> QED
  BY <1>1, <1>2

\* What is settled, and the copy it goes to.
LEMMA SettleIs ==
  ASSUME Shape, InSync, Settle
  PROVE  \E entries \in Done :
         LET new == Kept(writer.copy, entries) IN
         /\ writer.op = "append" => entries = Append(writer.copy.entries, Sent)
         /\ writer.op = "erase" =>
              \E p \in writer.who : p \in Person /\ writer.who = {p}
                                    /\ entries = Forgetting(p, writer.copy.entries, made)
         /\ entries \in Seq(LineType) /\ \A i \in DOMAIN entries : entries[i].whole
         /\ Readable(new) /\ new.has /\ new.entries = entries
         /\ writer.mine => mem' = new
         /\ ~writer.mine => mem' = mem
         /\ new = [has |-> TRUE, entries |-> entries, ends |-> TRUE, problems |-> writer.copy.problems]
<1>1. /\ writer.at = "sync" /\ writer.op \in {"append", "erase"} /\ writer.copy \in CopyType
      /\ writer.copy.has /\ writer.copy.entries \in Seq(LineType) /\ writer.who \in SUBSET Person
      /\ \A i \in DOMAIN writer.copy.entries : writer.copy.entries[i].whole
      /\ made \in 0 .. MaxEvents
  BY WriterFields DEF Settle, Shape, Readable
<1>2. PICK entries \in Done : mem' = IF writer.mine THEN Kept(writer.copy, entries) ELSE mem
  BY DEF Settle
<1>3. writer.op = "append" => entries = Append(writer.copy.entries, Sent)
  BY <1>2 DEF Done, Sent
<1>4. writer.op = "erase" =>
        \E p \in writer.who : p \in Person /\ writer.who = {p}
                              /\ entries = Forgetting(p, writer.copy.entries, made)
  BY <1>1, <1>2 DEF Done, Shape
<1>5. entries \in Seq(LineType) /\ \A i \in DOMAIN entries : entries[i].whole
  <2>1. CASE writer.op = "append"
    <3>1. Sent \in LineType /\ Sent.whole
      BY <1>1, LineIs DEF Sent
    <3> QED
      BY <1>1, <1>3, <2>1, <3>1, LastOfAppend
  <2>2. CASE writer.op = "erase"
    BY <1>1, <1>4, <2>2, ForgettingIs
  <2> QED
    BY <1>1, <2>1, <2>2
<1> DEFINE new == Kept(writer.copy, entries)
<1>6. new \in CopyType /\ new.has /\ new.entries = entries /\ new.ends
      /\ new.problems = writer.copy.problems
  BY <1>1, <1>5 DEF Kept, CopyType
<1> HIDE DEF new
<1>7. new = [has |-> TRUE, entries |-> entries, ends |-> TRUE, problems |-> writer.copy.problems]
  <2>1. new.has = TRUE /\ new.ends = TRUE
    BY <1>6 DEF CopyType
  <2> QED
    BY <1>6, <2>1 DEF CopyType
<1>8. Readable(new)
  BY <1>5, <1>6 DEF Readable
<1> QED
  BY <1>2, <1>3, <1>4, <1>5, <1>6, <1>7, <1>8 DEF new

-----------------------------------------------------------------------------
(* Every step keeps the shape.                                             *)

\* What went wrong before stays known.
LEMMA SpoiltGrows ==
  ASSUME Shape, Next
  PROVE  /\ spoilt \subseteq spoilt' /\ spoilt' \subseteq Marks /\ cut \subseteq cut'
         /\ "rewritten" \in spoilt' => "rewritten" \in spoilt \/ "race" \in spoilt
<1>1. spoilt \subseteq Marks
  BY DEF Shape
<1>2. Overlap \in {spoilt, spoilt \cup {"race"}}
  BY DEF Overlap
<1>3. ASSUME NEW r \in Readers, StartRead(r) \/ Verify(r) \/ ReadFile(r) \/ Loaded(r)
      PROVE  spoilt' \in {spoilt, spoilt \cup {"race"}} /\ cut' = cut
  BY <1>2, <1>3 DEF StartRead, Verify, ReadFile, Loaded
<1>4. ASSUME NEW op, NEW who, Begins(op, who)
      PROVE  spoilt' \in {spoilt, spoilt \cup {"race"}} /\ cut' = cut
  BY <1>2, <1>4 DEF Begins
<1>5. OwnLoaded \/ Write \/ WriteFails \/ Refuse \/ Settle \/ Crash => spoilt' = spoilt /\ cut' = cut
  BY DEF OwnLoaded, Write, WriteFails, Refuse, Settle, Crash
<1>6. CutShort => spoilt' = spoilt /\ cut' = cut \cup {made + 1}
  BY DEF CutShort
<1>7. SyncFails => spoilt' = spoilt \cup {"nosync"} /\ cut' = cut
  BY DEF SyncFails
<1>8. RenameShort => spoilt' = spoilt \cup {"halved"} /\ cut' = cut
  BY DEF RenameShort
<1>9. Rename => cut' = cut /\ spoilt' = IF "race" \in spoilt THEN spoilt \cup {"rewritten"} ELSE spoilt
  BY DEF Rename
<1> QED
  BY <1>1, <1>3, <1>4, <1>5, <1>6, <1>7, <1>8, <1>9 DEF Next, Marks

LEMMA ShapeStart ==
  ASSUME Shape, NEW r \in Readers, StartRead(r) \/ Verify(r)
  PROVE  Shape'
<1>1. Next
  BY DEF Next
<1>2. reading' = [q \in Readers |-> IF q = r THEN reading'[r] ELSE reading[q]]
      /\ reading'[r].at = "open" /\ reading'[r].copy = reading[r].copy /\ reading'[r] \in Reading
  BY ReadersIs
<1>3. /\ reading' \in [Readers -> Reading]
      /\ \A q \in Readers : Readable(reading'[q].copy) /\ (reading'[q].at = "read" => reading'[q].copy.has)
  BY <1>2 DEF Shape
<1>4. Readable(mem') /\ (~mem'.has => mem' = None)
  BY TypesOfCopies DEF Shape, StartRead, Verify
<1>5. UNCHANGED <<file, ends, writer, made, acked, forgotten, cut, faults>>
  BY DEF StartRead, Verify
<1> QED
  BY <1>1, <1>3, <1>4, <1>5, SpoiltGrows DEF Shape

LEMMA ShapeReadFile ==
  ASSUME Shape, NEW r \in Readers, ReadFile(r)
  PROVE  Shape'
<1>1. reading' = [q \in Readers |-> IF q = r THEN reading'[r] ELSE reading[q]]
      /\ reading'[r] = [at |-> "read", copy |-> Copy(file, ends)]
  BY ReadersIs
<1>2. Readable(Copy(file, ends)) /\ Copy(file, ends).has /\ Copy(file, ends) \in CopyType
  BY CopyIs DEF Shape
<1>3. reading'[r] \in Reading /\ reading'[r].copy = Copy(file, ends)
  BY <1>1, <1>2 DEF Reading
<1>4. /\ reading' \in [Readers -> Reading]
      /\ \A q \in Readers : Readable(reading'[q].copy) /\ (reading'[q].at = "read" => reading'[q].copy.has)
  BY <1>1, <1>2, <1>3 DEF Shape
<1> QED
  BY <1>4 DEF Shape, ReadFile

LEMMA ShapeLoaded ==
  ASSUME Shape, NEW r \in Readers, Loaded(r)
  PROVE  Shape'
<1>1. reading' = [q \in Readers |-> IF q = r THEN reading'[r] ELSE reading[q]] /\ reading'[r] = NotReading
  BY ReadersIs
<1>2. /\ reading' \in [Readers -> Reading]
      /\ \A q \in Readers : Readable(reading'[q].copy) /\ (reading'[q].at = "read" => reading'[q].copy.has)
  BY <1>1, TypesOfCopies DEF Shape
<1>3. Readable(mem') /\ mem'.has
  BY DEF Shape, Loaded
<1>4. /\ writer' \in Operation /\ writer'.op = writer.op /\ writer'.at = writer.at
      /\ writer'.who = writer.who /\ writer'.copy = writer.copy
  <2>1. Moves(writer.at, writer.at = "off") /\ (writer.at = "off") \in BOOLEAN
    BY MovesIs
  <2>2. PICK mine \in BOOLEAN : mine = (writer.at = "off")
    BY <2>1
  <2>3. Moves(writer.at, mine)
    BY <2>1, <2>2
  <2> QED
    BY <2>3, WriterFields DEF Moves, Operation
<1>5. UNCHANGED <<file, ends, made, acked, forgotten, spoilt, cut, faults>>
  BY DEF Loaded
<1> QED
  BY <1>2, <1>3, <1>4, <1>5 DEF Shape

LEMMA ShapeBegins ==
  ASSUME Shape, NEW op \in {"append", "erase"}, NEW who \in SUBSET Person, Begins(op, who),
         op = "erase" => \A p, q \in who : p = q,
         spoilt' \subseteq Marks
  PROVE  Shape'
<1>1. /\ writer' \in Operation /\ writer'.op = op /\ writer'.who = who
      /\ mem.has => writer'.copy = mem
      /\ ~mem.has => writer'.copy = Copy(file, ends)
  BY BeginsIs
<1>2. Readable(Copy(file, ends)) /\ Copy(file, ends).has
  BY CopyIs DEF Shape
<1>3. Readable(writer'.copy) /\ writer'.copy.has
  BY <1>1, <1>2 DEF Shape
<1>4. UNCHANGED <<file, ends, mem, reading, made, acked, forgotten, cut, faults>>
  BY DEF Begins
<1> QED
  BY <1>1, <1>3, <1>4 DEF Shape

LEMMA ShapeOwnLoaded ==
  ASSUME Shape, OwnLoaded
  PROVE  Shape'
<1>1. /\ writer' \in Operation /\ writer'.op = writer.op /\ writer'.at = "begin"
      /\ writer'.who = writer.who /\ writer'.copy = writer.copy
  <2>1. Moves("begin", TRUE)
    BY MovesIs
  <2> QED
    BY <2>1, WriterFields DEF Moves, Operation
<1>2. Readable(mem') /\ mem'.has /\ writer.op # "none" /\ writer.copy.has
  BY DEF Shape, OwnLoaded
<1>3. UNCHANGED <<file, ends, reading, made, acked, forgotten, spoilt, cut, faults>>
  BY DEF OwnLoaded
<1> QED
  BY <1>1, <1>2, <1>3 DEF Shape

LEMMA ShapeWrites ==
  ASSUME Shape, LineBreaks, Write \/ CutShort \/ Rename \/ RenameShort, spoilt' \subseteq Marks
  PROVE  Shape'
<1>1. /\ writer' \in Operation /\ Readable(writer'.copy)
      /\ writer'.at # "off" => writer'.op # "none" /\ writer'.copy.has
      /\ writer'.op = "erase" => \A p, q \in writer'.who : p = q
  <2>1. CASE writer' = Off
    BY <2>1, TypesOfCopies
  <2>2. CASE Moves("sync", writer.mine)
    <3>1. /\ writer' \in Operation /\ writer'.op = writer.op
          /\ writer'.who = writer.who /\ writer'.copy = writer.copy
      BY <2>2, WriterFields DEF Moves, Operation
    <3>2. writer.op # "none" /\ writer.copy.has /\ Readable(writer.copy)
      BY DEF Shape, Write, CutShort, Rename, RenameShort
    <3> QED
      BY <3>1, <3>2 DEF Shape
  <2> QED
    BY <2>1, <2>2, MovesIs
<1>2. /\ file' \in Seq(LineType) /\ ends' \in BOOLEAN /\ made' = made + 1 /\ made + 1 \in 0 .. MaxEvents
      /\ cut' \subseteq cut \cup {made + 1}
  <2>1. CASE Write \/ CutShort
    <3>1. PICK l : /\ l \in LineType
                   /\ \/ file' = Append(file, l)
                      \/ file' = file
                      \/ file' = Append(file, Torn)
                      \/ file # <<>> /\ file' = Append(Front(file), Torn)
                   /\ ends' \in BOOLEAN /\ made' = made + 1 /\ made + 1 \in 0 .. MaxEvents
                   /\ cut' \in {cut, cut \cup {made + 1}}
      BY <2>1, WritingIs
    <3>2. file \in Seq(LineType)
      BY DEF Shape
    <3>3. file # <<>> => Front(file) \in Seq(LineType)
      BY <3>2, FrontIs
    <3>4. file' \in Seq(LineType)
      BY <3>1, <3>2, <3>3, LastOfAppend, TornIs
    <3>5. cut' \subseteq cut \cup {made + 1}
      BY <3>1
    <3> QED
      BY <3>1, <3>4, <3>5, Zenon
  <2>2. CASE Rename \/ RenameShort
    <3>1. cut' = cut
      BY <2>2 DEF Rename, RenameShort
    <3> QED
      BY <2>2, <3>1, RenameIs
  <2> QED
    BY <2>1, <2>2
<1>3. MaxEvents \in Nat /\ made \in Nat
  BY ConstantsAssumption DEF Shape
<1>4. made' \in 0 .. MaxEvents /\ 1 .. made \subseteq 1 .. made' /\ 0 .. made \subseteq 0 .. made'
      /\ made + 1 \in 1 .. made'
  BY <1>2, <1>3
<1>5. UNCHANGED <<mem, reading, acked, forgotten>>
  BY DEF Write, CutShort, Rename, RenameShort
<1>6. acked' \subseteq 1 .. made' /\ forgotten' \in [Person -> 0 .. made'] /\ cut' \subseteq 1 .. made'
  BY <1>2, <1>4, <1>5 DEF Shape
<1>7. faults' \in 0 .. MaxFaults
  <2>1. faults \in Nat /\ MaxFaults \in Nat /\ faults \in 0 .. MaxFaults
    BY ConstantsAssumption DEF Shape
  <2>2. faults' = faults \/ (faults < MaxFaults /\ faults' = faults + 1)
    BY Zenon DEF Write, CutShort, Rename, RenameShort
  <2> QED
    BY <2>1, <2>2
<1> QED
  BY <1>1, <1>2, <1>4, <1>5, <1>6, <1>7 DEF Shape

LEMMA ShapeOff ==
  ASSUME Shape, InSync, WriteFails \/ Refuse \/ Settle \/ SyncFails \/ Crash,
         spoilt' \subseteq Marks
  PROVE  Shape'
<1>1. writer' = Off
  BY DEF WriteFails, Refuse, Settle, SyncFails, Crash
<1>2. writer' \in Operation /\ Readable(writer'.copy) /\ writer'.at = "off" /\ writer'.op # "erase"
  BY <1>1, TypesOfCopies
<1>3. file' \in Seq(LineType) /\ ends' \in BOOLEAN
  <2>1. CASE Crash
    BY <2>1, CrashIs
  <2>2. CASE WriteFails \/ Refuse \/ Settle \/ SyncFails
    BY <2>2 DEF WriteFails, Refuse, Settle, SyncFails, Shape
  <2> QED
    BY <2>1, <2>2
<1>4. Readable(mem') /\ (~mem'.has => mem' = None)
  <2>1. CASE Settle
    BY <2>1, SettleIs DEF Shape, Operation
  <2>2. CASE WriteFails \/ Refuse \/ SyncFails \/ Crash
    BY <2>2, TypesOfCopies DEF WriteFails, Refuse, SyncFails, Crash, Shape
  <2> QED
    BY <2>1, <2>2
<1>5. /\ reading' \in [Readers -> Reading]
      /\ \A r \in Readers : Readable(reading'[r].copy) /\ (reading'[r].at = "read" => reading'[r].copy.has)
  <2>1. CASE Crash
    BY <2>1, TypesOfCopies DEF Crash
  <2>2. CASE WriteFails \/ Refuse \/ Settle \/ SyncFails
    BY <2>2 DEF WriteFails, Refuse, Settle, SyncFails, Shape
  <2> QED
    BY <2>1, <2>2
<1>6. made' = made /\ made \in Nat
  BY ConstantsAssumption DEF WriteFails, Refuse, Settle, SyncFails, Crash, Shape
<1>7. acked' \subseteq 1 .. made'
  <2>1. CASE Settle
    <3>1. 0 <= made /\ acked' = acked \cup {made} /\ acked \subseteq 1 .. made /\ made # 0
      BY <1>6, <2>1 DEF Settle, Shape, InSync
    <3> QED
      BY <1>6, <3>1
  <2>2. CASE WriteFails \/ Refuse \/ SyncFails \/ Crash
    BY <1>6, <2>2 DEF WriteFails, Refuse, SyncFails, Crash, Shape
  <2> QED
    BY <2>1, <2>2
<1>8. forgotten' \in [Person -> 0 .. made']
  <2>1. CASE Settle
    <3>1. forgotten' = [p \in Person |-> IF writer.op = "erase" /\ p \in writer.who
                                         THEN made ELSE forgotten[p]]
      BY <2>1 DEF Settle
    <3>2. made \in 0 .. made' /\ \A p \in Person : forgotten[p] \in 0 .. made'
      BY <1>6 DEF Shape
    <3> QED
      BY <3>1, <3>2
  <2>2. CASE WriteFails \/ Refuse \/ SyncFails \/ Crash
    BY <1>6, <2>2 DEF WriteFails, Refuse, SyncFails, Crash, Shape
  <2> QED
    BY <2>1, <2>2
<1>9. faults' \in 0 .. MaxFaults
  <2>1. faults \in Nat /\ MaxFaults \in Nat /\ faults \in 0 .. MaxFaults
    BY ConstantsAssumption DEF Shape
  <2>2. CASE WriteFails \/ SyncFails \/ Crash
    BY <2>1, <2>2 DEF WriteFails, SyncFails, Crash
  <2>3. CASE Refuse \/ Settle
    BY <2>1, <2>3 DEF Refuse, Settle
  <2> QED
    BY <2>2, <2>3
<1>10. made' \in 0 .. MaxEvents /\ cut' \subseteq 1 .. made'
  <2>1. cut' = cut
    BY DEF WriteFails, Refuse, Settle, SyncFails, Crash
  <2> QED
    BY <1>6, <2>1 DEF Shape
<1> QED
  BY <1>2, <1>3, <1>4, <1>5, <1>7, <1>8, <1>9, <1>10 DEF Shape

LEMMA ShapeStep ==
  ASSUME Shape, InSync, LineBreaks, Next
  PROVE  Shape'
<1>1. spoilt' \subseteq Marks
  BY SpoiltGrows
<1>2. ASSUME NEW r \in Readers, StartRead(r) \/ Verify(r) \/ ReadFile(r) \/ Loaded(r)
      PROVE  Shape'
  BY <1>2, ShapeStart, ShapeReadFile, ShapeLoaded
<1>3. ASSUME NEW who \in SUBSET Person, Begins("append", who)
      PROVE  Shape'
  <2>1. PICK op \in {"append", "erase"} : op = "append"
    OBVIOUS
  <2> QED
    BY <1>1, <1>3, <2>1, ShapeBegins
<1>4. ASSUME NEW p \in Person, Begins("erase", {p})
      PROVE  Shape'
  <2>1. PICK op \in {"append", "erase"} : op = "erase"
    OBVIOUS
  <2>2. PICK who \in SUBSET Person : who = {p}
    OBVIOUS
  <2> QED
    BY <1>1, <1>4, <2>1, <2>2, ShapeBegins
<1> QED
  BY <1>1, <1>2, <1>3, <1>4, ShapeOwnLoaded, ShapeWrites, ShapeOff DEF Next

LEMMA NoRewriteStep ==
  ASSUME Shape, NoRewrite, Next
  PROVE  NoRewrite'
BY SpoiltGrows DEF NoRewrite

-----------------------------------------------------------------------------
(* Steps that write no line.                                               *)

\* a copy comes from the file as it is, nothing else changes what holds
QuietStep ==
  /\ UNCHANGED <<file, ends, made, acked, forgotten, cut>>
  /\ Copies' \subseteq Copies \cup {Copy(file, ends)}
  /\ writer'.at = "sync" <=> writer.at = "sync"
  /\ writer.at = "sync" => writer'.op = writer.op /\ writer'.who = writer.who /\ writer'.copy = writer.copy

LEMMA Quiet ==
  ASSUME Shape, NoRewrite, OnDisk, QuietStep, Next
  PROVE  OnDisk'
<1>0. spoilt \subseteq spoilt' /\ ("rewritten" \in spoilt' => "rewritten" \in spoilt \/ "race" \in spoilt)
  BY SpoiltGrows
<1>1. file \in Seq(LineType) /\ ends \in BOOLEAN
  BY DEF Shape
<1>2. /\ Recorded' = Recorded /\ Silent(file)' = Silent(file) /\ Copy(file, ends)' = Copy(file, ends)
      /\ Whole(file)' = Whole(file) /\ Exposed' = Exposed
      /\ \A c : Silent(c)' = Silent(c)
  BY DEF QuietStep, Recorded, Silent, Copy, Whole, Exposed
<1>3. writer.at = "sync" => Sent' = Sent
  BY DEF QuietStep, Sent, Line
<1>4. InSync'
  BY <1>0, <1>2, <1>3 DEF OnDisk, InSync, QuietStep
<1>5. Copy(file, ends).ends = ends /\ Copy(file, ends).entries = Whole(file)
  BY <1>1, CopyIs
<1>6. LineBreaks'
  <2>1. Glued' = Glued
    BY DEF Glued, QuietStep
  <2> QED
    BY <1>0, <1>5, <2>1 DEF OnDisk, LineBreaks, QuietStep
<1>7. Numbered'
  <2>1. \A i \in DOMAIN Whole(file) : Whole(file)[i].hash <= made
    BY <1>1, WholeIs DEF OnDisk, Numbered
  <2> QED
    BY <1>5, <2>1 DEF OnDisk, Numbered, QuietStep
<1>8. NoNames'
  BY <1>0, <1>2 DEF OnDisk, NoNames
<1>9. Erased'
  <2> SUFFICES ASSUME writer'.at = "sync", writer'.op = "erase" PROVE Erased'
    BY DEF Erased
  <2>1. writer.at = "sync" /\ writer.op = "erase" /\ writer'.who = writer.who /\ writer'.copy = writer.copy
    BY DEF QuietStep
  <2>2. \A p, es : Forgetting(p, es, made)' = Forgetting(p, es, made)
    BY DEF Forgetting, Scrub, Line, QuietStep
  <2> QED
    BY <1>0, <2>1, <2>2 DEF OnDisk, Erased, Refused, QuietStep
<1>10. Chain'
  BY <1>0, <1>2 DEF OnDisk, Chain, Linked
<1>11. Truth'
  <2> SUFFICES ASSUME spoilt' = {} PROVE Truth'
    BY DEF Truth
  <2>1. spoilt = {}
    BY <1>0
  <2>2. \A lines : Known(lines)' = Known(lines) /\ Linked(lines)' = Linked(lines)
    BY <1>2 DEF Known, Linked
  <2>3. Linked(Whole(file)) /\ Agrees(Copy(file, ends))
    BY <1>5, <2>1 DEF OnDisk, Chain, Agrees
  <2>4. ASSUME NEW c \in Copies'
        PROVE  Linked(c.entries)'
    <3>1. Linked(c.entries)
      BY <1>5, <2>1, <2>3 DEF OnDisk, Truth, QuietStep
    <3> QED
      BY <3>1, <2>2
  <2>5. ASSUME writer'.at # "sync", NEW c \in Copies'
        PROVE  Agrees(c)'
    <3>1. Agrees(c)
      BY <2>1, <2>3, <2>5 DEF OnDisk, Truth, QuietStep
    <3>2. Agrees(c)' <=> Agrees(c)
      <4>1. cut' = cut /\ made' = made
        BY DEF QuietStep
      <4>2. Known(c.entries)' = Known(c.entries) /\ Known(Whole(file))' = Known(Whole(file))
        BY <1>2 DEF Known
      <4> QED
        BY <1>2, <4>1, <4>2 DEF Agrees
    <3> QED
      BY <3>1, <3>2
  <2>6. ASSUME writer'.at = "sync", writer'.op = "append"
        PROVE  /\ Known(Whole(file))' = Known(Append(writer.copy.entries, Sent))'
               /\ made' \notin Exposed' => Tip(Whole(file))' = made'
    <3>1. writer.at = "sync" /\ writer.op = "append" /\ writer'.copy = writer.copy /\ made' = made
      BY <2>6 DEF QuietStep
    <3>2. Known(Append(writer.copy.entries, Sent))' = Known(Append(writer.copy.entries, Sent))
      BY <1>2, <1>3, <3>1 DEF Known
    <3>3. Known(Whole(file))' = Known(Whole(file)) /\ Tip(Whole(file))' = Tip(Whole(file))
      BY <1>2 DEF Known, Tip
    <3> QED
      BY <1>2, <2>1, <3>1, <3>2, <3>3 DEF OnDisk, Truth
  <2> QED
    BY <2>4, <2>5, <2>6 DEF Truth
<1>12. Exact'
  <2> SUFFICES ASSUME spoilt' = {}, cut' = {} PROVE Exact'
    BY DEF Exact
  <2>1. spoilt = {} /\ cut = {}
    BY <1>0 DEF QuietStep
  <2>2. ASSUME writer'.at # "sync", NEW c \in Copies'
        PROVE  c = Copy(file, ends)'
    BY <1>2, <2>1, <2>2 DEF OnDisk, Exact, QuietStep
  <2>3. ASSUME writer'.at = "sync", writer'.op = "append"
        PROVE  /\ Whole(file)' = Append(writer.copy.entries, Sent)'
               /\ writer'.copy.problems = Broken(file)'
    <3>1. writer.at = "sync" /\ writer.op = "append" /\ writer'.copy = writer.copy
          /\ Broken(file)' = Broken(file)
      BY <2>3 DEF QuietStep, Broken
    <3> QED
      BY <1>2, <1>3, <2>1, <3>1 DEF OnDisk, Exact
  <2> QED
    BY <2>2, <2>3 DEF Exact
<1>13. ASSUME "race" \notin spoilt'
       PROVE  \A c \in Copies' : /\ "halved" \notin spoilt' => acked' \subseteq Hashes(c.entries) \cup Exposed'
                                 /\ Silent(c.entries)'
  <2>1. "race" \notin spoilt /\ "rewritten" \notin spoilt /\ ("halved" \in spoilt => "halved" \in spoilt')
    BY <1>0, <1>13 DEF NoRewrite
  <2>2. /\ "halved" \notin spoilt => acked \subseteq Hashes(Whole(file)) \cup Exposed
        /\ Silent(Whole(file))
    BY <1>1, <2>1, RecordedIs, SilentWhole DEF OnDisk, AckedOnDisk, NoNames
  <2>3. \A c \in Copies \cup {Copy(file, ends)} :
          /\ "halved" \notin spoilt => acked \subseteq Hashes(c.entries) \cup Exposed
          /\ Silent(c.entries)
    BY <1>5, <2>1, <2>2 DEF OnDisk, Held
  <2> QED
    BY <1>2, <2>1, <2>3 DEF QuietStep
<1>14. Held'
  BY <1>13 DEF Held, Hashes, Silent
<1>15. AckedOnDisk'
  BY <1>0, <1>2 DEF OnDisk, AckedOnDisk, QuietStep
<1> QED
  BY <1>4, <1>6, <1>7, <1>8, <1>9, <1>10, <1>11, <1>12, <1>14, <1>15 DEF OnDisk

LEMMA ReadersQuiet ==
  ASSUME Shape, NEW r \in Readers, StartRead(r) \/ Verify(r) \/ ReadFile(r) \/ Loaded(r)
  PROVE  QuietStep
<1>1. reading' = [q \in Readers |-> IF q = r THEN reading'[r] ELSE reading[q]]
  BY ReadersIs
<1>2. CASE StartRead(r) \/ Verify(r)
  <2>1. reading'[r].at = "open" /\ (mem'.has => mem' = mem) /\ writer' = writer
    BY <1>2, ReadersIs, TypesOfCopies DEF StartRead, Verify
  <2>2. Copies' \subseteq Copies
    BY <1>1, <2>1 DEF Copies
  <2> QED
    BY <1>2, <2>1, <2>2 DEF QuietStep, StartRead, Verify
<1>3. CASE ReadFile(r)
  <2>1. reading'[r].copy = Copy(file, ends) /\ mem' = mem /\ writer' = writer
    BY <1>3, ReadersIs DEF ReadFile
  <2>2. Copies' \subseteq Copies \cup {Copy(file, ends)}
    BY <1>1, <2>1 DEF Copies
  <2> QED
    BY <1>3, <2>1, <2>2 DEF QuietStep, ReadFile
<1>4. CASE Loaded(r)
  <2>1. /\ reading'[r].at = "off" /\ reading[r].at = "read" /\ mem' = reading[r].copy
        /\ writer'.at = writer.at /\ writer'.copy = writer.copy /\ writer'.op = writer.op
        /\ writer'.who = writer.who
    BY <1>4, ReadersIs, MovesIs, TypesOfCopies DEF Loaded, Moves
  <2>2. Copies' \subseteq Copies
    BY <1>1, <2>1 DEF Copies
  <2> QED
    BY <1>4, <2>1, <2>2 DEF QuietStep, Loaded
<1> QED
  BY <1>2, <1>3, <1>4

LEMMA BeginsQuiet ==
  ASSUME Shape, NEW op \in {"append", "erase"}, NEW who \in SUBSET Person, Begins(op, who)
  PROVE  QuietStep
<1>1. /\ mem.has => writer'.at = "begin" /\ writer'.copy = mem
      /\ ~mem.has => writer'.at = "read" /\ writer'.copy = Copy(file, ends)
  BY BeginsIs
<1>2. UNCHANGED <<file, ends, mem, reading, made, acked, forgotten, cut>> /\ writer.at = "off"
  BY DEF Begins
<1>3. Copies' \subseteq Copies \cup {Copy(file, ends)}
  BY <1>1, <1>2 DEF Copies
<1> QED
  BY <1>1, <1>2, <1>3 DEF QuietStep

LEMMA OthersQuiet ==
  ASSUME Shape, OwnLoaded \/ Refuse \/ WriteFails
  PROVE  QuietStep
<1>1. CASE OwnLoaded
  <2>1. /\ writer'.at = "begin" /\ writer'.copy = writer.copy /\ writer.at = "read"
        /\ mem' = writer.copy /\ reading' = reading
    BY <1>1, MovesIs DEF OwnLoaded, Moves
  <2>2. Copies' \subseteq Copies
    BY <2>1 DEF Copies
  <2> QED
    BY <1>1, <2>1, <2>2 DEF QuietStep, OwnLoaded
<1>2. CASE Refuse \/ WriteFails
  <2>1. writer'.at = "off" /\ writer.at = "begin" /\ mem' = mem /\ reading' = reading
    BY <1>2, TypesOfCopies DEF Refuse, WriteFails
  <2>2. Copies' \subseteq Copies
    BY <2>1 DEF Copies
  <2> QED
    BY <1>2, <2>1, <2>2 DEF QuietStep, Refuse, WriteFails
<1> QED
  BY <1>1, <1>2

-----------------------------------------------------------------------------
(* Whose turn it is.                                                       *)

LEMMA TurnsOfReaders ==
  ASSUME Shape, Turns, NEW r \in Readers, StartRead(r) \/ Verify(r) \/ ReadFile(r) \/ Loaded(r)
  PROVE  Turns'
<1> SUFFICES ASSUME "race" \notin spoilt' PROVE Turns'
  BY DEF Turns
<1>1. reading' = [q \in Readers |-> IF q = r THEN reading'[r] ELSE reading[q]]
  BY ReadersIs
<1>2. CASE StartRead(r) \/ Verify(r)
  <2>1. ~InFlight /\ spoilt' = spoilt
    BY <1>2 DEF StartRead, Verify, Overlap
  <2>2. \A q \in Readers : reading[q].at = "off"
    BY <2>1 DEF InFlight
  <2>3. writer.at = "off" /\ writer' = writer
    <3>1. CASE Verify(r)
      BY <3>1 DEF Verify
    <3>2. CASE StartRead(r)
      <4>1. ~mem.has /\ writer.at # "read" /\ "race" \notin spoilt
        BY <2>1, <3>2 DEF StartRead, InFlight
      <4>2. writer.at \notin {"begin", "sync"}
        BY <4>1 DEF Turns, Shape
      <4> QED
        BY <3>2, <4>1, <4>2, WriterFields DEF StartRead
    <3> QED
      BY <1>2, <3>1, <3>2
  <2>4. ~mem'.has
    BY <1>2, TypesOfCopies DEF StartRead, Verify
  <2> QED
    BY <1>1, <2>2, <2>3, <2>4 DEF Turns
<1>3. CASE ReadFile(r)
  <2>1. reading[r].at # "off" /\ UNCHANGED <<mem, writer, spoilt>>
    BY <1>3 DEF ReadFile
  <2> QED
    BY <1>1, <2>1 DEF Turns
<1>4. CASE Loaded(r)
  <2>1. reading'[r].at = "off" /\ reading[r].at # "off" /\ spoilt' = spoilt
    BY <1>4, ReadersIs, TypesOfCopies DEF Loaded
  <2>2. writer.at = "off" /\ \A q \in Readers \ {r} : reading[q].at = "off"
    BY <2>1 DEF Turns
  <2>3. writer'.at = "off"
    BY <1>4, <2>2, MovesIs DEF Moves
  <2> QED
    BY <1>1, <2>1, <2>2, <2>3 DEF Turns
<1> QED
  BY <1>2, <1>3, <1>4

LEMMA TurnsOfBegins ==
  ASSUME Shape, Turns, NEW op \in {"append", "erase"}, NEW who \in SUBSET Person, Begins(op, who)
  PROVE  Turns'
<1> SUFFICES ASSUME "race" \notin spoilt' PROVE Turns'
  BY DEF Turns
<1>1. /\ writer'.mine /\ mem' = mem /\ reading' = reading
      /\ mem.has => writer'.at = "begin" /\ writer'.copy = mem /\ spoilt' = spoilt
      /\ ~mem.has => writer'.at = "read" /\ spoilt' = Overlap
  BY BeginsIs DEF Begins
<1>2. \A r \in Readers : reading[r].at = "off"
  <2>1. CASE mem.has
    BY <1>1, <2>1 DEF Turns
  <2>2. CASE ~mem.has
    BY <1>1, <2>2 DEF Overlap, InFlight
  <2> QED
    BY <2>1, <2>2
<1> QED
  BY <1>1, <1>2 DEF Turns

LEMMA TurnsOfOthers ==
  ASSUME Shape, Turns,
         \/ OwnLoaded \/ Write \/ CutShort \/ WriteFails \/ Refuse \/ Rename \/ RenameShort
         \/ Settle \/ SyncFails \/ Crash
  PROVE  Turns'
<1> SUFFICES ASSUME "race" \notin spoilt' PROVE Turns'
  BY DEF Turns
<1>1. "race" \notin spoilt
  <2>1. spoilt \subseteq spoilt'
    BY SpoiltGrows DEF Next
  <2> QED
    BY <2>1
<1>2. CASE OwnLoaded
  <2>1. /\ writer.at = "read" /\ writer'.at = "begin" /\ mem' = writer'.copy /\ writer'.mine
        /\ reading' = reading
    BY <1>2, MovesIs DEF OwnLoaded, Moves
  <2> QED
    BY <1>1, <2>1 DEF Turns
<1>3. CASE (Write \/ CutShort \/ Rename \/ RenameShort) /\ Moves("sync", writer.mine)
  <2>1. /\ writer.at = "begin" /\ writer'.at = "sync" /\ writer'.copy = writer.copy
        /\ writer'.mine = writer.mine /\ mem' = mem /\ reading' = reading
    BY <1>3 DEF Write, CutShort, Rename, RenameShort, Moves
  <2> QED
    BY <1>1, <2>1 DEF Turns
<1>4. CASE WriteFails \/ Refuse \/ Settle \/ SyncFails \/ (CutShort /\ writer' = Off)
  <2>1. writer.at \in {"begin", "sync"} /\ writer'.at = "off" /\ reading' = reading
    BY <1>4, TypesOfCopies DEF WriteFails, Refuse, Settle, SyncFails, CutShort
  <2>2. \A r \in Readers : reading[r].at = "off"
    BY <1>1, <2>1 DEF Turns
  <2> QED
    BY <2>1, <2>2 DEF Turns
<1>5. CASE Crash
  <2>1. writer'.at = "off" /\ \A r \in Readers : reading'[r].at = "off"
    BY <1>5, TypesOfCopies DEF Crash
  <2> QED
    BY <2>1 DEF Turns
<1> QED
  BY MovesIs, <1>2, <1>3, <1>4, <1>5

-----------------------------------------------------------------------------
(* Steps that change the file or what is known of it.                      *)

LEMMA CopiesAre ==
  ASSUME Shape, NEW c \in Copies
  PROVE  Readable(c) /\ c \in CopyType /\ c.entries \in Seq(LineType)
<1>1. Readable(c)
  BY DEF Copies, Shape
<1> QED
  BY <1>1 DEF Readable, CopyType

\* Every line has a number that was given.
LEMMA NumbersAre ==
  ASSUME Shape, Numbered
  PROVE  /\ \A i \in DOMAIN file : file[i].hash \in Nat /\ file[i].hash <= made
         /\ \A c \in Copies : \A i \in DOMAIN c.entries :
              c.entries[i].hash \in Nat /\ c.entries[i].hash <= made
<1>1. ASSUME NEW lines \in Seq(LineType), NEW i \in DOMAIN lines
      PROVE  lines[i].hash \in Nat
  <2>1. lines[i] \in LineType
    BY <1>1
  <2>2. lines[i].hash \in 0 .. MaxEvents
    BY <2>1 DEF LineType
  <2> QED
    BY <2>2, ConstantsAssumption
<1>2. file \in Seq(LineType) /\ \A c \in Copies : c.entries \in Seq(LineType)
  BY CopiesAre DEF Shape
<1> QED
  BY <1>1, <1>2 DEF Numbered

\* Only the file may change while a copy is at work on it.
LEMMA WritesCopies ==
  ASSUME Shape, Write \/ CutShort \/ Rename \/ RenameShort
  PROVE  /\ Copies' \subseteq Copies /\ writer.copy \in Copies /\ writer.at = "begin"
         /\ writer'.at \in {"sync", "off"}
         /\ writer'.at = "sync" => /\ writer'.op = writer.op /\ writer'.who = writer.who
                                   /\ writer'.copy = writer.copy
<1>1. writer.at = "begin" /\ mem' = mem /\ reading' = reading
  BY DEF Write, CutShort, Rename, RenameShort
<1>2. CASE writer' = Off
  <2>1. writer'.at = "off"
    BY <1>2, TypesOfCopies
  <2> QED
    BY <1>1, <2>1 DEF Copies
<1>3. CASE Moves("sync", writer.mine)
  <2>1. /\ writer'.at = "sync" /\ writer'.op = writer.op
        /\ writer'.who = writer.who /\ writer'.copy = writer.copy
    BY <1>3 DEF Moves
  <2> QED
    BY <1>1, <2>1 DEF Copies
<1> QED
  BY <1>2, <1>3, MovesIs

\* A line was written behind the old ones, whole or cut short; E were exposed, F are.
Written(old, new, l, E, F, n) ==
  /\ old \in Seq(LineType) /\ n \in Nat /\ l \in LineType /\ l.whole /\ l.hash = n + 1
  /\ \A i \in DOMAIN old : old[i].hash \in Nat /\ old[i].hash <= n
  /\ E \subseteq F /\ F \subseteq E \cup {n + 1, n + 2}
  /\ n + 1 \notin F => new = Append(old, l)
  /\ \/ new = Append(old, l)
     \/ new = old
     \/ new = Append(old, Torn)
     \/ old # <<>> /\ new = Append(Front(old), Torn) /\ (~Last(old).whole \/ Last(old).hash \in E)

LEMMA WrittenIs ==
  ASSUME NEW old, NEW new, NEW l, NEW E, NEW F, NEW n, Written(old, new, l, E, F, n)
  PROVE  /\ KnownBut(Whole(new), F) = KnownBut(Whole(old), E) \cup (IF n + 1 \in F THEN {} ELSE {l})
         /\ \/ Whole(new) = Append(Whole(old), l)
            \/ Whole(new) = Whole(old)
            \/ \E last \in LineType : /\ Whole(new) \in Seq(LineType)
                                      /\ Whole(old) = Append(Whole(new), last) /\ last.hash \in E
<1>0. /\ old \in Seq(LineType) /\ n \in Nat /\ l \in LineType /\ l.whole /\ l.hash = n + 1
      /\ \A i \in DOMAIN old : old[i].hash \in Nat /\ old[i].hash <= n
      /\ E \subseteq F /\ F \subseteq E \cup {n + 1, n + 2}
      /\ n + 1 \notin F => new = Append(old, l)
  BY DEF Written
<1>1. Whole(old) \in Seq(LineType)
  BY <1>0, WholeIs
<1>2. \A i \in DOMAIN Whole(old) : Whole(old)[i].hash \in Nat /\ Whole(old)[i].hash <= n
  BY <1>0, WholeIs
<1>3. KnownBut(Whole(old), F) = KnownBut(Whole(old), E)
  BY <1>0, <1>2, KnownSame
<1>4. CASE new = Append(old, l)
  <2>1. Whole(new) = Append(Whole(old), l)
    BY <1>0, <1>4, WholeAppend
  <2>2. KnownBut(Whole(new), F) = KnownBut(Whole(old), F) \cup (IF n + 1 \in F THEN {} ELSE {l})
    BY <1>0, <1>1, <2>1, KnownAppend
  <2> QED
    BY <1>3, <2>1, <2>2
<1>5. CASE new = old \/ new = Append(old, Torn)
  <2>1. Whole(new) = Whole(old)
    BY <1>0, <1>5, TornIs, WholeAppend
  <2>2. n + 1 \in F \/ new = Append(old, l)
    BY <1>0
  <2>3. CASE n + 1 \in F
    BY <1>3, <2>1, <2>3
  <2> QED
    BY <1>4, <2>2, <2>3
<1>6. CASE old # <<>> /\ new = Append(Front(old), Torn) /\ (~Last(old).whole \/ Last(old).hash \in E)
  <2> DEFINE front == Front(old)
             last == Last(old)
  <2>1. front \in Seq(LineType) /\ last \in LineType /\ old = Append(front, last)
    BY <1>0, <1>6, FrontIs
  <2> HIDE DEF front, last
  <2>2. Whole(front) \in Seq(LineType)
    BY <2>1, WholeIs
  <2>3. Whole(new) = Whole(front)
    BY <1>6, <2>1, TornIs, WholeAppend DEF front
  <2>4. Whole(old) = IF last.whole THEN Append(Whole(front), last) ELSE Whole(front)
    BY <2>1, WholeAppend
  <2>5. last.whole => last.hash \in E
    BY <1>6 DEF last
  <2>6. KnownBut(Whole(old), F) = KnownBut(Whole(front), F)
    <3>1. CASE last.whole
      <4>1. Whole(old) = Append(Whole(front), last) /\ last.hash \in F
        BY <1>0, <2>4, <2>5, <3>1
      <4>2. KnownBut(Append(Whole(front), last), F) = KnownBut(Whole(front), F) \cup {}
        BY <2>1, <2>2, <4>1, KnownAppend
      <4> QED
        BY <4>1, <4>2
    <3>2. CASE ~last.whole
      BY <2>4, <3>2
    <3> QED
      BY <3>1, <3>2
  <2>7. \/ Whole(new) = Whole(old)
        \/ \E e \in LineType : /\ Whole(new) \in Seq(LineType)
                               /\ Whole(old) = Append(Whole(new), e) /\ e.hash \in E
    BY <2>1, <2>2, <2>3, <2>4, <2>5
  <2>8. CASE n + 1 \in F
    BY <1>3, <2>3, <2>6, <2>7, <2>8
  <2> QED
    BY <1>0, <1>4, <2>8
<1> QED
  BY <1>4, <1>5, <1>6, Zenon DEF Written

LEMMA WritingKeeps ==
  ASSUME Shape, OnDisk, Write \/ CutShort
  PROVE  OnDisk'
<1>1. /\ Copies' \subseteq Copies /\ writer.copy \in Copies /\ writer.at = "begin"
      /\ writer'.at \in {"sync", "off"}
      /\ writer'.at = "sync" => /\ writer'.op = writer.op /\ writer'.who = writer.who
                                /\ writer'.copy = writer.copy
  BY WritesCopies
<1> DEFINE es == writer.copy.entries
<1>2. PICK l :
         /\ l = Line(es, writer.who, made + 1)
         /\ l \in LineType /\ l.whole /\ l.hash = made + 1 /\ l.who = writer.who
         /\ l.prev = Tip(es)
         /\ \/ file' = Append(file, l)
            \/ file' = file
            \/ file' = Append(file, Torn)
            \/ file # <<>> /\ file' = Append(Front(file), Torn) /\ ("halved" \notin spoilt => Glued)
         /\ made + 1 \notin Exposed' /\ "halved" \notin spoilt => file' = Append(file, l) /\ ends'
         /\ ends' \in BOOLEAN /\ (~ends' => Glued')
         /\ made' = made + 1 /\ made + 1 \in 0 .. MaxEvents
         /\ cut' \in {cut, cut \cup {made + 1}}
         /\ writer.op = "append" /\ writer.at = "begin"
         /\ \/ Moves("sync", writer.mine)
            \/ writer' = Off /\ made + 1 \in cut'
         /\ UNCHANGED <<mem, reading, acked, forgotten, spoilt>>
  BY WritingIs DEF OnDisk
<1>3. /\ file \in Seq(LineType) /\ made \in Nat /\ acked \subseteq 1 .. made /\ writer.who \subseteq Person
      /\ es \in Seq(LineType) /\ cut \subseteq 1 .. made
      /\ \A p \in Person : forgotten[p] \in 0 .. made
  BY ConstantsAssumption, WriterFields DEF Shape
<1> HIDE DEF es
<1>4. /\ Exposed \subseteq Exposed' /\ Exposed' \subseteq Exposed \cup {made + 1, made + 2}
      /\ cut \subseteq cut' /\ cut \subseteq Exposed
  BY <1>2, <1>3 DEF Exposed
<1>5. writer'.at = "sync" => Sent' = l
  BY <1>1, <1>2 DEF Sent, Line, es
\* every line of the file now is one of before, the new one, or torn
<1>6. \A i \in DOMAIN file' : \/ i \in DOMAIN file /\ file'[i] = file[i]
                              \/ file'[i] = l
                              \/ file'[i] = Torn
  <2>1. CASE file' = file
    BY <2>1
  <2>2. CASE file' = Append(file, l)
    BY <1>2, <1>3, <2>2, LastOfAppend
  <2>3. CASE file' = Append(file, Torn)
    BY <1>3, <2>3, LastOfAppend, TornIs
  <2>4. CASE file # <<>> /\ file' = Append(Front(file), Torn)
    <3> DEFINE front == Front(file)
    <3>1. /\ front \in Seq(LineType) /\ DOMAIN front = 1 .. (Len(file) - 1) /\ Len(file) \in Nat
          /\ \A i \in 1 .. (Len(file) - 1) : front[i] = file[i] /\ i \in DOMAIN file
      BY <1>3, <2>4, FrontIs
    <3> HIDE DEF front
    <3>2. /\ DOMAIN file' = DOMAIN front \cup {Len(front) + 1} /\ file'[Len(front) + 1] = Torn
          /\ \A i \in DOMAIN front : file'[i] = front[i]
      BY <2>4, <3>1, LastOfAppend, TornIs DEF front
    <3> QED
      BY <3>1, <3>2
  <2> QED
    BY <1>2, <2>1, <2>2, <2>3, <2>4
<1>7. Numbered'
  <2>1. \A i \in DOMAIN file : file[i].hash \in Nat /\ file[i].hash <= made
    BY NumbersAre DEF OnDisk
  <2>2. \A i \in DOMAIN file' : file'[i].hash <= made + 1
    BY <1>2, <1>3, <1>6, <2>1, TornIs
  <2>3. ASSUME NEW c \in Copies', NEW i \in DOMAIN c.entries
        PROVE  c.entries[i].hash <= made + 1
    <3>1. c \in Copies
      BY <1>1
    <3>2. c.entries[i].hash \in Nat /\ c.entries[i].hash <= made
      BY <3>1, NumbersAre DEF OnDisk
    <3> QED
      BY <1>3, <3>2
  <2> QED
    BY <1>2, <2>2, <2>3 DEF Numbered
<1>8. \A p \in Person : forgotten[p] < made + 1
  BY <1>3
<1>9. InSync'
  <2> SUFFICES ASSUME writer'.at = "sync" PROVE InSync'
    BY DEF InSync
  <2>1. made + 1 # 0 /\ made + 1 \notin acked
    BY <1>3
  <2>2. ASSUME made + 1 \notin Exposed', "halved" \notin spoilt
        PROVE  ends' /\ file' # <<>> /\ Last(file') = l
    <3>1. file' = Append(file, l) /\ ends'
      BY <1>2, <2>2
    <3> QED
      BY <1>2, <1>3, <3>1, LastOfAppend
  <2> QED
    BY <1>2, <1>5, <1>8, <2>1, <2>2 DEF InSync
<1>10. LineBreaks'
  BY <1>2 DEF LineBreaks
<1>11. AckedOnDisk'
  <2> SUFFICES ASSUME "rewritten" \notin spoilt, "halved" \notin spoilt, NEW h \in acked
               PROVE  h \in Recorded' \cup Exposed'
    BY <1>2 DEF AckedOnDisk
  <2>1. h \in Recorded \cup Exposed
    BY DEF OnDisk, AckedOnDisk
  <2>2. CASE h \in Exposed
    BY <1>4, <2>2
  <2>3. CASE h \in Recorded
    <3>1. PICK i \in DOMAIN file : file[i].whole /\ file[i].hash = h
      BY <2>3 DEF Recorded
    <3>2. CASE i \in DOMAIN file' /\ file'[i] = file[i]
      BY <3>1, <3>2 DEF Recorded
    <3>3. CASE ~(i \in DOMAIN file' /\ file'[i] = file[i])
      <4>1. file' # file
        BY <3>3
      <4>2. file' # Append(file, l) /\ file' # Append(file, Torn)
        BY <1>2, <1>3, <3>3, LastOfAppend, TornIs
      <4>3. file # <<>> /\ file' = Append(Front(file), Torn) /\ Glued
        BY <1>2, <2>1, <4>1, <4>2
      <4> DEFINE front == Front(file)
      <4>4. /\ front \in Seq(LineType) /\ DOMAIN front = 1 .. (Len(file) - 1) /\ Len(file) \in Nat
            /\ Len(file) >= 1
            /\ \A j \in 1 .. (Len(file) - 1) : front[j] = file[j]
            /\ Last(file) = file[Len(file)] /\ DOMAIN file = 1 .. Len(file)
        BY <1>3, <4>3, FrontIs
      <4>5. file' = Append(front, Torn)
        BY <4>3
      <4> HIDE DEF front
      <4>6. \A j \in DOMAIN front : j \in DOMAIN file' /\ file'[j] = front[j]
        BY <4>4, <4>5, LastOfAppend, TornIs
      <4>7. i = Len(file)
        BY <3>3, <4>4, <4>6
      <4> QED
        BY <1>4, <3>1, <4>3, <4>4, <4>7 DEF Glued
    <3> QED
      BY <3>2, <3>3
  <2> QED
    BY <2>1, <2>2, <2>3
<1>12. Held'
  BY <1>1, <1>2, <1>4 DEF OnDisk, Held, Silent, Hashes
<1>13. NoNames'
  <2> SUFFICES ASSUME "race" \notin spoilt, NEW i \in DOMAIN file', NEW p \in file'[i].who
               PROVE  file'[i].hash > forgotten[p]
    BY <1>2 DEF NoNames, Silent
  <2>1. CASE i \in DOMAIN file /\ file'[i] = file[i]
    BY <2>1 DEF OnDisk, NoNames, Silent
  <2>2. CASE file'[i] = l
    <3>1. p \in Person /\ file'[i].hash = made + 1
      BY <1>2, <1>3, <2>2
    <3> QED
      BY <1>3, <1>8, <3>1
  <2>3. CASE file'[i] = Torn
    BY <2>3, TornIs
  <2> QED
    BY <1>6, <2>1, <2>2, <2>3
<1>14. Erased'
  BY <1>1, <1>2 DEF Erased
<1>15. ASSUME spoilt = {}
       PROVE  /\ KnownBut(Whole(file'), Exposed')
                   = KnownBut(Whole(file), Exposed) \cup (IF made + 1 \in Exposed' THEN {} ELSE {l})
              /\ \/ Whole(file') = Append(Whole(file), l)
                 \/ Whole(file') = Whole(file)
                 \/ \E last \in LineType : /\ Whole(file') \in Seq(LineType)
                                           /\ Whole(file) = Append(Whole(file'), last)
                                           /\ last.hash \in Exposed
  <2>1. "halved" \notin spoilt
    BY <1>15
  <2>2. \/ file' = Append(file, l)
        \/ file' = file
        \/ file' = Append(file, Torn)
        \/ file # <<>> /\ file' = Append(Front(file), Torn)
           /\ (~Last(file).whole \/ Last(file).hash \in Exposed)
    BY <1>2, <1>4, <2>1 DEF Glued
  <2>3. made + 1 \notin Exposed' => file' = Append(file, l)
    BY <1>2, <2>1
  <2>4. \A i \in DOMAIN file : file[i].hash \in Nat /\ file[i].hash <= made
    BY NumbersAre DEF OnDisk
  <2>5. PICK old, new, E, F, n : old = file /\ new = file' /\ E = Exposed /\ F = Exposed' /\ n = made
    OBVIOUS
  <2>6. /\ old \in Seq(LineType) /\ n \in Nat /\ l \in LineType /\ l.whole /\ l.hash = n + 1
        /\ \A i \in DOMAIN old : old[i].hash \in Nat /\ old[i].hash <= n
        /\ E \subseteq F /\ F \subseteq E \cup {n + 1, n + 2}
        /\ n + 1 \notin F => new = Append(old, l)
    BY <1>2, <1>3, <1>4, <2>3, <2>4, <2>5
  <2>7. \/ new = Append(old, l)
        \/ new = old
        \/ new = Append(old, Torn)
        \/ old # <<>> /\ new = Append(Front(old), Torn) /\ (~Last(old).whole \/ Last(old).hash \in E)
    BY <2>2, <2>5
  <2>8. /\ KnownBut(Whole(new), F) = KnownBut(Whole(old), E) \cup (IF n + 1 \in F THEN {} ELSE {l})
        /\ \/ Whole(new) = Append(Whole(old), l)
           \/ Whole(new) = Whole(old)
           \/ \E last \in LineType : /\ Whole(new) \in Seq(LineType)
                                     /\ Whole(old) = Append(Whole(new), last) /\ last.hash \in E
    <3>1. Written(old, new, l, E, F, n)
      BY <2>6, <2>7 DEF Written
    <3> QED
      BY <3>1, WrittenIs
  <2> QED
    BY <2>5, <2>8
<1>16. Whole(file)' = Whole(file') /\ \A lines : Tip(lines)' = Tip(lines)
  BY DEF Whole, Tip
\* the copies are as good as before
<1>17. ASSUME spoilt = {}, NEW c \in Copies'
       PROVE  /\ LinkedBut(c.entries, Exposed')
              /\ KnownBut(c.entries, Exposed') = KnownBut(Whole(file), Exposed)
  <2>1. c \in Copies
    BY <1>1
  <2>2. LinkedBut(c.entries, Exposed) /\ KnownBut(c.entries, Exposed) = KnownBut(Whole(file), Exposed)
    <3>1. Linked(c.entries) /\ Known(c.entries) = Known(Whole(file))
      BY <1>1, <1>17, <2>1 DEF OnDisk, Truth, Agrees
    <3> QED
      BY <3>1, ButIs
  <2>3. \A i \in DOMAIN c.entries : c.entries[i].hash \in Nat /\ c.entries[i].hash <= made
    BY <2>1, NumbersAre DEF OnDisk
  <2>4. KnownBut(c.entries, Exposed') = KnownBut(c.entries, Exposed)
    BY <1>3, <1>4, <2>3, KnownSame
  <2>5. LinkedBut(c.entries, Exposed')
    BY <1>4, <2>2, LinkedMore
  <2> QED
    BY <2>2, <2>4, <2>5
<1>18. ASSUME spoilt = {}
       PROVE  /\ KnownBut(es, Exposed') = KnownBut(Whole(file), Exposed)
              /\ Tip(es) = Tip(Whole(file)) \/ Tip(es) \in Exposed \/ made \in cut
  <2>1. KnownBut(es, Exposed) = KnownBut(Whole(file), Exposed)
        /\ (Tip(es) = Tip(Whole(file)) \/ Tip(es) \in Exposed \/ made \in cut)
    <3>1. Agrees(writer.copy)
      BY <1>1, <1>18 DEF OnDisk, Truth
    <3>2. Known(es) = KnownBut(es, Exposed) /\ Known(Whole(file)) = KnownBut(Whole(file), Exposed)
      BY ButIs
    <3> QED
      BY <3>1, <3>2 DEF Agrees, es
  <2>2. \A i \in DOMAIN es : es[i].hash \in Nat /\ es[i].hash <= made
    BY <1>1, NumbersAre DEF OnDisk, es
  <2>3. KnownBut(es, Exposed') = KnownBut(es, Exposed)
    BY <1>3, <1>4, <2>2, KnownSame
  <2> QED
    BY <2>1, <2>3
<1>19. Truth'
  <2> SUFFICES ASSUME spoilt = {} PROVE Truth'
    BY <1>2 DEF Truth
  <2>1. \A c \in Copies' : Linked(c.entries)'
    BY <1>17, ButIs
  <2>2. ASSUME writer'.at # "sync", NEW c \in Copies'
        PROVE  Agrees(c)'
    <3>1. writer' = Off /\ made + 1 \in cut'
      BY <1>2, <2>2 DEF Moves
    <3>2. made + 1 \in Exposed' /\ made' \in cut'
      BY <1>2, <3>1 DEF Exposed
    <3>3. KnownBut(c.entries, Exposed') = KnownBut(Whole(file'), Exposed')
      BY <1>15, <1>17, <3>2
    <3>4. Known(c.entries)' = Known(Whole(file))'
      <4>1. Known(Whole(file))' = KnownBut(Whole(file'), Exposed')
        BY <1>16 DEF Known, KnownBut
      <4> QED
        BY <3>3, <4>1, ButIs
    <3> QED
      BY <3>2, <3>4 DEF Agrees
  <2>3. ASSUME writer'.at = "sync"
        PROVE  /\ Known(Whole(file))' = Known(Append(writer.copy.entries, Sent))'
               /\ made' \notin Exposed' => Tip(Whole(file))' = made'
    <3>1. Append(writer.copy.entries, Sent)' = Append(es, l)
      BY <1>1, <1>5, <2>3 DEF es
    <3>2. KnownBut(Append(es, l), Exposed')
            = KnownBut(es, Exposed') \cup (IF made + 1 \in Exposed' THEN {} ELSE {l})
      BY <1>2, <1>3, KnownAppend
    <3>3. KnownBut(Append(es, l), Exposed') = KnownBut(Whole(file'), Exposed')
      BY <1>15, <1>18, <3>2
    <3>4. Known(Whole(file))' = KnownBut(Whole(file'), Exposed')
          /\ Known(Append(writer.copy.entries, Sent))' = KnownBut(Append(es, l), Exposed')
      BY <1>16, <3>1 DEF Known, KnownBut
    <3>5. made + 1 \notin Exposed' => Tip(Whole(file')) = made + 1
      <4> SUFFICES ASSUME made + 1 \notin Exposed' PROVE Tip(Whole(file')) = made + 1
        OBVIOUS
      <4>1. file' = Append(file, l)
        BY <1>2
      <4>2. Whole(Append(file, l)) = Append(Whole(file), l) /\ Whole(file) \in Seq(LineType)
        BY <1>2, <1>3, WholeAppend, WholeIs
      <4>3. Tip(Append(Whole(file), l)) = made + 1
        BY <1>2, <4>2, TipAppend
      <4> QED
        BY <4>1, <4>2, <4>3
    <3>6. Tip(Whole(file))' = Tip(Whole(file'))
      BY <1>16
    <3> QED
      BY <1>2, <3>3, <3>4, <3>5, <3>6
  <2> QED
    BY <2>1, <2>2, <2>3 DEF Truth
<1>20. ASSUME spoilt = {}, cut' = {}
       PROVE  /\ file' = Append(file, l) /\ Moves("sync", writer.mine) /\ cut = {}
              /\ es = Whole(file) /\ writer.copy.problems = Broken(file)
              /\ Whole(file') = Append(Whole(file), l) /\ Broken(file') = Broken(file)
  <2>1. made + 1 \notin Exposed' /\ cut = {} /\ Moves("sync", writer.mine)
    BY <1>2, <1>20 DEF Exposed
  <2>2. file' = Append(file, l)
    BY <1>2, <1>20, <2>1
  <2>3. writer.copy = Copy(file, ends)
    BY <1>1, <1>20, <2>1 DEF OnDisk, Exact
  <2>4. Copy(file, ends).entries = Whole(file) /\ Copy(file, ends).problems = Broken(file)
    BY CopyIs DEF Shape
  <2>5. Whole(file') = Append(Whole(file), l)
    BY <1>2, <1>3, <2>2, WholeAppend
  <2>6. Broken(file') = Broken(file)
    <3>1. /\ DOMAIN file' = DOMAIN file \cup {Len(file) + 1} /\ file'[Len(file) + 1] = l
          /\ \A i \in DOMAIN file : file'[i] = file[i]
      BY <1>2, <1>3, <2>2, LastOfAppend
    <3> QED
      BY <1>2, <3>1 DEF Broken
  <2> QED
    BY <2>1, <2>2, <2>3, <2>4, <2>5, <2>6 DEF es
<1>21. Exact'
  <2> SUFFICES ASSUME spoilt = {}, cut' = {} PROVE Exact'
    BY <1>2 DEF Exact
  <2>1. Broken(file)' = Broken(file') /\ writer'.at = "sync" /\ writer'.copy = writer.copy
    BY <1>20 DEF Broken, Moves
  <2>2. Append(writer.copy.entries, Sent)' = Append(es, l)
    BY <1>5, <2>1 DEF es
  <2> QED
    BY <1>16, <1>20, <2>1, <2>2 DEF Exact
<1>22. Chain'
  <2> SUFFICES ASSUME spoilt = {} PROVE Chain'
    BY <1>2 DEF Chain
  <2>1. Whole(file) \in Seq(LineType) /\ LinkedBut(Whole(file), Exposed)
    BY <1>3, WholeIs, ChainIs DEF OnDisk
  <2>2. LinkedBut(Whole(file), Exposed')
    BY <1>4, <2>1, LinkedMore
  <2>3. CASE Whole(file') = Append(Whole(file), l)
    <3>1. l.prev = Tip(Whole(file)) \/ {l.hash, l.prev} \cap Exposed' # {}
      <4>1. made \in cut => made + 1 \in Exposed'
        BY <1>4 DEF Exposed
      <4> QED
        BY <1>2, <1>4, <1>18, <4>1
    <3>2. LinkedBut(Append(Whole(file), l), Exposed')
      BY <1>2, <2>1, <2>2, <3>1, LinkedAppend
    <3> QED
      BY <1>16, <2>3, <3>2 DEF Chain, Linked, LinkedBut
  <2>4. CASE Whole(file') = Whole(file)
    BY <1>16, <2>2, <2>4 DEF Chain, Linked, LinkedBut
  <2>5. CASE \E last \in LineType : Whole(file') \in Seq(LineType) /\ Whole(file) = Append(Whole(file'), last)
    <3>1. PICK last \in LineType : Whole(file') \in Seq(LineType) /\ Whole(file) = Append(Whole(file'), last)
      BY <2>5
    <3>2. LinkedBut(Whole(file'), Exposed')
      BY <2>2, <3>1, LinkedAppend
    <3> QED
      BY <1>16, <3>2 DEF Chain, Linked, LinkedBut
  <2> QED
    BY <1>15, <2>3, <2>4, <2>5
<1> QED
  BY <1>7, <1>9, <1>10, <1>11, <1>12, <1>13, <1>14, <1>19, <1>21, <1>22 DEF OnDisk

\* The erasure that put its journal in place of the old one.
LEMMA RenamingKeeps ==
  ASSUME Shape, NoRewrite, OnDisk, Rename \/ RenameShort
  PROVE  OnDisk'
<1>1. /\ Copies' \subseteq Copies /\ writer.copy \in Copies /\ writer'.at = "sync"
      /\ writer'.op = writer.op /\ writer'.who = writer.who /\ writer'.copy = writer.copy
  BY WritesCopies, MovesIs DEF Moves
<1> DEFINE es == writer.copy.entries
<1>2. PICK p \in writer.who :
         LET all == Forgetting(p, es, made + 1) IN
         /\ p \in Person /\ writer.who = {p}
         /\ Rename => file' = all /\ ends' = TRUE
         /\ file' \in Seq(LineType) /\ ends' \in BOOLEAN
         /\ \A i \in DOMAIN file' : file'[i] = Torn \/ \E j \in DOMAIN all : file'[i] = all[j]
         /\ made' = made + 1 /\ made + 1 \in 0 .. MaxEvents
         /\ writer.op = "erase" /\ writer.at = "begin" /\ ~Refused
  BY RenameIs
<1>3. /\ UNCHANGED <<acked, forgotten, cut>> /\ spoilt \subseteq spoilt'
      /\ RenameShort => "halved" \in spoilt'
      /\ Rename => ("race" \in spoilt => "rewritten" \in spoilt')
  BY DEF Rename, RenameShort
<1>4. /\ made \in Nat /\ acked \subseteq 1 .. made /\ \A q \in Person : forgotten[q] \in 0 .. made
      /\ es \in Seq(LineType) /\ \A i \in DOMAIN es : es[i].whole
  BY ConstantsAssumption, WriterFields DEF Shape, Readable
<1>45. PICK all, l, old : /\ all = Forgetting(p, es, made + 1) /\ l = Line(es, {}, made + 1)
                          /\ old = Scrub(es, p)
  OBVIOUS
<1>5. /\ all \in Seq(LineType) /\ all # <<>>
      /\ l \in LineType /\ l.whole /\ l.hash = made + 1 /\ l.who = {} /\ l.prev = Tip(es)
      /\ old \in Seq(LineType) /\ all = Append(old, l)
      /\ DOMAIN all = DOMAIN es \cup {Len(es) + 1} /\ all[Len(es) + 1] = l
      /\ \A i \in DOMAIN es :
           /\ all[i].whole /\ all[i].hash = es[i].hash /\ all[i].prev = es[i].prev
           /\ all[i].who = es[i].who \ {p}
      /\ \A i \in DOMAIN all : all[i].whole
  <2>1. p \in Person /\ made + 1 \in 0 .. MaxEvents
    BY <1>2
  <2>2. LET new == Forgetting(p, es, made + 1)
            line == Line(es, {}, made + 1) IN
        /\ new \in Seq(LineType) /\ new # <<>> /\ Last(new) = line
        /\ line \in LineType /\ line.whole /\ line.hash = made + 1 /\ line.who = {} /\ line.prev = Tip(es)
        /\ Scrub(es, p) \in Seq(LineType) /\ new = Append(Scrub(es, p), line)
        /\ DOMAIN new = DOMAIN es \cup {Len(es) + 1} /\ new[Len(es) + 1] = line
        /\ \A i \in DOMAIN es :
             /\ new[i].whole /\ new[i].hash = es[i].hash /\ new[i].prev = es[i].prev
             /\ new[i].who = es[i].who \ {p}
        /\ \A i \in DOMAIN new : new[i].whole
    BY <2>1, ForgettingIs
  <2> QED
    BY <1>45, <2>2
<1>6. /\ Rename => file' = all /\ ends' = TRUE
      /\ \A i \in DOMAIN file' : file'[i] = Torn \/ \E j \in DOMAIN all : file'[i] = all[j]
      /\ Forgetting(p, writer.copy.entries, made)' = all
  <2>1. Forgetting(p, writer.copy.entries, made)' = Forgetting(p, es, made + 1)
    BY <1>1, <1>2 DEF Forgetting, Scrub, Line, Tip
  <2> QED
    BY <1>2, <1>45, <2>1
<1>7. Exposed' = Exposed /\ (\A lines : Known(lines)' = Known(lines) /\ (Linked(lines)' <=> Linked(lines)))
  BY <1>3 DEF Exposed, Known, Linked
<1>8. \A i \in DOMAIN es : es[i].hash \in Nat /\ es[i].hash <= made
  BY <1>1, NumbersAre DEF OnDisk
<1> HIDE DEF es
<1>9. Numbered'
  <2>1. ASSUME NEW i \in DOMAIN all PROVE all[i].hash \in Nat /\ all[i].hash <= made + 1
    <3>1. CASE i \in DOMAIN es
      <4>1. all[i].hash = es[i].hash
        BY <1>5, <3>1
      <4>2. es[i].hash \in Nat /\ es[i].hash <= made
        BY <1>8, <3>1
      <4> QED
        BY <1>4, <4>1, <4>2
    <3>2. CASE i = Len(es) + 1
      <4>1. all[i].hash = made + 1
        BY <1>5, <3>2
      <4> QED
        BY <1>4, <4>1
    <3> QED
      BY <1>5, <3>1, <3>2
  <2>2. \A i \in DOMAIN file' : file'[i].hash <= made + 1
    BY <1>4, <1>6, <2>1, TornIs
  <2>3. ASSUME NEW c \in Copies', NEW i \in DOMAIN c.entries
        PROVE  c.entries[i].hash <= made + 1
    <3>1. c.entries[i].hash \in Nat /\ c.entries[i].hash <= made
      BY <1>1, NumbersAre DEF OnDisk
    <3> QED
      BY <1>4, <3>1
  <2> QED
    BY <1>2, <2>2, <2>3 DEF Numbered
<1>10. InSync'
  <2>1. made + 1 # 0 /\ made + 1 \notin acked /\ \A q \in Person : forgotten[q] < made + 1
    BY <1>4
  <2> QED
    BY <1>1, <1>2, <1>3, <2>1 DEF InSync
<1>11. LineBreaks'
  BY <1>2, <1>3, <1>6 DEF LineBreaks
<1>12. "race" \notin spoilt =>
         /\ "halved" \notin spoilt => acked \subseteq Hashes(es) \cup Exposed
         /\ Silent(es)
  BY <1>1 DEF OnDisk, Held, es
<1>13. AckedOnDisk'
  <2> SUFFICES ASSUME "rewritten" \notin spoilt', "halved" \notin spoilt', NEW h \in acked
               PROVE  h \in Recorded' \cup Exposed
    BY <1>3, <1>7 DEF AckedOnDisk
  <2>1. Rename /\ "race" \notin spoilt /\ "halved" \notin spoilt
    BY <1>3
  <2>2. CASE h \in Hashes(es)
    <3>1. PICK i \in DOMAIN es : es[i].hash = h
      BY <2>2 DEF Hashes
    <3>2. i \in DOMAIN file' /\ file'[i].hash = h /\ file'[i].whole
      BY <1>5, <1>6, <2>1, <3>1
    <3> QED
      BY <3>2 DEF Recorded
  <2> QED
    BY <1>12, <2>1, <2>2
<1>14. Held'
  BY <1>1, <1>3, <1>7 DEF OnDisk, Held, Silent, Hashes
<1>15. NoNames'
  <2> SUFFICES ASSUME "race" \notin spoilt', NEW i \in DOMAIN file', NEW q \in file'[i].who
               PROVE  file'[i].hash > forgotten[q]
    BY <1>3 DEF NoNames, Silent
  <2>1. PICK j \in DOMAIN all : file'[i] = all[j]
    BY <1>6, TornIs
  <2>2. j \in DOMAIN es /\ q \in es[j].who /\ file'[i].hash = es[j].hash
    BY <1>5, <2>1
  <2> QED
    BY <1>3, <1>12, <2>2 DEF Silent
<1>16. Erased'
  <2>1. \A i \in DOMAIN file' : file'[i].who \cap writer.who = {}
    <3> SUFFICES ASSUME NEW i \in DOMAIN file' PROVE p \notin file'[i].who
      BY <1>2
    <3>1. \A j \in DOMAIN all : p \notin all[j].who
      BY <1>5
    <3> QED
      BY <1>6, <3>1, TornIs
  <2>2. "halved" \notin spoilt' => file' = all
    BY <1>3, <1>6
  <2>3. Refused' = Refused
    BY <1>1 DEF Refused
  <2> QED
    BY <1>1, <1>2, <1>6, <2>1, <2>2, <2>3 DEF Erased
<1>17. ASSUME spoilt' = {}
       PROVE  Rename /\ spoilt = {} /\ Linked(es) /\ \A c \in Copies' : Linked(c.entries)
  <2>1. Rename /\ spoilt = {}
    BY <1>3, <1>17
  <2> QED
    BY <1>1, <2>1 DEF OnDisk, Truth, es
<1>18. Truth'
  <2> SUFFICES ASSUME spoilt' = {} PROVE Truth'
    BY DEF Truth
  <2>1. \A c \in Copies' : Linked(c.entries)'
    BY <1>7, <1>17
  <2>2. writer'.at = "sync" /\ writer'.op = "erase"
    BY <1>1, <1>2
  <2> QED
    BY <2>1, <2>2 DEF Truth
<1>19. Exact'
  <2>1. writer'.at = "sync" /\ writer'.op = "erase"
    BY <1>1, <1>2
  <2> QED
    BY <2>1 DEF Exact
<1>20. Chain'
  <2> SUFFICES ASSUME spoilt' = {} PROVE Chain'
    BY DEF Chain
  <2>1. LinkedBut(es, Exposed) /\ file' = all
    BY <1>6, <1>17, ButIs
  <2>2. /\ DOMAIN old = DOMAIN es /\ Len(old) = Len(es)
        /\ \A i \in DOMAIN es : old[i].hash = es[i].hash /\ old[i].prev = es[i].prev
    BY <1>2, <1>4, <1>45, ScrubIs
  <2>3. LinkedBut(old, Exposed)
    <3> SUFFICES ASSUME NEW i \in DOMAIN es
                 PROVE  \/ old[i].prev = IF i = 1 THEN GENESIS ELSE old[i - 1].hash
                        \/ {old[i].hash, old[i].prev} \cap Exposed # {}
      BY <2>2 DEF LinkedBut
    <3>1. i # 1 => i - 1 \in DOMAIN es
      BY <1>4
    <3>2. \/ es[i].prev = IF i = 1 THEN GENESIS ELSE es[i - 1].hash
          \/ {es[i].hash, es[i].prev} \cap Exposed # {}
      BY <2>1 DEF LinkedBut
    <3> QED
      BY <2>2, <3>1, <3>2
  <2>4. Tip(old) = Tip(es)
    <3>1. old = <<>> <=> es = <<>>
      BY <1>4, <1>5, <2>2
    <3>2. es # <<>> => Len(es) \in DOMAIN es
      BY <1>4
    <3> QED
      BY <2>2, <3>1, <3>2 DEF Tip, Last
  <2>5. LinkedBut(all, Exposed)
    <3>1. l.prev = Tip(old) /\ old \in Seq(LineType) /\ l \in LineType /\ all = Append(old, l)
      BY <1>5, <2>4
    <3>2. LinkedBut(Append(old, l), Exposed)
      BY <2>3, <3>1, LinkedAppend
    <3> QED
      BY <3>1, <3>2
  <2>6. Whole(all) = all
    BY <1>5, WholeIs
  <2>7. Whole(file)' = Whole(all)
    BY <2>1 DEF Whole
  <2>8. LinkedBut(Whole(file)', Exposed')
    BY <1>7, <2>5, <2>6, <2>7
  <2> QED
    BY <2>8 DEF Chain, Linked, LinkedBut
<1> QED
  BY <1>9, <1>10, <1>11, <1>13, <1>14, <1>15, <1>16, <1>18, <1>19, <1>20 DEF OnDisk

LEMMA NamesAre ==
  ASSUME NEW lines \in Seq(LineType)
  PROVE  \A i \in DOMAIN lines : lines[i].who \subseteq Person
<1>1. \A i \in DOMAIN lines : lines[i] \in LineType
  OBVIOUS
<1>2. \A l \in LineType : l.who \in SUBSET Person
  BY DEF LineType
<1> QED
  BY <1>1, <1>2

LEMMA SettleKeeps ==
  ASSUME Shape, Turns, NoRewrite, OnDisk, Settle
  PROVE  OnDisk'
<1>1. /\ writer.at = "sync" /\ writer.op \in {"append", "erase"} /\ writer'.at = "off"
      /\ UNCHANGED <<file, ends, reading, made, spoilt, cut>> /\ acked' = acked \cup {made}
      /\ forgotten' = [p \in Person |-> IF writer.op = "erase" /\ p \in writer.who
                                        THEN made ELSE forgotten[p]]
  BY TypesOfCopies, WriterFields DEF Settle, Shape
<1>2. /\ \A p \in Person : forgotten[p] < made /\ forgotten[p] \in Nat
      /\ writer.op = "append" /\ made \notin Exposed /\ "halved" \notin spoilt =>
           ends /\ file # <<>> /\ Last(file) = Sent
  BY <1>1, ConstantsAssumption DEF OnDisk, InSync, Shape
<1>3. /\ file \in Seq(LineType) /\ made \in Nat /\ made \in 0 .. MaxEvents /\ ends \in BOOLEAN
      /\ writer.copy \in Copies /\ writer.who \in SUBSET Person
  BY <1>1, ConstantsAssumption, WriterFields DEF Shape, Copies
<1> DEFINE es == writer.copy.entries
<1>4. PICK entries \in Done :
         LET new == Kept(writer.copy, entries) IN
         /\ writer.op = "append" => entries = Append(es, Sent)
         /\ writer.op = "erase" =>
              \E p \in writer.who : p \in Person /\ writer.who = {p}
                                    /\ entries = Forgetting(p, es, made)
         /\ entries \in Seq(LineType) /\ \A i \in DOMAIN entries : entries[i].whole
         /\ Readable(new) /\ new.has /\ new.entries = entries
         /\ writer.mine => mem' = new
         /\ ~writer.mine => mem' = mem
         /\ new = [has |-> TRUE, entries |-> entries, ends |-> TRUE, problems |-> writer.copy.problems]
  BY SettleIs DEF OnDisk
<1>5. PICK new : /\ new = Kept(writer.copy, entries)
                 /\ Readable(new) /\ new.has /\ new.entries = entries
                 /\ writer.mine => mem' = new
                 /\ ~writer.mine => mem' = mem
                 /\ new = [has |-> TRUE, entries |-> entries, ends |-> TRUE,
                           problems |-> writer.copy.problems]
  BY <1>4
<1>6. es \in Seq(LineType) /\ (\A i \in DOMAIN es : es[i].hash \in Nat /\ es[i].hash <= made)
  BY <1>3, NumbersAre, CopiesAre DEF OnDisk
<1>7. Copies' \subseteq Copies \cup {new}
  <2>1. mem' \in {new, mem} /\ (mem' = mem \/ mem' = new)
    BY <1>4, <1>5, WriterFields
  <2> QED
    BY <1>1, <2>1 DEF Copies
<1>8. "race" \notin spoilt => \A c \in Copies' : c = new
  <2> SUFFICES ASSUME "race" \notin spoilt PROVE \A c \in Copies' : c = new
    OBVIOUS
  <2>1. mem = writer.copy /\ writer.mine /\ writer.copy.has
    BY <1>1 DEF Turns, Shape
  <2>2. \A r \in Readers : reading'[r].at = "off"
    BY <1>1, <2>1 DEF Turns
  <2> QED
    BY <1>1, <1>5, <2>1, <2>2 DEF Copies
<1> HIDE DEF es
\* what was sent, or the erasure's own line, ends the copy
<1>9. PICK before, l :
         /\ before \in Seq(LineType) /\ l \in LineType /\ entries = Append(before, l)
         /\ l.whole /\ l.hash = made /\ l.prev = Tip(before) /\ l.who \subseteq Person
         /\ writer.op = "append" => before = es /\ l = Sent
         /\ writer.op = "erase" => l.who = {}
         /\ DOMAIN before = DOMAIN es /\ Len(before) = Len(es)
         /\ \A i \in DOMAIN es :
              /\ before[i].hash = es[i].hash /\ before[i].prev = es[i].prev
              /\ before[i].who = IF writer.op = "erase" THEN es[i].who \ writer.who ELSE es[i].who
  <2>1. CASE writer.op = "append"
    <3>1. entries = Append(es, Sent)
      BY <1>4, <2>1 DEF es
    <3>2. Sent \in LineType /\ Sent.whole /\ Sent.hash = made /\ Sent.prev = Tip(es) /\ Sent.who = writer.who
      BY <1>3, LineIs DEF Sent, es
    <3> QED
      BY <1>3, <1>6, <2>1, <3>1, <3>2
  <2>2. CASE writer.op = "erase"
    <3>1. PICK p \in writer.who : p \in Person /\ writer.who = {p} /\ entries = Forgetting(p, es, made)
      BY <1>4, <2>2 DEF es
    <3>2. PICK before, l : before = Scrub(es, p) /\ l = Line(es, {}, made)
      OBVIOUS
    <3>3. /\ l \in LineType /\ l.whole /\ l.hash = made /\ l.who = {} /\ l.prev = Tip(es)
          /\ before \in Seq(LineType) /\ entries = Append(before, l)
      BY <1>3, <3>1, <3>2, ForgettingIs DEF es
    <3>4. /\ DOMAIN before = DOMAIN es /\ Len(before) = Len(es)
          /\ \A i \in DOMAIN es :
               /\ before[i].hash = es[i].hash /\ before[i].prev = es[i].prev
               /\ before[i].who = es[i].who \ {p}
      BY <1>6, <3>1, <3>2, ScrubIs
    <3>5. Tip(before) = Tip(es)
      <4>1. before = <<>> <=> es = <<>>
        BY <1>6, <3>3, <3>4
      <4>2. es # <<>> => Len(es) \in DOMAIN es
        BY <1>6
      <4> QED
        BY <3>4, <4>1, <4>2 DEF Tip, Last
    <3> QED
      BY <2>2, <3>1, <3>3, <3>4, <3>5
  <2> QED
    BY <1>1, <2>1, <2>2
<1>10. /\ DOMAIN entries = DOMAIN es \cup {Len(es) + 1} /\ entries[Len(es) + 1] = l
       /\ \A i \in DOMAIN es : entries[i] = before[i]
  BY <1>9, LastOfAppend
<1>11. Numbered'
  <2>1. ASSUME NEW i \in DOMAIN entries PROVE entries[i].hash <= made
    <3>1. CASE i \in DOMAIN es
      <4>1. entries[i].hash = es[i].hash
        BY <1>9, <1>10, <3>1
      <4> QED
        BY <1>6, <3>1, <4>1
    <3>2. CASE i = Len(es) + 1
      <4>1. entries[i].hash = made
        BY <1>9, <1>10, <3>2
      <4> QED
        BY <1>3, <4>1
    <3> QED
      BY <1>10, <3>1, <3>2
  <2> QED
    BY <1>1, <1>5, <1>7, <2>1 DEF OnDisk, Numbered
<1>12. InSync' /\ Erased'
  BY <1>1 DEF InSync, Erased
<1>13. LineBreaks'
  <2>1. Glued' = Glued
    BY <1>1 DEF Glued
  <2> QED
    BY <1>1, <2>1 DEF OnDisk, LineBreaks
<1>14. /\ Recorded' = Recorded /\ Whole(file)' = Whole(file) /\ Exposed' = Exposed
       /\ \A lines : Known(lines)' = Known(lines) /\ (Linked(lines)' <=> Linked(lines))
                     /\ Tip(lines)' = Tip(lines)
  BY <1>1 DEF Recorded, Whole, Exposed, Known, Linked, Tip
<1>15. Chain'
  BY <1>1, <1>14 DEF OnDisk, Chain
\* the new journal, if it is whole
<1>16. ASSUME writer.op = "erase", "halved" \notin spoilt
       PROVE  file = entries /\ \A i \in DOMAIN file : file[i].whole
  <2>1. PICK p \in writer.who : p \in Person /\ writer.who = {p} /\ entries = Forgetting(p, es, made)
    BY <1>4, <1>16 DEF es
  <2>2. \E q \in writer.who : file = Forgetting(q, es, made)
    BY <1>1, <1>16 DEF OnDisk, Erased, es
  <2> QED
    BY <1>4, <2>1, <2>2
<1>17. "halved" \notin spoilt => made \in Recorded \cup Exposed
  <2> SUFFICES ASSUME "halved" \notin spoilt, made \notin Exposed PROVE made \in Recorded
    OBVIOUS
  <2>1. CASE writer.op = "append"
    <3>1. file # <<>> /\ Last(file) = l
      BY <1>2, <1>9, <2>1
    <3>2. Len(file) \in DOMAIN file /\ file[Len(file)] = l
      BY <1>3, <3>1, FrontIs
    <3> QED
      BY <1>9, <3>2 DEF Recorded
  <2>2. CASE writer.op = "erase"
    <3>1. file = entries
      BY <1>16, <2>2
    <3> QED
      BY <1>9, <1>10, <3>1 DEF Recorded
  <2> QED
    BY <1>1, <2>1, <2>2
<1>18. AckedOnDisk'
  BY <1>1, <1>14, <1>17 DEF OnDisk, AckedOnDisk
<1>19. \A p \in Person : forgotten'[p] = IF writer.op = "erase" /\ p \in writer.who
                                        THEN made ELSE forgotten[p]
  BY <1>1
<1>20. NoNames'
  <2> SUFFICES ASSUME "race" \notin spoilt, NEW i \in DOMAIN file, NEW p \in file[i].who
               PROVE  file[i].hash > forgotten'[p]
    BY <1>1 DEF NoNames, Silent
  <2>1. p \in Person
    BY <1>3, NamesAre
  <2>2. writer.op = "erase" => p \notin writer.who
    BY <1>1 DEF OnDisk, Erased
  <2>3. forgotten'[p] = forgotten[p]
    BY <1>19, <2>1, <2>2
  <2> QED
    BY <2>3 DEF OnDisk, NoNames, Silent
<1>21. Held'
  <2> SUFFICES ASSUME "race" \notin spoilt
               PROVE  /\ "halved" \notin spoilt => acked' \subseteq Hashes(entries) \cup Exposed
                      /\ Silent(entries)'
    <3>0. new.entries = entries
      BY <1>5
    <3>1. "race" \notin spoilt => \A c \in Copies' : c.entries = entries
      BY <1>8, <3>0
    <3> QED
      BY <1>1, <1>14, <3>1 DEF Held, Hashes, Silent
  <2>1. ("halved" \notin spoilt => acked \subseteq Hashes(es) \cup Exposed) /\ Silent(es)
    BY <1>3 DEF OnDisk, Held, es
  <2>2. Hashes(es) \cup {made} \subseteq Hashes(entries)
    <3>1. ASSUME NEW i \in DOMAIN es PROVE es[i].hash \in Hashes(entries)
      <4>1. i \in DOMAIN entries /\ entries[i].hash = es[i].hash
        BY <1>9, <1>10
      <4> QED
        BY <4>1 DEF Hashes
    <3>2. Len(es) + 1 \in DOMAIN entries /\ entries[Len(es) + 1].hash = made
      BY <1>9, <1>10
    <3> QED
      BY <3>1, <3>2 DEF Hashes
  <2>3. ASSUME NEW i \in DOMAIN entries, NEW p \in entries[i].who
        PROVE  entries[i].hash > forgotten'[p]
    <3>1. CASE i \in DOMAIN es
      <4>1. /\ entries[i].hash = es[i].hash /\ p \in es[i].who
            /\ writer.op = "erase" => p \notin writer.who
        BY <1>9, <1>10, <3>1
      <4>2. p \in Person
        BY <1>6, <3>1, <4>1, NamesAre
      <4>3. forgotten'[p] = forgotten[p]
        BY <1>19, <4>1, <4>2
      <4> QED
        BY <2>1, <3>1, <4>1, <4>3 DEF Silent
    <3>2. CASE i = Len(es) + 1
      <4>1. p \in l.who /\ entries[i].hash = made /\ p \in Person
        BY <1>9, <1>10, <3>2
      <4>2. writer.op # "erase"
        BY <1>9, <4>1
      <4>3. forgotten'[p] = forgotten[p]
        BY <1>19, <4>1, <4>2
      <4>4. forgotten[p] < made /\ forgotten[p] \in Nat
        BY <1>2, <4>1
      <4> QED
        BY <1>3, <4>1, <4>3, <4>4
    <3> QED
      BY <1>10, <3>1, <3>2
  <2>4. Silent(entries)'
    BY <2>3 DEF Silent
  <2> QED
    BY <1>1, <2>1, <2>2, <2>4
<1>22. ASSUME spoilt = {}
       PROVE  Linked(entries) /\ Agrees(new)
  <2>1. Linked(es)
    BY <1>3, <1>22 DEF OnDisk, Truth, es
  <2>2. LinkedBut(before, Exposed)
    <3>1. LinkedBut(es, Exposed)
      BY <2>1, ButIs
    <3> SUFFICES ASSUME NEW i \in DOMAIN es
                 PROVE  \/ before[i].prev = IF i = 1 THEN GENESIS ELSE before[i - 1].hash
                        \/ {before[i].hash, before[i].prev} \cap Exposed # {}
      BY <1>9 DEF LinkedBut
    <3>2. i # 1 => i - 1 \in DOMAIN es
      BY <1>6
    <3>3. \/ es[i].prev = IF i = 1 THEN GENESIS ELSE es[i - 1].hash
          \/ {es[i].hash, es[i].prev} \cap Exposed # {}
      BY <3>1 DEF LinkedBut
    <3> QED
      BY <1>9, <3>2, <3>3
  <2>3. Linked(entries)
    <3>1. LinkedBut(entries, Exposed)
      BY <1>9, <2>2, LinkedAppend
    <3> QED
      BY <3>1, ButIs
  <2>4. Tip(entries) = made
    BY <1>9, TipAppend
  <2>5. CASE writer.op = "append"
    <3>1. /\ Known(Whole(file)) = Known(Append(es, Sent))
          /\ made \notin Exposed => Tip(Whole(file)) = made
      BY <1>1, <1>22, <2>5 DEF OnDisk, Truth, es
    <3>2. entries = Append(es, Sent)
      BY <1>9, <2>5
    <3> QED
      BY <1>5, <2>3, <2>4, <3>1, <3>2 DEF Agrees
  <2>6. CASE writer.op = "erase"
    <3>1. file = entries /\ \A i \in DOMAIN file : file[i].whole
      BY <1>16, <1>22, <2>6
    <3>2. Whole(file) = entries
      BY <1>3, <3>1, WholeIs
    <3> QED
      BY <1>5, <2>3, <3>2 DEF Agrees
  <2> QED
    BY <1>1, <2>5, <2>6
<1>23. Truth'
  <2> SUFFICES ASSUME spoilt = {} PROVE Truth'
    BY <1>1 DEF Truth
  <2>1. \A c \in Copies' : c = new /\ c.entries = entries
    BY <1>5, <1>8
  <2>2. Agrees(new)' <=> Agrees(new)
    BY <1>1, <1>14 DEF Agrees
  <2>3. \A c \in Copies' : Linked(c.entries)'
    BY <1>14, <1>22, <2>1
  <2>4. \A c \in Copies' : Agrees(c)'
    <3>1. Agrees(new)'
      BY <1>22, <2>2
    <3> QED
      BY <2>1, <3>1
  <2> QED
    BY <1>1, <2>3, <2>4 DEF Truth
<1>24. Exact'
  <2> SUFFICES ASSUME spoilt = {}, cut = {}, NEW c \in Copies'
               PROVE  c = Copy(file, ends)
    <3>1. Copy(file, ends)' = Copy(file, ends)
      BY <1>1 DEF Copy, Whole
    <3> QED
      BY <1>1, <3>1 DEF Exact
  <2>1. c = new /\ "halved" \notin spoilt /\ Exposed = {}
    <3>1. c = new
      BY <1>8
    <3>2. Exposed = {}
      BY DEF Exposed
    <3> QED
      BY <3>1, <3>2
  <2>2. entries = Whole(file) /\ writer.copy.problems = Broken(file) /\ ends = TRUE
    <3>1. CASE writer.op = "append"
      BY <1>1, <1>2, <1>3, <1>9, <2>1, <3>1 DEF OnDisk, Exact, es
    <3>2. CASE writer.op = "erase"
      <4>1. file = entries /\ \A i \in DOMAIN file : file[i].whole
        BY <1>16, <2>1, <3>2
      <4>2. entries = Whole(file)
        BY <1>3, <4>1, WholeIs
      <4>3. ~writer.copy.problems /\ writer.copy.problems \in BOOLEAN
        BY <1>1, <3>2, WriterFields DEF OnDisk, Erased, Refused, CopyType
      <4>4. ~Broken(file) /\ Broken(file) \in BOOLEAN
        BY <4>1 DEF Broken
      <4>5. ends = TRUE
        <5>1. ~ends => Glued
          BY <1>1, <2>1 DEF OnDisk, LineBreaks
        <5> QED
          BY <1>3, <5>1 DEF Glued
      <4> QED
        BY <4>2, <4>3, <4>4, <4>5
    <3> QED
      BY <1>1, <3>1, <3>2
  <2>3. Copy(file, ends) = [has |-> TRUE, entries |-> Whole(file), ends |-> ends, problems |-> Broken(file)]
    BY DEF Copy, Broken
  <2> QED
    BY <1>5, <2>1, <2>2, <2>3
<1> QED
  BY <1>11, <1>12, <1>13, <1>15, <1>18, <1>20, <1>21, <1>23, <1>24 DEF OnDisk

LEMMA SyncFailsKeeps ==
  ASSUME Shape, OnDisk, SyncFails
  PROVE  OnDisk'
<1>1. /\ UNCHANGED <<file, ends, mem, reading, made, acked, forgotten, cut>>
      /\ spoilt' = spoilt \cup {"nosync"} /\ writer'.at = "off" /\ writer.at = "sync"
  BY TypesOfCopies DEF SyncFails
<1>2. Copies' \subseteq Copies
  BY <1>1 DEF Copies
<1>3. InSync' /\ Erased' /\ Truth' /\ Exact' /\ Chain'
  BY <1>1 DEF InSync, Erased, Truth, Exact, Chain
<1>4. LineBreaks'
  BY <1>1 DEF OnDisk, LineBreaks, Glued
<1>5. Numbered'
  BY <1>1, <1>2 DEF OnDisk, Numbered
<1>6. AckedOnDisk' /\ Held' /\ NoNames'
  <2>1. Exposed' = Exposed
    BY <1>1 DEF Exposed
  <2> QED
    BY <1>1, <1>2, <2>1 DEF OnDisk, AckedOnDisk, Recorded, Held, NoNames, Silent, Hashes
<1> QED
  BY <1>3, <1>4, <1>5, <1>6 DEF OnDisk

LEMMA CrashKeeps ==
  ASSUME Shape, OnDisk, Crash
  PROVE  OnDisk'
<1>1. /\ writer'.at = "off" /\ ~mem'.has /\ \A r \in Readers : reading'[r].at = "off"
      /\ UNCHANGED <<made, acked, forgotten, spoilt, cut>>
  BY TypesOfCopies DEF Crash
<1>2. Copies' = {} /\ Exposed' = Exposed
  BY <1>1 DEF Copies, Exposed
<1>3. InSync' /\ Erased' /\ LineBreaks' /\ Held' /\ Truth' /\ Exact'
  BY <1>1, <1>2 DEF InSync, Erased, LineBreaks, Held, Truth, Exact
<1>4. CASE file' = file
  <2>1. AckedOnDisk'
    BY <1>1, <1>2, <1>4 DEF OnDisk, AckedOnDisk, Recorded
  <2>3. NoNames'
    BY <1>1, <1>4 DEF OnDisk, NoNames, Silent
  <2>4. Chain'
    <3>1. Whole(file)' = Whole(file)
      BY <1>4 DEF Whole
    <3> QED
      BY <1>1, <1>2, <3>1 DEF OnDisk, Chain, Linked
  <2>2. Numbered'
    BY <1>1, <1>2, <1>4 DEF OnDisk, Numbered
  <2> QED
    BY <1>3, <2>1, <2>2, <2>3, <2>4 DEF OnDisk
<1>5. CASE file' # file
  <2>1. /\ writer.op = "append" /\ writer.at = "sync" /\ file # <<>> /\ Last(file).hash = made
        /\ file' = Front(file) \/ file' = Append(Front(file), Torn)
    BY <1>5, CrashIs
  <2>2. made \notin acked
    BY <2>1 DEF OnDisk, InSync
  <2> DEFINE old == Front(file)
             n == Len(file)
  <2>3. /\ old \in Seq(LineType) /\ Last(file) \in LineType /\ file = Append(old, Last(file))
        /\ n \in Nat /\ n >= 1 /\ DOMAIN old = 1 .. (n - 1) /\ DOMAIN file = 1 .. n
        /\ Len(old) = n - 1
        /\ \A i \in 1 .. (n - 1) : old[i] = file[i]
        /\ Last(file) = file[n]
    <3>1. file \in Seq(LineType)
      BY DEF Shape
    <3>2. DOMAIN file = 1 .. n
      BY <3>1
    <3>3. /\ old \in Seq(LineType) /\ Last(file) \in LineType /\ file = Append(old, Last(file))
          /\ n \in Nat /\ n >= 1 /\ DOMAIN old = 1 .. (n - 1)
          /\ \A i \in 1 .. (n - 1) : old[i] = file[i]
          /\ Last(file) = file[n]
      BY <2>1, <3>1, FrontIs
    <3> HIDE DEF old, n
    <3>4. Len(old) = n - 1
      BY <3>3
    <3> QED
      BY <3>2, <3>3, <3>4
  <2> HIDE DEF old, n
  <2>4. /\ \A i \in DOMAIN old : i \in DOMAIN file' /\ file'[i] = file[i] /\ i \in DOMAIN file
        /\ \A i \in DOMAIN file' : (i \in DOMAIN old /\ file'[i] = file[i]) \/ file'[i] = Torn
    <3>1. CASE file' = old
      BY <2>3, <3>1
    <3>2. CASE file' = Append(old, Torn)
      <4>1. /\ DOMAIN file' = DOMAIN old \cup {Len(old) + 1} /\ file'[Len(old) + 1] = Torn
            /\ \A i \in DOMAIN old : file'[i] = old[i]
        BY <2>3, <3>2, LastOfAppend, TornIs
      <4> QED
        BY <2>3, <4>1
    <3> QED
      BY <2>1, <3>1, <3>2 DEF old
  <2>5. AckedOnDisk'
    <3> SUFFICES ASSUME "rewritten" \notin spoilt, "halved" \notin spoilt, NEW h \in acked, h \notin Exposed
                 PROVE  h \in Recorded'
      BY <1>1, <1>2 DEF AckedOnDisk
    <3>1. PICK i \in DOMAIN file : file[i].whole /\ file[i].hash = h
      BY DEF OnDisk, AckedOnDisk, Recorded
    <3>2. i # n
      BY <2>1, <2>2, <2>3, <3>1
    <3>3. i \in DOMAIN old
      BY <2>3, <3>2
    <3> QED
      BY <2>4, <3>1, <3>3 DEF Recorded
  <2>6. NoNames'
    <3> SUFFICES ASSUME "race" \notin spoilt, NEW i \in DOMAIN file', NEW p \in file'[i].who
                 PROVE  file'[i].hash > forgotten[p]
      BY <1>1 DEF NoNames, Silent
    <3>1. i \in DOMAIN old /\ file'[i] = file[i] /\ i \in DOMAIN file
      BY <2>4, TornIs
    <3> QED
      BY <3>1 DEF OnDisk, NoNames, Silent
  <2>7. Numbered'
    <3>1. made \in Nat
      BY ConstantsAssumption DEF Shape
    <3>2. \A i \in DOMAIN file' : file'[i].hash <= made
      BY <2>4, <3>1, NumbersAre, TornIs DEF OnDisk
    <3> QED
      BY <1>1, <1>2, <3>2 DEF Numbered
  <2>8. Chain'
    <3> SUFFICES ASSUME spoilt = {} PROVE LinkedBut(Whole(file'), Exposed)
      BY <1>1, <1>2 DEF Chain, Linked, LinkedBut, Whole
    <3>1. LinkedBut(Whole(file), Exposed) /\ Whole(old) \in Seq(LineType)
      BY <2>3, ChainIs, WholeIs DEF OnDisk
    <3>2. Whole(file) = IF Last(file).whole THEN Append(Whole(old), Last(file)) ELSE Whole(old)
      BY <2>3, WholeAppend
    <3>3. LinkedBut(Whole(old), Exposed)
      BY <2>3, <3>1, <3>2, LinkedAppend
    <3>4. Whole(file') = Whole(old)
      BY <2>1, <2>3, WholeAppend, TornIs DEF old
    <3> QED
      BY <3>3, <3>4
  <2> QED
    BY <1>3, <2>5, <2>6, <2>7, <2>8 DEF OnDisk
<1> QED
  BY <1>4, <1>5

-----------------------------------------------------------------------------
(* The theorems.                                                           *)

LEMMA InitHolds == Init => JInv
<1> SUFFICES ASSUME Init PROVE JInv
  OBVIOUS
<1>1. /\ file = <<>> /\ ends = TRUE /\ mem = None /\ writer = Off
      /\ reading = [r \in Readers |-> NotReading] /\ made = 0 /\ acked = {}
      /\ forgotten = [p \in Person |-> 0] /\ spoilt = {} /\ cut = {} /\ faults = 0
  BY DEF Init
<1>2. <<>> \in Seq(LineType) /\ DOMAIN <<>> = {}
  OBVIOUS
<1>3. Shape
  BY <1>1, <1>2, TypesOfCopies, ConstantsAssumption DEF Shape
<1>4. Copies = {} /\ Turns
  BY <1>1, TypesOfCopies DEF Copies, Turns
<1>5. NoRewrite /\ InSync /\ LineBreaks /\ Held /\ Erased /\ Truth /\ Exact /\ AckedOnDisk /\ Numbered
  BY <1>1, <1>2, <1>4, TypesOfCopies
     DEF NoRewrite, InSync, LineBreaks, Held, Erased, Truth, Exact, AckedOnDisk, Numbered
<1>6. NoNames
  BY <1>1, <1>2 DEF NoNames, Silent
<1>7. Chain
  <2>1. Whole(<<>>) = <<>>
    BY <1>2, WholeIs
  <2> QED
    BY <1>1, <1>2, <2>1 DEF Chain, Linked
<1> QED
  BY <1>3, <1>4, <1>5, <1>6, <1>7 DEF JInv, OnDisk

LEMMA StepHolds ==
  ASSUME JInv, Next
  PROVE  JInv'
<1>0. Shape /\ Turns /\ NoRewrite /\ OnDisk /\ InSync /\ Erased /\ LineBreaks
  BY DEF JInv, OnDisk
<1>1. Shape' /\ NoRewrite'
  BY <1>0, ShapeStep, NoRewriteStep
<1>2. ASSUME NEW r \in Readers, StartRead(r) \/ Verify(r) \/ ReadFile(r) \/ Loaded(r)
      PROVE  OnDisk' /\ Turns'
  BY <1>0, <1>2, ReadersQuiet, Quiet, TurnsOfReaders
<1>3. ASSUME NEW op \in {"append", "erase"}, NEW who \in SUBSET Person, Begins(op, who)
      PROVE  OnDisk' /\ Turns'
  BY <1>0, <1>3, BeginsQuiet, Quiet, TurnsOfBegins
<1>4. ASSUME NEW who \in SUBSET Person, Begins("append", who)
      PROVE  OnDisk' /\ Turns'
  <2>1. PICK op \in {"append", "erase"} : op = "append"
    OBVIOUS
  <2> QED
    BY <1>3, <1>4, <2>1
<1>5. ASSUME NEW p \in Person, Begins("erase", {p})
      PROVE  OnDisk' /\ Turns'
  <2>1. PICK op \in {"append", "erase"} : op = "erase"
    OBVIOUS
  <2>2. PICK who \in SUBSET Person : who = {p}
    OBVIOUS
  <2> QED
    BY <1>3, <1>5, <2>1, <2>2
<1>6. ASSUME \/ OwnLoaded \/ Write \/ CutShort \/ WriteFails \/ Refuse \/ Rename \/ RenameShort
             \/ Settle \/ SyncFails \/ Crash
      PROVE  OnDisk' /\ Turns'
  <2>1. Turns'
    BY <1>0, <1>6, TurnsOfOthers
  <2>2. OnDisk'
    BY <1>0, <1>6, OthersQuiet, Quiet, WritingKeeps, RenamingKeeps, SettleKeeps, SyncFailsKeeps, CrashKeeps
  <2> QED
    BY <2>1, <2>2
<1> QED
  BY <1>0, <1>1, <1>2, <1>4, <1>5, <1>6 DEF JInv, Next

LEMMA StutterHolds ==
  ASSUME JInv, UNCHANGED vars
  PROVE  JInv'
<1>1. UNCHANGED <<file, ends, mem, writer, reading, made, acked, forgotten, spoilt, cut, faults>>
  BY DEF vars
<1>2. Copies' = Copies /\ Recorded' = Recorded /\ Exposed' = Exposed
      /\ \A lines : Known(lines)' = Known(lines) /\ (Linked(lines)' <=> Linked(lines))
  BY <1>1 DEF Copies, Recorded, Exposed, Known, Linked
<1>3. Shape' /\ Turns' /\ NoRewrite'
  BY <1>1 DEF JInv, Shape, Turns, NoRewrite
<1>4. AckedOnDisk' /\ InSync' /\ LineBreaks' /\ Erased' /\ Numbered'
  BY <1>1, <1>2 DEF JInv, OnDisk, AckedOnDisk, InSync, LineBreaks, Erased, Refused, Numbered, Sent, Glued,
                    Forgetting, Scrub, Line
<1>5. Held' /\ NoNames'
  BY <1>1, <1>2 DEF JInv, OnDisk, Held, NoNames, Silent, Hashes
<1>6. Truth' /\ Exact' /\ Chain'
  BY <1>1, <1>2 DEF JInv, OnDisk, Truth, Exact, Chain, Copy, Agrees, Sent, Line, Broken
<1> QED
  BY <1>3, <1>4, <1>5, <1>6 DEF JInv, OnDisk

LEMMA Inductive == Spec => []JInv
<1>1. JInv /\ [Next]_vars => JInv'
  BY StepHolds, StutterHolds
<1> QED
  BY <1>1, InitHolds, PTL DEF Spec

LEMMA Consequences ==
  ASSUME JInv
  PROVE  TypeOK /\ AckedOnDisk /\ OneTruth /\ Forgotten
<1>1. TypeOK
  <2>1. /\ file \in Seq(LineType) /\ ends \in BOOLEAN /\ made \in 0 .. MaxEvents /\ acked \subseteq 1 .. made
        /\ forgotten \in [Person -> 0 .. made] /\ cut \subseteq 1 .. made /\ faults \in 0 .. MaxFaults
    BY DEF JInv, Shape
  <2>2. /\ writer.op \in {"none", "append", "erase"} /\ writer.at \in {"off", "read", "begin", "sync"}
        /\ mem \in CopyType
    BY WriterFields DEF JInv
  <2>3. mem.entries \in Seq(LineType) /\ {mem.has, mem.ends, mem.problems} \subseteq BOOLEAN
    BY <2>2 DEF CopyType
  <2> QED
    BY <2>1, <2>2, <2>3 DEF TypeOK
<1>2. AckedOnDisk /\ Chain
  BY DEF JInv, OnDisk
<1>3. MemoryIsDisk
  <2> SUFFICES ASSUME spoilt = {}, mem.has, writer.at # "sync"
               PROVE  IF cut = {} THEN mem = Copy(file, ends) ELSE Known(mem.entries) = Known(Whole(file))
    BY DEF MemoryIsDisk
  <2>1. mem \in Copies
    BY DEF Copies
  <2> QED
    BY <2>1 DEF JInv, OnDisk, Truth, Exact, Agrees
<1>4. Forgotten
  <2> SUFFICES ASSUME "race" \notin spoilt, NEW p \in Person
               PROVE  /\ \A h \in Naming(file, p) : h > forgotten[p]
                      /\ \A h \in Naming(mem.entries, p) : h > forgotten[p]
    BY DEF Forgotten
  <2>1. Silent(file)
    BY DEF JInv, OnDisk, NoNames
  <2>2. Silent(mem.entries)
    <3>1. CASE mem.has
      <4>1. mem \in Copies
        BY <3>1 DEF Copies
      <4> QED
        BY <4>1 DEF JInv, OnDisk, Held
    <3>2. CASE ~mem.has
      <4>1. mem.entries = <<>>
        BY <3>2, TypesOfCopies DEF JInv, Shape
      <4> QED
        BY <4>1 DEF Silent
    <3> QED
      BY <3>1, <3>2
  <2> QED
    BY <2>1, <2>2 DEF Naming, Silent
<1> QED
  BY <1>1, <1>2, <1>3, <1>4 DEF OneTruth

\* The journal's state has its types: the lines and the copies hold what lines are made of.
THEOREM TypesOK == Spec => []TypeOK
BY Inductive, Consequences, PTL

\* Whoever heard that an event is recorded finds it in the file for ever: across crashes,
\* torn lines, failed syncs and erasures. A write cut short costs its own line and the next
\* one at most, and an erasure more only after two overlapping reads or if its own new
\* journal was cut short (append, eraseContact).
THEOREM WhatIsHeardIsKept == Spec => []AckedOnDisk
BY Inductive, Consequences, PTL

\* The lines that can be read are one chain, and the copy everybody is answered from is
\* what is on disk, as long as no sync failed and no reads overlapped; short writes make a
\* difference for the lines they exposed only (load, append).
THEOREM TheJournalIsOneList == Spec => []OneTruth
BY Inductive, Consequences, PTL

\* Once an erasure is answered, no older line names the person again, on disk or in
\* memory, as long as no reads overlapped (eraseContact).
THEOREM TheForgottenStayUnnamed == Spec => []Forgotten
BY Inductive, Consequences, PTL
================================================================================
