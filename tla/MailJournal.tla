----------------------------- MODULE MailJournal -----------------------------
(***************************************************************************)
(* The append-only journal of the cold e-mail (esp/journal.mjs): a file of *)
(* lines, each carrying the hash of the one before it, and the copy of it  *)
(* that every reader is answered from.                                     *)
(*                                                                         *)
(* Appends and erasures wait for each other; reading the file does not:    *)
(* whoever finds no copy in memory reads it, and the last one to finish    *)
(* leaves the copy everybody uses from then on. Nobody looks at how much   *)
(* of a text a write has put on disk.                                      *)
(*                                                                         *)
(* Abstracted: a line's hash to a number of its own, its text to the       *)
(* people it names; line numbers, and the list of lines an erasure         *)
(* touched, are left out.                                                  *)
(***************************************************************************)
EXTENDS Naturals, Sequences, SequencesExt

CONSTANTS
  Person,
  Readers,    \* readers that may read the file at the same time
  Faults,     \* which of "crash", "nosync", "race", "disk" happen
  MaxEvents,  \* bound: lines ever begun
  MaxFaults   \* bound: crashes, failed syncs and failed or short writes

ASSUME ConstantsAssumption ==
  /\ Faults \subseteq {"crash", "nosync", "race", "disk"} /\ {MaxEvents, MaxFaults} \subseteq Nat

VARIABLES
  file,       \* the lines on disk, torn ones too
  ends,       \* the file ends in a line break
  mem,        \* `loaded': the copy in memory, or none
  writer,     \* the append or erasure whose turn it is
  reading,    \* what each reader of the file has so far
  made,       \* lines begun
  acked,      \* lines whose writer heard they are recorded
  forgotten,  \* the line that says a person is erased, once answered
  spoilt,     \* what went wrong before: overlapping reads, a failed sync, half a new journal
  cut,        \* lines that were written only in part
  faults

vars == <<file, ends, mem, writer, reading, made, acked, forgotten, spoilt, cut, faults>>

GENESIS == 0

\* slip: a line that cannot be read is an entry without a hash
AllOf(lines) == lines

\* the lines that can be read, in their order
Whole(lines) ==
  LET kept[i \in 0 .. Len(lines)] ==
        IF i = 0 THEN <<>>
        ELSE IF lines[i].whole THEN Append(kept[i - 1], lines[i]) ELSE kept[i - 1]
  IN kept[Len(lines)]

\* the copy that reading the file gives: what can be read, and whether all of it can
Copy(lines, e) == [has |-> TRUE, entries |-> Whole(lines), ends |-> e,
                   problems |-> \E i \in DOMAIN lines : ~lines[i].whole]

None == [has |-> FALSE, entries |-> <<>>, ends |-> TRUE, problems |-> FALSE]

\* the hash of the last entry
Tip(entries) == IF entries = <<>> THEN GENESIS ELSE Last(entries).hash

Off == [op |-> "none", at |-> "off", who |-> {}, copy |-> None, mine |-> TRUE]

\* a read of the file that is still on its way
InFlight == writer.at = "read" \/ \E r \in Readers : reading[r].at # "off"

\* a read may begin while another is on its way: nobody waits for it
MayRead == InFlight => "race" \in Faults

Overlap == IF InFlight THEN spoilt \cup {"race"} ELSE spoilt

-----------------------------------------------------------------------------
(* Reading the file: load.                                                 *)

NotReading == [at |-> "off", copy |-> None]

\* allEntries, entries, timeline: no copy in memory, so the file is read
StartRead(r) ==
  /\ reading[r].at = "off" /\ ~mem.has /\ MayRead
  /\ reading' = [reading EXCEPT ![r].at = "open"]
  /\ spoilt' = Overlap
  /\ UNCHANGED <<file, ends, mem, writer, made, acked, forgotten, cut, faults>>

\* verify: the copy is dropped once the operations before it have ended, and read again
Verify(r) ==
  /\ reading[r].at = "off" /\ writer.at = "off" /\ mem.has /\ MayRead
  /\ mem' = None
  /\ reading' = [reading EXCEPT ![r].at = "open"]
  /\ spoilt' = Overlap
  /\ UNCHANGED <<file, ends, writer, made, acked, forgotten, cut, faults>>

ReadFile(r) ==
  /\ reading[r].at = "open"
  /\ reading' = [reading EXCEPT ![r] = [at |-> "read", copy |-> Copy(file, ends)]]
  /\ UNCHANGED <<file, ends, mem, writer, made, acked, forgotten, spoilt, cut, faults>>

\* the copy takes the place of whatever is there; an operation at work keeps its own
Loaded(r) ==
  /\ reading[r].at = "read"
  /\ mem' = reading[r].copy
  /\ writer' = [writer EXCEPT !.mine = writer.at = "off"]
  /\ reading' = [reading EXCEPT ![r] = NotReading]
  /\ UNCHANGED <<file, ends, made, acked, forgotten, spoilt, cut, faults>>

-----------------------------------------------------------------------------
(* Writing: append and eraseContact, one at a time.                        *)

Begins(op, who) ==
  /\ writer.at = "off"
  /\ IF mem.has
     THEN /\ writer' = [Off EXCEPT !.op = op, !.at = "begin", !.who = who, !.copy = mem]
          /\ UNCHANGED spoilt
     ELSE /\ MayRead
          /\ writer' = [Off EXCEPT !.op = op, !.at = "read", !.who = who, !.copy = Copy(file, ends)]
          /\ spoilt' = Overlap
  /\ UNCHANGED <<file, ends, mem, reading, made, acked, forgotten, cut, faults>>

OwnLoaded ==
  /\ writer.at = "read"
  /\ mem' = writer.copy
  /\ writer' = [writer EXCEPT !.at = "begin", !.mine = TRUE]
  /\ UNCHANGED <<file, ends, reading, made, acked, forgotten, spoilt, cut, faults>>

\* the n-th line, on top of the entries of a copy
Line(entries, who, n) == [whole |-> TRUE, hash |-> n, prev |-> Tip(entries), who |-> who]

Torn == [whole |-> FALSE, hash |-> 0, prev |-> 0, who |-> {}]

\* slip: no line break first
Straight(lines, e, copy, line) ==
  IF e \/ lines = <<>> THEN Append(lines, line) ELSE Append(Front(lines), Torn)

\* the text of a line behind the end of the file, on a line of its own if the copy
\* says that the file does not end in a line break
Behind(lines, e, copy, line) ==
  IF e \/ ~copy.ends \/ lines = <<>> THEN Append(lines, line) ELSE Append(Front(lines), Torn)

Write ==
  /\ writer.op = "append" /\ writer.at = "begin" /\ made < MaxEvents
  /\ LET line == Line(writer.copy.entries, writer.who, made + 1)
     IN file' = Behind(file, ends, writer.copy, line)
  /\ ends' = TRUE /\ made' = made + 1
  /\ writer' = [writer EXCEPT !.at = "sync"]
  /\ UNCHANGED <<mem, reading, acked, forgotten, spoilt, cut, faults>>

\* a part of the text is on disk, the line break before it or more, and the rest is not:
\* the write or the sync throws, or nobody notices
CutShort ==
  /\ "disk" \in Faults /\ faults < MaxFaults /\ made < MaxEvents
  /\ writer.op = "append" /\ writer.at = "begin"
  /\ \/ ~writer.copy.ends /\ file' = file /\ ends' = TRUE
     \/ \E piece \in {Torn, Line(writer.copy.entries, writer.who, made + 1)} :
          file' = Behind(file, ends, writer.copy, piece) /\ ends' = FALSE
  /\ made' = made + 1 /\ cut' = cut \cup {made + 1} /\ faults' = faults + 1
  /\ writer' \in {Off, [writer EXCEPT !.at = "sync"]}
  /\ UNCHANGED <<mem, reading, acked, forgotten, spoilt>>

\* nothing is on disk of the line, or of the new journal, and the caller hears so
WriteFails ==
  /\ "disk" \in Faults /\ faults < MaxFaults
  /\ writer.at = "begin"
  /\ writer' = Off /\ faults' = faults + 1
  /\ UNCHANGED <<file, ends, mem, reading, made, acked, forgotten, spoilt, cut>>

\* slip: lines that also name somebody else are left alone
ScrubOwn(entries, p) ==
  [i \in DOMAIN entries |-> IF entries[i].who = {p} THEN [entries[i] EXCEPT !.who = {}]
                            ELSE entries[i]]

\* the people a line still names after p is forgotten; it keeps its hash
Scrub(entries, p) == [i \in DOMAIN entries |-> [entries[i] EXCEPT !.who = @ \ {p}]]

Refused == writer.copy.problems \/ ~writer.copy.ends

\* a journal with a line nobody can read is not rewritten
Refuse ==
  /\ writer.op = "erase" /\ writer.at = "begin" /\ Refused
  /\ writer' = Off
  /\ UNCHANGED <<file, ends, mem, reading, made, acked, forgotten, spoilt, cut, faults>>

Forgetting(p, entries, n) == Append(Scrub(entries, p), Line(entries, {}, n))

\* the new journal is complete in a file of its own, and takes the old one's place
Rename ==
  /\ writer.op = "erase" /\ writer.at = "begin" /\ ~Refused /\ made < MaxEvents
  /\ \E p \in writer.who : file' = Forgetting(p, writer.copy.entries, made + 1)
  /\ ends' = TRUE /\ made' = made + 1
  /\ writer' = [writer EXCEPT !.at = "sync"]
  /\ spoilt' = IF "race" \in spoilt THEN spoilt \cup {"rewritten"} ELSE spoilt
  /\ UNCHANGED <<mem, reading, acked, forgotten, cut, faults>>

\* the new journal is written only in part, nobody notices, and it takes the old one's place
RenameShort ==
  /\ "disk" \in Faults /\ faults < MaxFaults
  /\ writer.op = "erase" /\ writer.at = "begin" /\ ~Refused /\ made < MaxEvents
  /\ \E p \in writer.who :
       LET all == Forgetting(p, writer.copy.entries, made + 1)
       IN \E n \in DOMAIN all :
            \/ file' = SubSeq(all, 1, n) /\ ends' \in BOOLEAN /\ (n = Len(all) => ~ends')
            \/ file' = Append(SubSeq(all, 1, n - 1), Torn) /\ ends' = FALSE
  /\ made' = made + 1 /\ faults' = faults + 1
  /\ writer' = [writer EXCEPT !.at = "sync"]
  /\ spoilt' = spoilt \cup {"halved"}
  /\ UNCHANGED <<mem, reading, acked, forgotten, cut>>

Kept(copy, entries) == [copy EXCEPT !.entries = entries, !.ends = TRUE]

\* the entries with the line that was written
Done ==
  IF writer.op = "append"
  THEN {Append(writer.copy.entries, Line(writer.copy.entries, writer.who, made))}
  ELSE {Forgetting(p, writer.copy.entries, made) : p \in writer.who}

\* what was written is on disk: the copy the operation took gets the line, the caller hears
Settle ==
  /\ writer.at = "sync"
  /\ \E entries \in Done : mem' = IF writer.mine THEN Kept(writer.copy, entries) ELSE mem
  /\ acked' = acked \cup {made}
  /\ forgotten' = [p \in Person |-> IF writer.op = "erase" /\ p \in writer.who
                                    THEN made ELSE forgotten[p]]
  /\ writer' = Off
  /\ UNCHANGED <<file, ends, reading, made, spoilt, cut, faults>>

\* datasync throws: the line is there, the caller hears that it is not
SyncFails ==
  /\ "nosync" \in Faults /\ faults < MaxFaults
  /\ writer.op = "append" /\ writer.at = "sync"
  /\ writer' = Off /\ faults' = faults + 1
  /\ spoilt' = spoilt \cup {"nosync"}
  /\ UNCHANGED <<file, ends, mem, reading, made, acked, forgotten, cut>>

\* what a crash leaves of a line that was being written or was not synced yet: nothing,
\* its line break only, a part of it, or all of it but the line break; a line that ran
\* into the one before it, or was cut short already, stays as it is
Remains ==
  \/ /\ file # <<>> /\ Last(file).hash = made
     /\ \/ file' = Front(file) /\ ends' \in {writer.copy.ends, TRUE}
        \/ file' = Append(Front(file), Torn) /\ ends' = FALSE
  \/ file' = file /\ ends' \in {ends, FALSE}

Crash ==
  /\ "crash" \in Faults /\ faults < MaxFaults
  /\ IF writer.op = "append" /\ writer.at = "sync" THEN Remains ELSE UNCHANGED <<file, ends>>
  /\ writer' = Off /\ mem' = None
  /\ reading' = [r \in Readers |-> NotReading]
  /\ faults' = faults + 1
  /\ UNCHANGED <<made, acked, forgotten, spoilt, cut>>

Init ==
  /\ file = <<>> /\ ends = TRUE /\ mem = None /\ writer = Off
  /\ reading = [r \in Readers |-> NotReading]
  /\ made = 0 /\ acked = {} /\ forgotten = [p \in Person |-> 0]
  /\ spoilt = {} /\ cut = {} /\ faults = 0

Next ==
  \/ \E r \in Readers : StartRead(r) \/ Verify(r) \/ ReadFile(r) \/ Loaded(r)
  \/ \E who \in SUBSET Person : Begins("append", who)
  \/ \E p \in Person : Begins("erase", {p})
  \/ OwnLoaded \/ Write \/ CutShort \/ WriteFails \/ Refuse \/ Rename \/ RenameShort
  \/ Settle \/ SyncFails \/ Crash

Spec == Init /\ [][Next]_vars
-----------------------------------------------------------------------------
(* Properties.                                                             *)

LineType == [whole : BOOLEAN, hash : 0 .. MaxEvents, prev : 0 .. MaxEvents, who : SUBSET Person]

TypeOK ==
  /\ file \in Seq(LineType) /\ ends \in BOOLEAN
  /\ mem.entries \in Seq(LineType) /\ {mem.has, mem.ends, mem.problems} \subseteq BOOLEAN
  /\ writer.op \in {"none", "append", "erase"} /\ writer.at \in {"off", "read", "begin", "sync"}
  /\ made \in 0 .. MaxEvents /\ acked \subseteq 1 .. made
  /\ forgotten \in [Person -> 0 .. made] /\ cut \subseteq 1 .. made /\ faults \in 0 .. MaxFaults

Recorded == {file[i].hash : i \in {j \in DOMAIN file : file[j].whole}}

\* A line that was written only in part, and the one written after it: that one may
\* run into the piece, for the copy in memory says that the file ends in a line break.
Exposed == cut \cup {n + 1 : n \in cut}

\* An event whose writer was told it is recorded stands whole in the file for ever, across
\* crashes, torn lines, failed syncs and erasures: a write cut short costs its own line and
\* the next one at most. Only an erasure may lose more: after two overlapping reads, or if
\* the new journal itself was cut short (append: "once it is on disk").
AckedOnDisk ==
  "rewritten" \notin spoilt /\ "halved" \notin spoilt => acked \subseteq Recorded \cup Exposed

\* each line follows the one before it, but for the lines a short write exposed
Linked(lines) ==
  \A i \in DOMAIN lines :
    \/ lines[i].prev = IF i = 1 THEN GENESIS ELSE lines[i - 1].hash
    \/ {lines[i].hash, lines[i].prev} \cap Exposed # {}

\* The lines that can be read are one chain, whatever torn lines stand between them,
\* unless a sync failed or two reads overlapped; a short write breaks it at most before
\* and behind the lines it exposed.
Chain == spoilt = {} => Linked(Whole(file))

Known(lines) == {l \in ToSet(lines) : l.hash \notin Exposed}

\* What everybody is answered from is what a reader of the file would get, unless a
\* write is on its way; after a short write, but for the lines it exposed.
MemoryIsDisk ==
  spoilt = {} /\ mem.has /\ writer.at # "sync" =>
    IF cut = {} THEN mem = Copy(file, ends) ELSE Known(mem.entries) = Known(Whole(file))

\* The journal is one list: chained in the file, the same in memory.
OneTruth == Chain /\ MemoryIsDisk

Naming(lines, p) == {lines[i].hash : i \in {j \in DOMAIN lines : p \in lines[j].who}}

\* Once an erasure is answered no older line names the person, on disk or in memory,
\* unless two reads overlapped (eraseContact).
Forgotten ==
  "race" \notin spoilt =>
    \A p \in Person : /\ \A h \in Naming(file, p) : h > forgotten[p]
                      /\ \A h \in Naming(mem.entries, p) : h > forgotten[p]
=============================================================================
