-------------------------- MODULE MailChainProofs --------------------------
(***************************************************************************)
(* What is proved of MailChain for every number of people, campaigns,      *)
(* letters, faults and restarts: its types; that the same letter never     *)
(* goes twice; what a stop lets through, that nobody is in two campaigns,  *)
(* and that a person who was erased stays out; then that a word that came  *)
(* is kept but by the letter decided on before it, and that the letters of *)
(* a chain go out in turn.                                                 *)
(***************************************************************************)
EXTENDS MailChain, FiniteSetTheorems, WellFoundedInduction, TLAPS

Letter == {"writing", "gate", "wire", "answer", "advance", "refused"}

-----------------------------------------------------------------------------
(* Types.  A row that is not done still has a letter to come; the rows a   *)
(* pass has yet to take are active ones of the campaign it is walking.     *)

RowOK(r) == r \in Row /\ (r.st # "done" => r.step \in Step)

RowsOK ==
  /\ \A c \in Campaign, p \in Person : RowOK(enr[c][p]) /\ RowOK(saved.enr[c][p])
  /\ \A p \in Person : RowOK(rows[p])
  /\ \A p \in todo : rows[p].st = "active"
  /\ todo # {} => cur \in Campaign
  /\ pc \in Letter => who \in todo

TypeInv == TypeOK /\ RowsOK

LEMMA StepFacts == Steps \in Nat /\ Steps > 0 /\ 0 \in Step /\ Step \subseteq Nat
  BY ConstantsAssumption DEF Step

\* NoRow is a row.
LEMMA NoRowOK == RowOK(NoRow)
  BY StepFacts DEF RowOK, NoRow, Row, Step

RowStates == {"none", "active", "done", "stopped", "uncertain", "paused"}

Moved(r, s, t, d) == [r EXCEPT !.step = s, !.st = t, !.due = d]
Resumed(r, h) == [r EXCEPT !.st = "active", !.fixable = FALSE, !.held = h]

\* Several fields of a row set one after the other.
LEMMA MovedOK ==
  ASSUME NEW r \in Row, NEW s \in 0 .. Steps, NEW t \in RowStates, NEW d \in Nat
  PROVE  /\ Moved(r, s, t, d) \in Row
         /\ Moved(r, s, t, d).step = s
         /\ Moved(r, s, t, d).st = t
<1> DEFINE b == [r EXCEPT !.step = s]
<1>1. b \in Row /\ b.step = s BY DEF Row
<1> HIDE DEF b
<1> DEFINE c == [b EXCEPT !.st = t]
<1>2. c \in Row /\ c.step = s /\ c.st = t BY <1>1 DEF Row, RowStates
<1> HIDE DEF c
<1> DEFINE e == [c EXCEPT !.due = d]
<1>3. e \in Row /\ e.step = s /\ e.st = t BY <1>2 DEF Row
<1> HIDE DEF e
<1>4. e = Moved(r, s, t, d) BY Zenon DEF b, c, e, Moved
<1> QED BY <1>3, <1>4, Zenon

LEMMA ResumedOK ==
  ASSUME NEW r \in Row, NEW h \in Nat
  PROVE  /\ Resumed(r, h) \in Row
         /\ Resumed(r, h).step = r.step
<1> DEFINE b == [r EXCEPT !.st = "active"]
<1>1. b \in Row /\ b.step = r.step BY DEF Row
<1> HIDE DEF b
<1> DEFINE c == [b EXCEPT !.fixable = FALSE]
<1>2. c \in Row /\ c.step = r.step BY <1>1 DEF Row
<1> HIDE DEF c
<1> DEFINE e == [c EXCEPT !.held = h]
<1>3. e \in Row /\ e.step = r.step BY <1>2 DEF Row
<1> HIDE DEF e
<1>4. e = Resumed(r, h) BY Zenon DEF b, c, e, Resumed
<1> QED BY <1>3, <1>4, Zenon

\* The row of somebody who joins.
Joined(h) == [NoRow EXCEPT !.st = "active", !.since = h, !.held = h]

LEMMA JoinedOK == ASSUME NEW h \in Nat PROVE RowOK(Joined(h))
<1>0. NoRow \in Row /\ NoRow.step = 0 BY StepFacts DEF NoRow, Row
<1> DEFINE b == [NoRow EXCEPT !.st = "active"]
<1>1. b \in Row /\ b.step = 0 BY <1>0 DEF Row
<1> HIDE DEF b
<1> DEFINE c == [b EXCEPT !.since = h]
<1>2. c \in Row /\ c.step = 0 BY <1>1 DEF Row
<1> HIDE DEF c
<1> DEFINE e == [c EXCEPT !.held = h]
<1>3. e \in Row /\ e.step = 0 BY <1>2 DEF Row
<1> HIDE DEF e
<1>4. e = Joined(h) BY Zenon DEF b, c, e, Joined
<1> QED BY <1>3, <1>4, StepFacts DEF RowOK

\* A row stopped is a row.
LEMMA StoppedOK ==
  ASSUME NEW r, RowOK(r), r.st # "done", NEW f \in BOOLEAN
  PROVE  RowOK(Stopped(r, f))
<1>0. r \in Row /\ r.step \in Step BY DEF RowOK
<1> DEFINE b == [r EXCEPT !.st = "stopped"]
<1>1. b \in Row /\ b.step = r.step BY <1>0 DEF Row
<1> HIDE DEF b
<1> DEFINE c == [b EXCEPT !.fixable = f]
<1>2. c \in Row /\ c.step = r.step BY <1>1 DEF Row
<1> HIDE DEF c
<1>3. c = Stopped(r, f) BY Zenon DEF b, c, Stopped
<1> QED BY <1>0, <1>2, <1>3 DEF RowOK

\* A row advanced past its letter is a row, done or with a letter to come.
LEMMA AdvancedOK ==
  ASSUME NEW r, RowOK(r), r.st = "active"
  PROVE  RowOK(Advanced(r))
<1>0. r \in Row /\ r.step \in Step BY DEF RowOK
<1>1. CASE r.step + 1 = Steps
  <2>1. Advanced(r) = Moved(r, r.step + 1, "done", 0) BY <1>1 DEF Advanced, Moved
  <2>2. r.step + 1 \in 0 .. Steps /\ "done" \in RowStates
    BY <1>1, StepFacts DEF RowStates
  <2> QED BY <1>0, <2>1, <2>2, MovedOK DEF RowOK
<1>2. CASE r.step + 1 # Steps
  <2>1. r.step + 1 \in Step BY <1>0, <1>2, StepFacts DEF Step
  <2>2. Delay[r.step + 1] \in Nat BY <2>1, ConstantsAssumption
  <2>3. Advanced(r) = Moved(r, r.step + 1, "active", Delay[r.step + 1])
    BY <1>2 DEF Advanced, Moved
  <2>4. r.step + 1 \in 0 .. Steps /\ "active" \in RowStates
    BY <2>1, StepFacts DEF RowStates, Step
  <2> QED BY <1>0, <2>1, <2>2, <2>3, <2>4, MovedOK DEF RowOK
<1> QED BY <1>1, <1>2

\* Saving a row keeps the enrolments what they are.
LEMMA SaveRowOK ==
  ASSUME TypeInv, NEW c \in Campaign, NEW p \in Person, NEW r, RowOK(r), SaveRow(c, p, r)
  PROVE  enr' \in Enrolments /\ \A d \in Campaign, q \in Person : RowOK(enr'[d][q])
<1> enr \in Enrolments /\ \A d \in Campaign, q \in Person : RowOK(enr[d][q])
  BY DEF TypeInv, TypeOK, RowsOK
<1> r \in Row BY DEF RowOK
<1> QED BY DEF SaveRow, Enrolments

\* What a pass holds when it is over.
LEMMA EndTickOK ==
  ASSUME EndTick
  PROVE  /\ pc' = "idle" /\ known' = {} /\ own' = {} /\ camps' = {} /\ todo' = {}
         /\ cur' = NoCampaign /\ who' = Nobody /\ att' = 0 /\ cause' = "none"
         /\ rows' \in [Person -> Row] /\ \A p \in Person : RowOK(rows'[p])
  BY NoRowOK DEF EndTick, RowOK

\* A line written by a letter of the pass is a line of the journal.
LEMMA LineOK ==
  ASSUME last \in Nat, NEW k \in {"sending", "sent", "failed", "replied", "bounced",
                                 "unsubscribed", "autoreplied", "erased"},
         NEW p \in Person, NEW c \in Campaign \cup {NoCampaign}, NEW s \in Step,
         NEW of \in Nat
  PROVE  Line(k, p, c, s, of) \in Lines /\ Line(k, p, c, s, of).seq \in Nat
  BY DEF Line, Lines

\* A line without its address is a line.
LEMMA RedactedOK ==
  ASSUME NEW E \in SUBSET Lines, NEW p PROVE Redacted(E, p) \subseteq Lines
<1>1. \A e \in Lines : [e EXCEPT !.who = Nobody] \in Lines BY DEF Lines
<1> QED BY <1>1, Zenon DEF Redacted

\* While a letter is in hand, it is that of an active row of the campaign.
LEMMA LetterOK ==
  ASSUME TypeInv, pc \in Letter
  PROVE  /\ who \in Person /\ cur \in Campaign /\ who \in todo
         /\ RowOK(rows[who]) /\ rows[who].st = "active" /\ rows[who].step \in Step
  BY DEF TypeInv, TypeOK, RowsOK, RowOK

LEMMA InitTypes == Init => TypeInv
<1> SUFFICES ASSUME Init PROVE TypeInv OBVIOUS
<1>1. \A c \in Campaign, p \in Person : RowOK(enr[c][p])
  <2> TAKE c \in Campaign, p \in Person
  <2>1. enr[c][p] = NoRow \/ enr[c][p] = [NoRow EXCEPT !.st = "active"] BY DEF Init
  <2>2. RowOK([NoRow EXCEPT !.st = "active"])
    <3>1. NoRow \in Row /\ NoRow.step = 0 BY StepFacts DEF NoRow, Row
    <3> QED BY <3>1, StepFacts DEF RowOK, Row
  <2> QED BY <2>1, <2>2, NoRowOK
<1>2. enr \in Enrolments BY <1>1 DEF Init, Enrolments, RowOK
<1>3. saved.enr = enr /\ saved \in [camp : [Campaign -> CampState], enr : Enrolments,
                                   halted : BOOLEAN]
  BY <1>2 DEF Init, CampState
<1>4. TypeOK BY <1>2, <1>3, NoRowOK, StepFacts DEF Init, TypeOK, CampState, RowOK
<1>5. RowsOK BY <1>1, <1>3, NoRowOK DEF Init, RowsOK, Letter
<1> QED BY <1>4, <1>5 DEF TypeInv

LEMMA TickTypes == TypeInv /\ Tick => TypeInv'
<1> SUFFICES ASSUME TypeInv, Tick PROVE TypeInv' OBVIOUS
<1> USE DEF TypeInv
<1>1. CASE TickStart
  BY <1>1 DEF TickStart, TypeOK, RowsOK, Letter, stateVars, worldVars, Enrolments
<1>2. CASE TickEnds
  BY <1>2, EndTickOK DEF TickEnds, TypeOK, RowsOK, Letter, stateVars, worldVars, Enrolments
<1>3. CASE NextCampaign
  BY <1>3 DEF NextCampaign, TypeOK, RowsOK, Letter, stateVars, worldVars, Enrolments
<1>4. CASE StopForHalt
  BY <1>4, EndTickOK DEF StopForHalt, TypeOK, RowsOK, Letter, stateVars, worldVars, Enrolments
<1>5. CASE BreakOff
  BY <1>5 DEF BreakOff, TypeOK, RowsOK, Letter, stateVars, worldVars, Enrolments
<1>6. ASSUME NEW p \in Person, PassOver(p) PROVE TypeInv'
  BY <1>6 DEF PassOver, PassedBy, Sendable, Cleared, Due, Turn, TypeOK, RowsOK,
           Letter, worldVars
<1>7. ASSUME NEW p \in Person, StopPerson(p) PROVE TypeInv'
  <2>1. p \in todo /\ cur \in Campaign /\ RowOK(rows[p]) /\ rows[p].st = "active"
    BY <1>7 DEF StopPerson, Sendable, Cleared, Due, Turn, RowsOK
  <2>2. RowOK(Stopped(rows[p], FALSE))
    BY <2>1, StoppedOK DEF RowOK
  <2>3. enr' \in Enrolments /\ \A d \in Campaign, q \in Person : RowOK(enr'[d][q])
    BY <1>7, <2>1, <2>2, SaveRowOK DEF StopPerson
  <2> QED BY <1>7, <2>3 DEF StopPerson, PassedBy, Sendable, Cleared, Due, Turn, TypeOK, RowsOK,
           Letter, worldVars
<1>8. ASSUME NEW p \in Person, HoldForColleague(p) PROVE TypeInv'
  <2>1. p \in todo /\ cur \in Campaign /\ RowOK(rows[p]) /\ rows[p].st = "active"
    BY <1>8 DEF HoldForColleague, Sendable, Cleared, Due, Turn, RowsOK
  <2>2. RowOK([rows[p] EXCEPT !.st = "paused"])
    BY <2>1 DEF RowOK, Row
  <2>3. enr' \in Enrolments /\ \A d \in Campaign, q \in Person : RowOK(enr'[d][q])
    BY <1>8, <2>1, <2>2, SaveRowOK DEF HoldForColleague
  <2> QED BY <1>8, <2>3 DEF HoldForColleague, PassedBy, Sendable, Cleared, Due, Turn, TypeOK, RowsOK,
           Letter, worldVars
<1>9. ASSUME NEW p \in Person, Repair(p) PROVE TypeInv'
  <2>1. p \in todo /\ cur \in Campaign /\ RowOK(rows[p]) /\ rows[p].st = "active"
    BY <1>9 DEF Repair, Sendable, Cleared, Due, Turn, RowsOK
  <2>2. RowOK(Advanced(rows[p]))
    BY <2>1, AdvancedOK DEF RowOK
  <2>3. enr' \in Enrolments /\ \A d \in Campaign, q \in Person : RowOK(enr'[d][q])
    BY <1>9, <2>1, <2>2, SaveRowOK DEF Repair
  <2> QED BY <1>9, <2>3 DEF Repair, PassedBy, Sendable, Cleared, Due, Turn, TypeOK, RowsOK,
           Letter, worldVars
<1>10. ASSUME NEW p \in Person, SetAside(p) PROVE TypeInv'
  <2>1. p \in todo /\ cur \in Campaign /\ RowOK(rows[p]) /\ rows[p].st = "active"
    BY <1>10 DEF SetAside, Sendable, Cleared, Due, Turn, RowsOK
  <2>2. RowOK([rows[p] EXCEPT !.st = "uncertain"])
    BY <2>1 DEF RowOK, Row
  <2>3. enr' \in Enrolments /\ \A d \in Campaign, q \in Person : RowOK(enr'[d][q])
    BY <1>10, <2>1, <2>2, SaveRowOK DEF SetAside
  <2> QED BY <1>10, <2>3 DEF SetAside, PassedBy, Sendable, Cleared, Due, Turn, TypeOK, RowsOK,
           Letter, worldVars
<1>11. ASSUME NEW p \in Person, Unfit(p) PROVE TypeInv'
  <2>1. p \in todo /\ cur \in Campaign /\ RowOK(rows[p]) /\ rows[p].st = "active"
    BY <1>11 DEF Unfit, Sendable, Cleared, Due, Turn, RowsOK
  <2>2. RowOK(Stopped(rows[p], FALSE)) /\ RowOK(Stopped(rows[p], TRUE))
    BY <2>1, StoppedOK
  <2>3. enr' \in Enrolments /\ \A d \in Campaign, q \in Person : RowOK(enr'[d][q])
    BY <1>11, <2>1, <2>2, SaveRowOK DEF Unfit
  <2> QED BY <1>11, <2>3 DEF Unfit, PassedBy, Sendable, Cleared, Due, Turn, TypeOK, RowsOK,
           Letter, worldVars
<1>12. ASSUME NEW p \in Person, Compose(p) PROVE TypeInv'
  BY <1>12 DEF Compose, Sendable, Cleared, Due, Turn, TypeOK, RowsOK, Letter, stateVars,
           worldVars, Enrolments
<1>13. CASE RecordSending
  <2>1. pc \in Letter BY <1>13 DEF RecordSending, Letter
  <2>2. Line("sending", who, cur, rows[who].step, 0) \in Lines
    BY <2>1, LetterOK, LineOK DEF TypeOK
  <2> QED BY <1>13, <2>1, <2>2 DEF RecordSending, Append, Line, TypeOK, RowsOK, Letter, stateVars,
           worldVars
<1>14. CASE SendingNotRecorded
  BY <1>14 DEF SendingNotRecorded, BackToWalk, Fault, TypeOK, RowsOK, Letter, stateVars, worldVars
<1>15. CASE GateHalted
  BY <1>15 DEF GateHalted, BackToWalk, Fault, TypeOK, RowsOK, Letter, stateVars, worldVars
<1>16. CASE GateOpens
  BY <1>16 DEF GateOpens, BackToWalk, Fault, TypeOK, RowsOK, Letter, stateVars, worldVars
<1>17. CASE Refuses
  BY <1>17 DEF Refuses, BackToWalk, Fault, TypeOK, RowsOK, Letter, stateVars, worldVars
<1>18. CASE Delivers
  <2>1. pc \in Letter BY <1>18 DEF Delivers, Letter
  <2>2. delivered' \in [Campaign -> [Person -> [Step -> Nat]]]
    BY <1>18, <2>1, LetterOK DEF Delivers, TypeOK
  <2>3. late' \in [halt : Nat, camp : [Campaign -> Nat]]
    BY <1>18, <2>1, LetterOK DEF Delivers, TypeOK
  <2> QED BY <1>18, <2>1, <2>2, <2>3 DEF Delivers, TypeOK, RowsOK, Letter, stateVars
<1>19. CASE RecordSent
  <2>1. pc \in Letter BY <1>19 DEF RecordSent, Letter
  <2>2. Line("sent", who, cur, rows[who].step, att) \in Lines
    BY <2>1, LetterOK, LineOK DEF TypeOK
  <2> QED BY <1>19, <2>1, <2>2 DEF RecordSent, Append, Line, TypeOK, RowsOK, Letter, stateVars,
           worldVars
<1>20. CASE FailedNotRecorded
  BY <1>20, EndTickOK DEF FailedNotRecorded, BackToWalk, Fault, TypeOK, RowsOK, Letter, stateVars, worldVars
<1>21. CASE NoAnswer
  <2>1. pc \in Letter BY <1>21 DEF NoAnswer, Letter
  <2>2. RowOK([rows[who] EXCEPT !.st = "uncertain"]) BY <2>1, LetterOK DEF RowOK, Row
  <2>3. enr' \in Enrolments /\ \A d \in Campaign, q \in Person : RowOK(enr'[d][q])
    BY <1>21, <2>1, <2>2, LetterOK, SaveRowOK DEF NoAnswer
  <2> QED BY <1>21, <2>3 DEF NoAnswer, BackToWalk, Fault, TypeOK, RowsOK, Letter, worldVars
<1>22. CASE SaveAdvance
  <2>1. pc \in Letter BY <1>22 DEF SaveAdvance, Letter
  <2>2. RowOK(Advanced(rows[who])) BY <2>1, LetterOK, AdvancedOK
  <2>3. enr' \in Enrolments /\ \A d \in Campaign, q \in Person : RowOK(enr'[d][q])
    BY <1>22, <2>1, <2>2, LetterOK, SaveRowOK DEF SaveAdvance
  <2> QED BY <1>22, <2>3 DEF SaveAdvance, BackToWalk, TypeOK, RowsOK, Letter, worldVars
<1>23. CASE RecordFailed
  <2>1. pc \in Letter BY <1>23 DEF RecordFailed, Letter
  <2>2. Line("failed", who, cur, rows[who].step, att) \in Lines
    BY <2>1, LetterOK, LineOK DEF TypeOK
  <2>3. journal' \subseteq Lines /\ last' \in Nat
    BY <1>23, <2>2 DEF RecordFailed, Append, TypeOK
  <2>4. CASE cause = "endTick" /\ EndTick /\ UNCHANGED enr
    BY <1>23, <2>3, <2>4, EndTickOK DEF RecordFailed, TypeOK, RowsOK, Letter, worldVars
  <2>5. CASE /\ cause = "letter" /\ BackToWalk
             /\ own' = own \cup {Line("failed", who, cur, rows[who].step, att)}
             /\ SaveRow(cur, who, Stopped(rows[who], FALSE))
             /\ UNCHANGED <<known, camps, cur, rows>>
    <3>1. RowOK(Stopped(rows[who], FALSE)) BY <2>1, LetterOK, StoppedOK
    <3>2. enr' \in Enrolments /\ \A d \in Campaign, q \in Person : RowOK(enr'[d][q])
      BY <2>1, <2>5, <3>1, LetterOK, SaveRowOK
    <3> QED BY <1>23, <2>2, <2>3, <2>5, <3>2
            DEF RecordFailed, BackToWalk, TypeOK, RowsOK, Letter, worldVars
  <2>6. CASE /\ cause = "again" /\ BackToWalk
             /\ own' = own \cup {Line("failed", who, cur, rows[who].step, att)}
             /\ UNCHANGED <<enr, known, camps, cur, rows>>
    BY <1>23, <2>2, <2>3, <2>6
       DEF RecordFailed, BackToWalk, TypeOK, RowsOK, Letter, worldVars
  <2> QED BY <1>23, <2>4, <2>5, <2>6 DEF RecordFailed
<1> QED BY <1>1, <1>2, <1>3, <1>4, <1>5, <1>6, <1>7, <1>8, <1>9, <1>10, <1>11, <1>12, <1>13, <1>14, <1>15, <1>16, <1>17, <1>18, <1>19, <1>20, <1>21, <1>22, <1>23 DEF Tick

\* Nothing that happens around a pass changes a row into something else.
LEMMA EnrolOK ==
  ASSUME TypeInv, UNCHANGED <<saved, tickVars>>,
         enr' \in [Campaign -> [Person -> Row]],
         \A c \in Campaign, p \in Person : RowOK(enr'[c][p])
  PROVE  RowsOK' /\ enr' \in Enrolments
  BY DEF TypeInv, TypeOK, RowsOK, Letter, tickVars, Enrolments

LEMMA RoutesTypes == TypeInv /\ Routes => TypeInv'
<1> SUFFICES ASSUME TypeInv, Routes PROVE TypeInv' OBVIOUS
<1> DEFINE Others == /\ enr' \in [Campaign -> [Person -> Row]]
                     /\ \A c \in Campaign, p \in Person : RowOK(enr'[c][p])
<1>a. /\ enr \in [Campaign -> [Person -> Row]]
      /\ \A c \in Campaign, p \in Person : RowOK(enr[c][p]) /\ enr[c][p] \in Row
  BY DEF TypeInv, TypeOK, RowsOK, Enrolments
<1>b. (UNCHANGED enr) => Others BY <1>a
<1>1. ASSUME NEW c \in Campaign, Start(c) PROVE TypeInv'
  <2>1. Others BY <1>1, <1>b DEF Start
  <2> QED BY <1>1, <2>1, EnrolOK DEF Start, quiet, TypeInv, TypeOK, tickVars, CampState
<1>2. ASSUME NEW c \in Campaign, Pause(c) PROVE TypeInv'
  <2>1. Others BY <1>2, <1>b DEF Pause
  <2> QED BY <1>2, <2>1, EnrolOK DEF Pause, quiet, TypeInv, TypeOK, tickVars, CampState
<1>3. ASSUME NEW c \in Campaign, Finish(c) PROVE TypeInv'
  <2>1. Others BY <1>3, <1>b DEF Finish
  <2> QED BY <1>3, <2>1, EnrolOK DEF Finish, quiet, TypeInv, TypeOK, tickVars, CampState
<1>4. ASSUME NEW c \in Campaign, Remove(c) PROVE TypeInv'
  <2>1. Others BY <1>4, <1>b DEF Remove
  <2> QED BY <1>4, <2>1, EnrolOK DEF Remove, quiet, TypeInv, TypeOK, tickVars, CampState
<1>5. ASSUME NEW c \in Campaign, FinishPeople(c) PROVE TypeInv'
  <2> DEFINE row(p) == IF enr[c][p].st = "active" THEN Stopped(enr[c][p], FALSE) ELSE enr[c][p]
  <2>1. \A p \in Person : RowOK(row(p)) BY <1>a, StoppedOK
  <2>2. enr' = [enr EXCEPT ![c] = [p \in Person |-> row(p)]] BY <1>5 DEF FinishPeople
  <2> HIDE DEF row
  <2>3. Others BY <1>a, <2>1, <2>2 DEF RowOK
  <2> QED BY <1>5, <2>3, EnrolOK DEF FinishPeople, quiet, TypeInv, TypeOK, tickVars
<1>6. ASSUME NEW c \in Campaign, RemovePeople(c) PROVE TypeInv'
  <2>1. Others BY <1>6, <1>a, NoRowOK DEF RemovePeople, RowOK
  <2> QED BY <1>6, <2>1, EnrolOK DEF RemovePeople, quiet, TypeInv, TypeOK, tickVars
<1>7. ASSUME NEW c \in Campaign, NEW p \in Person, Enroll(c, p) PROVE TypeInv'
  <2> DEFINE row == Joined(last)
  <2>2. RowOK(row) BY JoinedOK DEF TypeInv, TypeOK
  <2>3. enr' = [enr EXCEPT ![c][p] = row] \/ enr' = enr BY <1>7, Zenon DEF Enroll, Joined
  <2> HIDE DEF row
  <2>4. Others BY <1>a, <2>2, <2>3 DEF RowOK
  <2> QED BY <1>7, <2>4, EnrolOK DEF Enroll, quiet, TypeInv, TypeOK, tickVars
<1>17. ASSUME NEW c \in Campaign, NEW p \in Person, EnrolCheck(c, p) PROVE TypeInv'
  <2>1. Others BY <1>17, <1>b DEF EnrolCheck, stateVars
  <2> QED BY <1>17, <2>1, EnrolOK DEF EnrolCheck, quiet, TypeInv, TypeOK, tickVars, stateVars
<1>8. ASSUME NEW c \in Campaign, NEW p \in Person, ResumePerson(c, p) PROVE TypeInv'
  <2> DEFINE mid == [enr EXCEPT ![c][p].st = "active"]
  <2>0. enr[c][p].st # "done" /\ last \in Nat BY <1>8 DEF ResumePerson, TypeInv, TypeOK
  <2>1. /\ mid \in [Campaign -> [Person -> Row]]
        /\ \A d \in Campaign, q \in Person : RowOK(mid[d][q])
    <3>1. RowOK([enr[c][p] EXCEPT !.st = "active"]) BY <1>a, <2>0 DEF RowOK, Row
    <3>2. mid = [enr EXCEPT ![c][p] = [enr[c][p] EXCEPT !.st = "active"]] BY <1>a
    <3> QED BY <1>a, <3>1, <3>2 DEF RowOK
  <2>2. enr' = [mid EXCEPT ![c][p].held = last] BY <1>8 DEF ResumePerson
  <2> HIDE DEF mid
  <2>3. Others
    <3>1. RowOK([mid[c][p] EXCEPT !.held = last]) BY <2>0, <2>1 DEF RowOK, Row
    <3>2. enr' = [mid EXCEPT ![c][p] = [mid[c][p] EXCEPT !.held = last]] BY <2>1, <2>2
    <3> QED BY <2>1, <3>1, <3>2 DEF RowOK
  <2> QED BY <1>8, <2>3, EnrolOK DEF ResumePerson, quiet, TypeInv, TypeOK, tickVars
<1>9. ASSUME NEW c \in Campaign, NEW p \in Person, Postpone(c, p) PROVE TypeInv'
  <2>1. away[p] \in Nat BY DEF TypeInv, TypeOK
  <2>2. RowOK([enr[c][p] EXCEPT !.due = away[p]]) BY <1>a, <2>1 DEF RowOK, Row
  <2>4. Others
    <3>1. CASE enr[c][p].st = "active" /\ enr[c][p].due < away[p]
      <4>1. enr' = [enr EXCEPT ![c][p].due = away[p]] BY <1>9, <3>1 DEF Postpone
      <4>2. enr' = [enr EXCEPT ![c][p] = [enr[c][p] EXCEPT !.due = away[p]]] BY <1>a, <4>1
      <4> QED BY <1>a, <2>2, <4>2 DEF RowOK
    <3>2. CASE ~(enr[c][p].st = "active" /\ enr[c][p].due < away[p])
      BY <1>9, <1>b, <3>2 DEF Postpone
    <3> QED BY <3>1, <3>2
  <2> QED BY <1>9, <2>4, EnrolOK DEF Postpone, quiet, TypeInv, TypeOK, tickVars
<1>10. ASSUME NEW p \in Person, Erase(p) PROVE TypeInv'
  <2>1. Others BY <1>10, <1>b DEF Erase, stateVars
  <2>2. Line("erased", p, NoCampaign, 0, 0) \in Lines
    BY StepFacts, LineOK DEF TypeInv, TypeOK
  <2>3. Redacted(journal, p) \subseteq Lines BY RedactedOK DEF TypeInv, TypeOK
  <2> QED BY <1>10, <2>1, <2>2, <2>3, EnrolOK
          DEF Erase, quiet, TypeInv, TypeOK, tickVars, stateVars
<1>11. ASSUME NEW p \in Person, Forget(p) PROVE TypeInv'
  <2>1. Others BY <1>11, <1>a, NoRowOK DEF Forget, RowOK
  <2> QED BY <1>11, <2>1, EnrolOK DEF Forget, quiet, TypeInv, TypeOK, tickVars
<1>12. ASSUME NEW p \in Person, Unsubscribe(p) PROVE TypeInv'
  <2>1. Others BY <1>12, <1>b DEF Unsubscribe, stateVars
  <2>2. \A c \in Campaign, s \in Step : Line("unsubscribed", p, c, s, 0) \in Lines
    BY LineOK DEF TypeInv, TypeOK
  <2> QED BY <1>12, <2>1, <2>2, EnrolOK
          DEF Unsubscribe, Append, quiet, TypeInv, TypeOK, tickVars, stateVars
<1>13. ASSUME NEW p \in Person, AutoReply(p) PROVE TypeInv'
  <2>1. Others BY <1>13, <1>b DEF AutoReply, stateVars
  <2>2. \A e \in journal : Line("autoreplied", p, e.camp, e.step, 0) \in Lines
    BY LineOK DEF TypeInv, TypeOK, Lines
  <2>3. away' \in [Person -> Nat] BY <1>13, ConstantsAssumption DEF AutoReply, TypeInv, TypeOK
  <2> QED BY <1>13, <2>1, <2>2, <2>3, EnrolOK
          DEF AutoReply, Append, quiet, TypeInv, TypeOK, tickVars, stateVars
<1>14. ASSUME NEW p \in Person, NEW k \in {"replied", "bounced"}, Inbound(p, k) PROVE TypeInv'
  <2>1. Others BY <1>14, <1>b DEF Inbound, stateVars
  <2>2. \A e \in journal : Line(k, p, e.camp, e.step, 0) \in Lines
    BY LineOK DEF TypeInv, TypeOK, Lines
  <2> QED BY <1>14, <2>1, <2>2, EnrolOK
          DEF Inbound, Append, quiet, TypeInv, TypeOK, tickVars, stateVars
<1>15. CASE ResumeStopped
  <2> DEFINE row(c, p) == IF Resumable(enr[c][p]) THEN Resumed(enr[c][p], last) ELSE enr[c][p]
  <2>0. last \in Nat BY DEF TypeInv, TypeOK
  <2>1. \A c \in Campaign, p \in Person : RowOK(row(c, p))
    BY <1>a, <2>0, ResumedOK DEF RowOK, Resumable
  <2>2. enr' = [c \in Campaign |-> [p \in Person |-> row(c, p)]]
    BY <1>15, Zenon DEF ResumeStopped, Resumed
  <2> HIDE DEF row
  <2>3. Others BY <2>1, <2>2 DEF RowOK
  <2> QED BY <1>15, <2>3, EnrolOK DEF ResumeStopped, quiet, TypeInv, TypeOK, tickVars
<1>16. CASE SetHalt
  <2>1. Others BY <1>16, <1>b DEF SetHalt
  <2>2. faults' \in Nat /\ halted' \in BOOLEAN
    BY <1>16 DEF SetHalt, Fault, TypeInv, TypeOK
  <2>3. late' \in [halt : Nat, camp : [Campaign -> Nat]]
    BY <1>16 DEF SetHalt, TypeInv, TypeOK
  <2> QED BY <1>16, <2>1, <2>2, <2>3, EnrolOK DEF SetHalt, TypeInv, TypeOK, tickVars
<1> QED BY <1>1, <1>2, <1>3, <1>4, <1>5, <1>6, <1>7, <1>8, <1>9, <1>10, <1>11, <1>12, <1>13, <1>14, <1>15, <1>16,
            <1>17 DEF Routes

LEMMA TomorrowOK ==
  ASSUME NEW e \in Enrolments, \A c \in Campaign, p \in Person : RowOK(e[c][p])
  PROVE  Tomorrow(e) \in Enrolments /\ \A c \in Campaign, p \in Person : RowOK(Tomorrow(e)[c][p])
<1> DEFINE row(c, p) == [e[c][p] EXCEPT !.due = Less(@)]
<1>1. \A c \in Campaign, p \in Person : RowOK(row(c, p)) BY DEF RowOK, Row, Less
<1>2. Tomorrow(e) = [c \in Campaign |-> [p \in Person |-> row(c, p)]] BY DEF Tomorrow
<1> HIDE DEF row
<1> QED BY <1>1, <1>2 DEF Enrolments, RowOK

LEMMA NextTypes == TypeInv /\ [Next]_vars => TypeInv'
<1> SUFFICES ASSUME TypeInv, [Next]_vars PROVE TypeInv' OBVIOUS
<1>1. CASE Tick BY <1>1, TickTypes
<1>2. CASE Routes BY <1>2, RoutesTypes
<1>3. CASE DayPasses
  <2>0. saved \in [camp : [Campaign -> CampState], enr : Enrolments, halted : BOOLEAN]
        /\ saved' = [saved EXCEPT !.enr = Tomorrow(saved.enr)]
    BY <1>3 DEF DayPasses, TypeInv, TypeOK
  <2>a. Tomorrow(enr) \in Enrolments /\ Tomorrow(saved.enr) \in Enrolments
        /\ \A c \in Campaign, p \in Person :
             RowOK(Tomorrow(enr)[c][p]) /\ RowOK(Tomorrow(saved.enr)[c][p])
    BY <2>0, TomorrowOK DEF TypeInv, TypeOK, RowsOK
  <2>1. /\ enr' \in Enrolments /\ saved'.enr \in Enrolments
        /\ saved' \in [camp : [Campaign -> CampState], enr : Enrolments, halted : BOOLEAN]
        /\ \A c \in Campaign, p \in Person : RowOK(enr'[c][p]) /\ RowOK(saved'.enr[c][p])
    BY <1>3, <2>0, <2>a DEF DayPasses
  <2>2. away' \in [Person -> Nat]
    <3>1. \A n \in Nat : Less(n) \in Nat BY DEF Less
    <3>2. \A p \in Person : away[p] \in Nat BY DEF TypeInv, TypeOK
    <3> QED BY <1>3, <3>1, <3>2 DEF DayPasses
  <2> QED BY <1>3, <2>1, <2>2 DEF DayPasses, TypeInv, TypeOK, RowsOK, tickVars, Letter
<1>4. CASE Persist
  BY <1>4 DEF Persist, TypeInv, TypeOK, RowsOK, tickVars, stateVars, worldVars, Letter
<1>5. CASE Crash
  BY <1>5, EndTickOK DEF Crash, Fault, TypeInv, TypeOK, RowsOK, worldVars, Letter
<1>6. CASE UNCHANGED vars
  BY <1>6 DEF vars, stateVars, tickVars, worldVars, TypeInv, TypeOK, RowsOK, Letter
<1> QED BY <1>1, <1>2, <1>3, <1>4, <1>5, <1>6 DEF Next

\* The variables keep their shapes, and a row that is not done has a letter to
\* come, in every behaviour of the chain.
THEOREM Types == Spec => []TypeInv
<1> QED BY InitTypes, NextTypes, PTL DEF Spec

THEOREM TypesOK == Spec => []TypeOK
<1>1. TypeInv => TypeOK BY DEF TypeInv
<1> QED BY Types, <1>1, PTL

-----------------------------------------------------------------------------
(* Once.  A letter that was delivered stays covered: the journal holds its *)
(* attempt without a failure, or the person has been erased; and the pass  *)
(* at work, whose copy of the journal is older, can see so itself.         *)

\* An attempt that no failure answers.
Sealed(E, c, p, s) ==
  \E a \in Attempts(E, c, p, s) : \A e \in Outcomes(E, a) : e.kind = "sent"

\* K keeps p out altogether, or E keeps p from this letter.
Covered(K, E, c, p, s) == Told(K, p, {"erased"}) \/ Sealed(E, c, p, s)

AllCovered(K, E) ==
  \A c \in Campaign, p \in Person, s \in Step :
    delivered[c][p][s] # 0 => Covered(K, E, c, p, s)

InHand(e) == e.kind = "sending" /\ e.seq = att
MyLetter(e) == InHand(e) /\ e.who = who /\ e.camp = cur /\ e.step = rows[who].step
Outcome(e) == e.kind \in {"sent", "failed"} /\ e.of = att
Every == journal \cup known \cup own

\* No line is numbered, or speaks of a line, past the journal's end.
Numbered(E, n) == \A e \in E : e.seq <= n /\ e.of <= n

\* The letter in hand has not been delivered before its answer comes; its
\* attempt has a number of its own and no outcome.
Unsent == pc \in {"writing", "gate", "wire", "refused"} =>
            delivered[cur][who][rows[who].step] = 0
OwnNumber == pc \in {"gate", "wire", "refused"} =>
               \A e \in Every : InHand(e) /\ e.who \in Person => MyLetter(e)
Unanswered == pc \in {"gate", "wire"} =>
                /\ \A e \in Every : ~Outcome(e)
                /\ \E e \in own : MyLetter(e)
                /\ Told(journal, who, {"erased"}) \/ \E e \in journal : MyLetter(e)
Open == Unsent /\ OwnNumber /\ Unanswered

OnceInv ==
  /\ AtMostOnce
  /\ AllCovered(journal, journal)
  /\ pc # "idle" => AllCovered(known, Journaled)
  /\ pc = "idle" => known = {} /\ own = {}
  /\ Numbered(Every, last) /\ att <= last
  /\ Open

-----------------------------------------------------------------------------
(* What sealing is worth, and what keeps it.                               *)

\* A sealed letter is seen to be sent or in flight.
LEMMA SealedSeen ==
  ASSUME NEW E, NEW c, NEW p, NEW s, Sealed(E, c, p, s)
  PROVE  WasSent(E, c, p, s) \/ InFlight(E, c, p, s)
<1> PICK a \in Attempts(E, c, p, s) : \A e \in Outcomes(E, a) : e.kind = "sent"
  BY DEF Sealed
<1>1. CASE Outcomes(E, a) = {} BY <1>1 DEF InFlight
<1>2. CASE Outcomes(E, a) # {} BY <1>2 DEF WasSent
<1> QED BY <1>1, <1>2

\* A line that is no failure of its attempt leaves a letter sealed.
LEMMA SealedGrows ==
  ASSUME NEW E, NEW c, NEW p, NEW s, NEW f, Sealed(E, c, p, s),
         \A a \in Attempts(E, c, p, s) : f.kind = "failed" => f.of # a.seq
  PROVE  Sealed(E \cup {f}, c, p, s)
<1> PICK a \in Attempts(E, c, p, s) : \A e \in Outcomes(E, a) : e.kind = "sent"
  BY DEF Sealed
<1>1. a \in Attempts(E \cup {f}, c, p, s) BY DEF Attempts
<1>2. ASSUME NEW e \in Outcomes(E \cup {f}, a) PROVE e.kind = "sent"
  <2>1. CASE e \in E BY <2>1 DEF Outcomes
  <2>2. CASE e = f BY <2>2 DEF Outcomes
  <2> QED BY <2>1, <2>2 DEF Outcomes
<1> QED BY <1>1, <1>2 DEF Sealed

\* Taking q's address off the journal leaves another person's letters sealed.
LEMMA SealedRedacted ==
  ASSUME NEW E, NEW c, NEW p \in Person, NEW s, NEW q, q # p, Sealed(E, c, p, s),
         E \subseteq Lines
  PROVE  Sealed(Redacted(E, q), c, p, s)
<1> DEFINE R(e) == IF e.who = q /\ e.kind # "erased" THEN [e EXCEPT !.who = Nobody] ELSE e
<1>0. Redacted(E, q) = {R(e) : e \in E} BY Zenon DEF Redacted
<1> PICK a \in Attempts(E, c, p, s) : \A e \in Outcomes(E, a) : e.kind = "sent"
  BY DEF Sealed
<1>1. a \in E /\ a.who = p /\ R(a) = a BY DEF Attempts
<1>2. a \in Attempts(Redacted(E, q), c, p, s) BY <1>0, <1>1 DEF Attempts
<1>3. ASSUME NEW e \in Outcomes(Redacted(E, q), a) PROVE e.kind = "sent"
  <2>1. PICK f \in E : e = R(f) BY <1>0 DEF Outcomes
  <2>2. e.who = p BY <1>1 DEF Outcomes
  <2>3. CASE f.who = q /\ f.kind # "erased"
    <3>1. e = [f EXCEPT !.who = Nobody] BY <2>1, <2>3
    <3>2. e.who = Nobody BY <3>1 DEF Lines
    <3> QED BY <2>2, <3>2, ConstantsAssumption
  <2>4. CASE ~(f.who = q /\ f.kind # "erased")
    <3>1. e = f BY <2>1, <2>4
    <3>2. f \in Outcomes(E, a) BY <3>1 DEF Outcomes
    <3> QED BY <3>1, <3>2
  <2> QED BY <2>3, <2>4
<1> QED BY <1>2, <1>3 DEF Sealed
-----------------------------------------------------------------------------
(* The steps, in groups.                                                   *)

\* The pass goes on to somebody else, or over to another campaign.
LEMMA BackOnWalk ==
  ASSUME TypeInv, OnceInv, pc # "idle", pc' = "walk", att' \in {0, att},
         UNCHANGED <<journal, last, known, own, delivered>>
  PROVE  OnceInv'
<1>1. AtMostOnce' BY DEF OnceInv, AtMostOnce
<1>2. AllCovered(journal, journal)' BY DEF OnceInv, AllCovered
<1>3. AllCovered(known, Journaled)' BY DEF OnceInv, AllCovered, Journaled
<1>4. Numbered(Every, last)' BY DEF OnceInv, Numbered, Every
<1>5. att' <= last' BY DEF OnceInv, TypeInv, TypeOK
<1>6. Open' BY DEF Open, Unsent, OwnNumber, Unanswered
<1> QED BY <1>1, <1>2, <1>3, <1>4, <1>5, <1>6 DEF OnceInv

\* The pass is over, or the server restarts.
LEMMA PassEnds ==
  ASSUME TypeInv, OnceInv, EndTick, UNCHANGED <<journal, last, delivered>>
  PROVE  OnceInv'
<1>0. pc' = "idle" /\ known' = {} /\ own' = {} /\ att' = 0 BY DEF EndTick
<1>1. AtMostOnce' BY DEF OnceInv, AtMostOnce
<1>2. AllCovered(journal, journal)' BY DEF OnceInv, AllCovered
<1>4. Numbered(Every, last)' BY <1>0 DEF OnceInv, Numbered, Every
<1>5. att' <= last' BY <1>0 DEF TypeInv, TypeOK
<1>6. Open' BY <1>0 DEF Open, Unsent, OwnNumber, Unanswered
<1> QED BY <1>0, <1>1, <1>2, <1>4, <1>5, <1>6 DEF OnceInv

\* Somebody else writes a line: it is no outcome of the letter in hand.
LEMMA LineFromOutside ==
  ASSUME TypeInv, OnceInv, NEW f \in Lines, f.kind \notin {"sending", "sent", "failed"},
         f.of = 0, f.seq = last + 1,
         Append(f), UNCHANGED <<tickVars, delivered>>
  PROVE  OnceInv'
<1> USE DEF tickVars
<1>0. journal' = journal \cup {f} /\ last' = last + 1 /\ last \in Nat /\ att \in Nat
      /\ journal \subseteq Lines
  BY DEF Append, TypeInv, TypeOK
<1>1. AtMostOnce' BY DEF OnceInv, AtMostOnce
<1>2. AllCovered(journal, journal)'
  <2> SUFFICES ASSUME NEW c \in Campaign, NEW p \in Person, NEW s \in Step,
                      delivered[c][p][s] # 0
               PROVE  Covered(journal', journal', c, p, s)
    BY DEF AllCovered
  <2>1. CASE Told(journal, p, {"erased"}) BY <1>0, <2>1 DEF Told, Covered
  <2>2. CASE Sealed(journal, c, p, s) BY <1>0, <2>2, SealedGrows DEF Covered
  <2> QED BY <2>1, <2>2 DEF OnceInv, AllCovered, Covered
<1>3. pc' # "idle" => AllCovered(known, Journaled)' BY DEF OnceInv, AllCovered, Journaled
<1>4. Numbered(Every, last)'
  <2>1. \A e \in Every : e.seq \in Nat /\ e.of \in Nat
    BY DEF Every, TypeInv, TypeOK, Lines
  <2>2. Every' = Every \cup {f} BY <1>0 DEF Every
  <2> QED BY <1>0, <2>1, <2>2 DEF OnceInv, Numbered
<1>5. att' <= last' BY <1>0 DEF OnceInv
<1>6. Open'
  <2>1. Every' = Every \cup {f} BY <1>0 DEF Every
  <2>2. Unsent' BY DEF OnceInv, Open, Unsent
  <2>3. OwnNumber' BY <2>1 DEF OnceInv, Open, OwnNumber, InHand, MyLetter
  <2>4. Unanswered' BY <1>0, <2>1 DEF OnceInv, Open, Unanswered, Outcome, InHand, MyLetter, Told
  <2> QED BY <2>2, <2>3, <2>4 DEF Open
<1> QED BY <1>1, <1>2, <1>3, <1>4, <1>5, <1>6 DEF OnceInv

\* Nothing of the journal or of the pass changes.
LEMMA Aside ==
  ASSUME OnceInv, UNCHANGED <<journal, last, tickVars, delivered>>
  PROVE  OnceInv'
BY DEF tickVars, OnceInv, AtMostOnce, AllCovered, Covered, Sealed, Told, Attempts, Outcomes,
       Journaled, Numbered, Every, Open, Unsent, OwnNumber, Unanswered, InHand, MyLetter, Outcome

\* A person is erased: their letters are covered by contact.erased.
LEMMA ErasedOnce ==
  ASSUME TypeInv, OnceInv, NEW q \in Person, Erase(q)
  PROVE  OnceInv'
<1> USE DEF tickVars
<1> DEFINE f == Line("erased", q, NoCampaign, 0, 0)
<1>0. /\ journal' = Redacted(journal, q) \cup {f} /\ last' = last + 1
      /\ last \in Nat /\ att \in Nat /\ journal \subseteq Lines
      /\ UNCHANGED <<tickVars, delivered>>
  BY DEF Erase, quiet, TypeInv, TypeOK
<1>f. f.kind = "erased" /\ f.who = q /\ f.seq = last + 1 /\ f.of = 0 BY DEF Line
<1> HIDE DEF f
<1>r. ASSUME NEW e \in Redacted(journal, q)
      PROVE  \E g \in journal : /\ g.seq = e.seq /\ g.of = e.of /\ g.kind = e.kind
                                /\ e.who = g.who \/ e.who = Nobody
                                /\ e.camp = g.camp /\ e.step = g.step
  <2>1. PICK g \in journal :
          e = IF g.who = q /\ g.kind # "erased" THEN [g EXCEPT !.who = Nobody] ELSE g
    BY Zenon DEF Redacted
  <2>2. g \in Lines BY <1>0
  <2>3. CASE g.who = q /\ g.kind # "erased"
    <3>1. e = [g EXCEPT !.who = Nobody] BY <2>1, <2>3
    <3> QED BY <2>2, <3>1 DEF Lines
  <2>4. CASE ~(g.who = q /\ g.kind # "erased") BY <2>1, <2>4
  <2> QED BY <2>3, <2>4
<1>1. AtMostOnce' BY <1>0 DEF OnceInv, AtMostOnce
<1>2. AllCovered(journal, journal)'
  <2> SUFFICES ASSUME NEW c \in Campaign, NEW p \in Person, NEW s \in Step,
                      delivered[c][p][s] # 0
               PROVE  Covered(journal', journal', c, p, s)
    BY <1>0 DEF AllCovered
  <2>1. CASE p = q BY <1>0, <1>f, <2>1 DEF Covered, Told
  <2>2. CASE p # q /\ Told(journal, p, {"erased"})
    <3>1. PICK e \in journal : e.kind = "erased" /\ e.who = p BY <2>2 DEF Told
    <3>2. e \in Redacted(journal, q) BY <3>1 DEF Redacted
    <3> QED BY <1>0, <3>1, <3>2 DEF Covered, Told
  <2>3. CASE p # q /\ Sealed(journal, c, p, s)
    <3>1. Sealed(Redacted(journal, q), c, p, s) BY <1>0, <2>3, SealedRedacted
    <3>2. Sealed(journal', c, p, s) BY <1>0, <1>f, <3>1, SealedGrows
    <3> QED BY <3>2 DEF Covered
  <2> QED BY <2>1, <2>2, <2>3 DEF OnceInv, AllCovered, Covered
<1>3. pc' # "idle" => AllCovered(known, Journaled)'
  BY <1>0 DEF OnceInv, AllCovered, Journaled
<1>4. Numbered(Every, last)'
  <2>1. \A e \in Every : e.seq \in Nat /\ e.of \in Nat
    BY DEF Every, TypeInv, TypeOK, Lines
  <2>2. \A e \in Redacted(journal, q) : e.seq <= last /\ e.of <= last
    BY <1>r DEF OnceInv, Numbered, Every
  <2>3. \A e \in Redacted(journal, q) : e.seq \in Nat /\ e.of \in Nat
    BY <1>r, <2>1 DEF Every
  <2> QED BY <1>0, <1>f, <2>1, <2>2, <2>3 DEF OnceInv, Numbered, Every
<1>5. att' <= last' BY <1>0 DEF OnceInv
<1>6. Open'
  <2>1. Unsent' BY <1>0 DEF OnceInv, Open, Unsent
  <2>2. OwnNumber'
    <3> SUFFICES ASSUME pc \in {"gate", "wire", "refused"}, NEW e \in Every',
                        e.kind = "sending", e.seq = att, e.who \in Person
                 PROVE  e.who = who /\ e.camp = cur /\ e.step = rows[who].step
      BY <1>0 DEF OwnNumber, InHand, MyLetter
    <3>1. CASE e \in known \cup own
      BY <3>1 DEF OnceInv, Open, OwnNumber, Every, InHand, MyLetter
    <3>2. CASE e \in Redacted(journal, q)
      BY <1>r, <3>2, ConstantsAssumption
         DEF OnceInv, Open, OwnNumber, Every, InHand, MyLetter
    <3>3. CASE e = f BY <1>f, <3>3
    <3> QED BY <1>0, <3>1, <3>2, <3>3 DEF Every
  <2>3. Unanswered'
    <3> SUFFICES ASSUME pc \in {"gate", "wire"} PROVE Unanswered' BY <1>0 DEF Unanswered
    <3>1. \A e \in Every' : ~(e.kind \in {"sent", "failed"} /\ e.of = att)
      BY <1>0, <1>f, <1>r DEF OnceInv, Open, Unanswered, Outcome, Every
    <3>2. \E e \in own : MyLetter(e) BY DEF OnceInv, Open, Unanswered
    <3>3. who \in Person BY LetterOK DEF Letter
    <3>4. Told(journal', who, {"erased"}) \/ \E e \in journal' : MyLetter(e)
      <4>1. CASE who = q BY <1>0, <1>f, <4>1 DEF Told
      <4>2. CASE who # q /\ Told(journal, who, {"erased"})
        <5>1. PICK e \in journal : e.kind = "erased" /\ e.who = who BY <4>2 DEF Told
        <5>2. e \in Redacted(journal, q) BY <5>1 DEF Redacted
        <5> QED BY <1>0, <5>1, <5>2 DEF Told
      <4>3. CASE who # q /\ \E e \in journal : MyLetter(e)
        <5>1. PICK e \in journal : MyLetter(e) BY <4>3
        <5>2. e \in Redacted(journal, q) BY <4>3, <5>1 DEF Redacted, MyLetter
        <5> QED BY <1>0, <5>1, <5>2
      <4> QED BY <4>1, <4>2, <4>3 DEF OnceInv, Open, Unanswered
    <3> QED BY <1>0, <3>1, <3>2, <3>4 DEF Unanswered, Outcome, MyLetter, InHand
  <2> QED BY <2>1, <2>2, <2>3 DEF Open
<1> QED BY <1>0, <1>1, <1>2, <1>3, <1>4, <1>5, <1>6 DEF OnceInv
-----------------------------------------------------------------------------
(* Every step.                                                             *)

LEMMA InitOnce == Init => OnceInv
  BY ConstantsAssumption, StepFacts
     DEF Init, OnceInv, AtMostOnce, AllCovered, Numbered, Every, Open, Unsent, OwnNumber,
         Unanswered

LEMMA RoutesOnce == TypeInv /\ OnceInv /\ Routes => OnceInv'
<1> SUFFICES ASSUME TypeInv, OnceInv, Routes PROVE OnceInv' OBVIOUS
<1>l. ASSUME NEW k \in {"replied", "bounced", "unsubscribed", "autoreplied"},
             NEW p \in Person, NEW c \in Campaign \cup {NoCampaign}, NEW s \in Step,
             Append(Line(k, p, c, s, 0)), UNCHANGED <<tickVars, delivered>>
      PROVE  OnceInv'
  <2> DEFINE f == Line(k, p, c, s, 0)
  <2>1. f \in Lines /\ f.kind = k /\ f.of = 0 /\ f.seq = last + 1
    BY <1>l, LineOK DEF Line, TypeInv, TypeOK
  <2> HIDE DEF f
  <2> QED BY <1>l, <2>1, LineFromOutside DEF f
<1>t. \A e \in journal : e.camp \in Campaign \cup {NoCampaign} /\ e.step \in Step
  BY DEF TypeInv, TypeOK, Lines
<1>1. ASSUME NEW p \in Person, Erase(p) PROVE OnceInv' BY <1>1, ErasedOnce
<1>2. ASSUME NEW p \in Person, Unsubscribe(p) PROVE OnceInv'
  BY <1>2, <1>l DEF Unsubscribe, quiet
<1>3. ASSUME NEW p \in Person, AutoReply(p) PROVE OnceInv'
  BY <1>3, <1>l, <1>t DEF AutoReply, quiet
<1>4. ASSUME NEW p \in Person, NEW k \in {"replied", "bounced"}, Inbound(p, k) PROVE OnceInv'
  BY <1>4, <1>l, <1>t DEF Inbound, quiet
<1>5. ASSUME NEW c \in Campaign, \/ Start(c) \/ Pause(c) \/ Finish(c) \/ FinishPeople(c)
                                 \/ Remove(c) \/ RemovePeople(c)
      PROVE  OnceInv'
  BY <1>5, Aside DEF Start, Pause, Finish, FinishPeople, Remove, RemovePeople, quiet
<1>6. ASSUME NEW c \in Campaign, NEW p \in Person,
             EnrolCheck(c, p) \/ Enroll(c, p) \/ ResumePerson(c, p) \/ Postpone(c, p)
      PROVE  OnceInv'
  BY <1>6, Aside DEF EnrolCheck, Enroll, ResumePerson, Postpone, quiet
<1>7. ASSUME NEW p \in Person, Forget(p) PROVE OnceInv' BY <1>7, Aside DEF Forget, quiet
<1>8. CASE ResumeStopped \/ SetHalt BY <1>8, Aside DEF ResumeStopped, SetHalt, quiet
<1> QED BY <1>1, <1>2, <1>3, <1>4, <1>5, <1>6, <1>7, <1>8 DEF Routes

\* The letter about to be written has not been delivered.
LEMMA ComposeOnce ==
  ASSUME TypeInv, OnceInv, NEW p \in Person, Compose(p)
  PROVE  OnceInv'
<1>0. /\ pc = "walk" /\ pc' = "writing" /\ who' = p /\ p \in todo
      /\ UNCHANGED <<journal, last, known, own, delivered, cur, rows, att>>
  BY DEF Compose, Sendable, Cleared, Due, Turn, worldVars
<1>1. cur \in Campaign /\ rows[p].step \in Step
  BY <1>0 DEF TypeInv, RowsOK, RowOK
<1>2. ~Told(known, p, {"erased"})
  BY DEF Compose, Sendable, Cleared, MustStop, Excluded, Told
<1>3. ~Sealed(Journaled, cur, p, rows[p].step) BY SealedSeen DEF Compose
<1>4. delivered[cur][p][rows[p].step] = 0
  BY <1>0, <1>1, <1>2, <1>3 DEF OnceInv, AllCovered, Covered
<1>5. Open' BY <1>0, <1>4 DEF Open, Unsent, OwnNumber, Unanswered
<1>6. AllCovered(known, Journaled)' /\ AllCovered(journal, journal)'
  BY <1>0 DEF OnceInv, AllCovered, Journaled
<1>7. AtMostOnce' /\ Numbered(Every, last)' /\ att' <= last'
  BY <1>0 DEF OnceInv, AtMostOnce, Numbered, Every
<1> QED BY <1>0, <1>5, <1>6, <1>7 DEF OnceInv

\* The attempt gets the next number.
LEMMA RecordSendingOnce ==
  ASSUME TypeInv, OnceInv, RecordSending
  PROVE  OnceInv'
<1> DEFINE f == Line("sending", who, cur, rows[who].step, 0)
<1>0. /\ pc = "writing" /\ pc' = "gate"
      /\ journal' = journal \cup {f} /\ own' = own \cup {f} /\ last' = last + 1
      /\ att' = f.seq
      /\ UNCHANGED <<known, delivered, cur, rows, who>>
  BY DEF RecordSending, Append, worldVars
<1>f. /\ f.kind = "sending" /\ f.seq = last + 1 /\ f.of = 0 /\ f.who = who /\ f.camp = cur
      /\ f.step = rows[who].step
  BY DEF Line
<1> HIDE DEF f
<1>t. last \in Nat /\ att \in Nat /\ \A e \in Every : e.seq \in Nat /\ e.of \in Nat
  BY DEF TypeInv, TypeOK, Every, Lines
<1>e. Every' = Every \cup {f} BY <1>0 DEF Every
<1>n. \A e \in Every : e.seq # last + 1 /\ e.of # last + 1
  BY <1>t DEF OnceInv, Numbered
<1>1. AtMostOnce' BY <1>0 DEF OnceInv, AtMostOnce
<1>2. AllCovered(journal, journal)'
  BY <1>0, <1>f, SealedGrows DEF OnceInv, AllCovered, Covered, Told
<1>3. AllCovered(known, Journaled)'
  <2>1. Journaled' = Journaled \cup {f} BY <1>0 DEF Journaled
  <2> QED BY <1>0, <1>f, <2>1, SealedGrows DEF OnceInv, AllCovered, Covered
<1>4. Numbered(Every, last)' /\ att' <= last'
  BY <1>0, <1>f, <1>t, <1>e DEF OnceInv, Numbered
<1>5. Open'
  <2>1. Unsent' BY <1>0 DEF OnceInv, Open, Unsent
  <2>2. OwnNumber' BY <1>0, <1>f, <1>e, <1>n DEF OwnNumber, InHand, MyLetter
  <2>3. Unanswered'
    BY <1>0, <1>f, <1>e, <1>n DEF Unanswered, InHand, MyLetter, Outcome
  <2> QED BY <2>1, <2>2, <2>3 DEF Open
<1> QED BY <1>0, <1>1, <1>2, <1>3, <1>4, <1>5 DEF OnceInv

\* The provider takes the letter: its attempt seals it.
LEMMA DeliversOnce ==
  ASSUME TypeInv, OnceInv, Delivers
  PROVE  OnceInv'
<1> DEFINE s == rows[who].step
<1>0. /\ pc = "wire" /\ pc' = "answer"
      /\ delivered' = [delivered EXCEPT ![cur][who][s] = @ + 1]
      /\ UNCHANGED <<journal, last, known, own, cur, rows, who, att>>
  BY DEF Delivers
<1>t. cur \in Campaign /\ who \in Person /\ s \in Step BY <1>0, LetterOK DEF Letter
<1>d. /\ delivered \in [Campaign -> [Person -> [Step -> Nat]]]
      /\ delivered[cur][who][s] = 0
  BY <1>0 DEF OnceInv, Open, Unsent, TypeInv, TypeOK
<1>c. \A c \in Campaign, p \in Person, n \in Step :
        delivered'[c][p][n] = IF c = cur /\ p = who /\ n = s THEN 1 ELSE delivered[c][p][n]
  BY <1>0, <1>t, <1>d
<1>s. ASSUME NEW E, E \subseteq Every, \E e \in E : MyLetter(e)
      PROVE  Sealed(E, cur, who, s)
  <2>1. PICK a \in E : MyLetter(a) BY <1>s
  <2>2. a \in Attempts(E, cur, who, s) /\ a.seq = att
    BY <2>1 DEF Attempts, MyLetter, InHand
  <2>3. Outcomes(E, a) = {}
    BY <1>0, <1>s, <2>2 DEF Outcomes, OnceInv, Open, Unanswered, Outcome
  <2> QED BY <2>2, <2>3 DEF Sealed
<1> HIDE DEF s
<1>1. AtMostOnce' BY <1>c DEF OnceInv, AtMostOnce
<1>2. AllCovered(journal, journal)'
  <2>1. Covered(journal, journal, cur, who, s)
    BY <1>0, <1>s DEF OnceInv, Open, Unanswered, Every, Covered
  <2> QED BY <1>0, <1>c, <2>1 DEF OnceInv, AllCovered
<1>3. AllCovered(known, Journaled)'
  <2>1. Covered(known, Journaled, cur, who, s)
    BY <1>0, <1>s DEF OnceInv, Open, Unanswered, Every, Journaled, Covered
  <2>2. Journaled' = Journaled /\ known' = known BY <1>0 DEF Journaled
  <2>3. AllCovered(known, Journaled) BY <1>0 DEF OnceInv
  <2> QED BY <1>c, <2>1, <2>2, <2>3 DEF AllCovered
<1>4. Numbered(Every, last)' /\ att' <= last' BY <1>0 DEF OnceInv, Numbered, Every
<1>5. Open' BY <1>0 DEF Open, Unsent, OwnNumber, Unanswered
<1> QED BY <1>0, <1>1, <1>2, <1>3, <1>4, <1>5 DEF OnceInv

\* The answer is journaled: a letter is sent, and stays sealed.
LEMMA RecordSentOnce ==
  ASSUME TypeInv, OnceInv, RecordSent
  PROVE  OnceInv'
<1> DEFINE f == Line("sent", who, cur, rows[who].step, att)
<1>0. /\ pc = "answer" /\ pc' = "advance"
      /\ journal' = journal \cup {f} /\ own' = own \cup {f} /\ last' = last + 1
      /\ UNCHANGED <<known, delivered, cur, rows, who, att>>
  BY DEF RecordSent, Append, worldVars
<1>f. f.kind = "sent" /\ f.seq = last + 1 /\ f.of = att BY DEF Line
<1> HIDE DEF f
<1>t. last \in Nat /\ att \in Nat /\ \A e \in Every : e.seq \in Nat /\ e.of \in Nat
  BY DEF TypeInv, TypeOK, Every, Lines
<1>1. AtMostOnce' BY <1>0 DEF OnceInv, AtMostOnce
<1>2. AllCovered(journal, journal)'
  BY <1>0, <1>f, SealedGrows DEF OnceInv, AllCovered, Covered, Told
<1>3. AllCovered(known, Journaled)'
  <2>1. Journaled' = Journaled \cup {f} BY <1>0 DEF Journaled
  <2> QED BY <1>0, <1>f, <2>1, SealedGrows DEF OnceInv, AllCovered, Covered
<1>4. Numbered(Every, last)' /\ att' <= last'
  <2>1. Every' = Every \cup {f} BY <1>0 DEF Every
  <2> QED BY <1>0, <1>f, <1>t, <2>1 DEF OnceInv, Numbered
<1>5. Open' BY <1>0 DEF Open, Unsent, OwnNumber, Unanswered
<1> QED BY <1>0, <1>1, <1>2, <1>3, <1>4, <1>5 DEF OnceInv

\* A refusal is journaled: it answers an attempt that delivered nothing.
LEMMA RecordFailedOnce ==
  ASSUME TypeInv, OnceInv, RecordFailed
  PROVE  OnceInv'
<1> DEFINE f == Line("failed", who, cur, rows[who].step, att)
<1>0. /\ pc = "refused"
      /\ journal' = journal \cup {f} /\ last' = last + 1
      /\ delivered' = delivered
  BY DEF RecordFailed, Append, worldVars
<1>w. \/ EndTick
      \/ /\ pc' = "walk" /\ att' = 0 /\ own' = own \cup {f} /\ known' = known
  BY DEF RecordFailed, BackToWalk
<1>f. f.kind = "failed" /\ f.seq = last + 1 /\ f.of = att BY DEF Line
<1> HIDE DEF f
<1>t. last \in Nat /\ att \in Nat /\ \A e \in Every : e.seq \in Nat /\ e.of \in Nat
  BY DEF TypeInv, TypeOK, Every, Lines
\* no letter that was delivered is sealed by the refused attempt
<1>s. ASSUME NEW E \in SUBSET Every, NEW c \in Campaign, NEW p \in Person, NEW s \in Step,
             delivered[c][p][s] # 0, Sealed(E, c, p, s)
      PROVE  Sealed(E \cup {f}, c, p, s)
  <2>1. ASSUME NEW a \in Attempts(E, c, p, s) PROVE a.seq # att
    <3>1. a \in Every /\ a.kind = "sending" /\ a.who = p /\ a.camp = c /\ a.step = s
      BY <1>s DEF Attempts
    <3>2. a.seq = att => p = who /\ c = cur /\ s = rows[who].step
      BY <1>0, <3>1 DEF OnceInv, Open, OwnNumber, InHand, MyLetter
    <3>3. delivered[cur][who][rows[who].step] = 0
      BY <1>0 DEF OnceInv, Open, Unsent
    <3> QED BY <1>s, <3>2, <3>3
  <2> QED BY <1>f, <1>s, <2>1, SealedGrows
<1>1. AtMostOnce' BY <1>0 DEF OnceInv, AtMostOnce
<1>2. AllCovered(journal, journal)'
  BY <1>0, <1>s DEF OnceInv, AllCovered, Covered, Told, Every
<1>3. pc' # "idle" => AllCovered(known, Journaled)'
  <2> SUFFICES ASSUME pc' # "idle" PROVE AllCovered(known, Journaled)' OBVIOUS
  <2>1. own' = own \cup {f} /\ known' = known BY <1>w DEF EndTick
  <2>2. Journaled' = Journaled \cup {f} /\ Journaled \subseteq Every
    BY <2>1 DEF Journaled, Every
  <2> QED BY <1>0, <1>s, <2>1, <2>2 DEF OnceInv, AllCovered, Covered
<1>4. Numbered(Every, last)' /\ att' <= last'
  <2>1. Every' \subseteq Every \cup {f} /\ att' = 0 BY <1>0, <1>w DEF Every, EndTick
  <2> QED BY <1>0, <1>f, <1>t, <2>1 DEF OnceInv, Numbered
<1>5. Open' BY <1>w DEF Open, Unsent, OwnNumber, Unanswered, EndTick
<1>6. pc' = "idle" => known' = {} /\ own' = {} BY <1>w DEF EndTick
<1> QED BY <1>1, <1>2, <1>3, <1>4, <1>5, <1>6 DEF OnceInv

LEMMA TickOnce == TypeInv /\ OnceInv /\ Tick => OnceInv'
<1> SUFFICES ASSUME TypeInv, OnceInv, Tick PROVE OnceInv' OBVIOUS
<1> USE DEF worldVars
<1>1. CASE TickStart
  <2>1. /\ pc = "idle" /\ pc' = "walk" /\ known' = journal /\ known = {} /\ own = {}
        /\ UNCHANGED <<journal, last, own, delivered, att>>
    BY <1>1 DEF TickStart, OnceInv
  <2>2. AllCovered(known, Journaled)'
    BY <2>1 DEF OnceInv, AllCovered, Covered, Journaled
  <2>3. Numbered(Every, last)' /\ att' <= last' BY <2>1 DEF OnceInv, Numbered, Every
  <2>4. Open' BY <2>1 DEF Open, Unsent, OwnNumber, Unanswered
  <2>5. AtMostOnce' /\ AllCovered(journal, journal)'
    BY <2>1 DEF OnceInv, AtMostOnce, AllCovered
  <2> QED BY <2>1, <2>2, <2>3, <2>4, <2>5 DEF OnceInv
<1>2. CASE TickEnds \/ StopForHalt BY <1>2, PassEnds DEF TickEnds, StopForHalt
<1>3. CASE NextCampaign \/ BreakOff BY <1>3, BackOnWalk DEF NextCampaign, BreakOff
<1>4. ASSUME NEW p \in Person,
             PassOver(p) \/ StopPerson(p) \/ Unfit(p) \/ HoldForColleague(p) \/ Repair(p)
               \/ SetAside(p)
      PROVE  OnceInv'
  <2>1. PassedBy(p) /\ Turn(p)
    BY <1>4 DEF PassOver, StopPerson, Unfit, HoldForColleague, Repair, SetAside, Sendable,
                Cleared, Due
  <2> QED BY <2>1, BackOnWalk DEF PassedBy, Turn
<1>5. ASSUME NEW p \in Person, Compose(p) PROVE OnceInv' BY <1>5, ComposeOnce
<1>6. CASE RecordSending BY <1>6, RecordSendingOnce
<1>7. CASE SendingNotRecorded \/ NoAnswer \/ SaveAdvance
  BY <1>7, BackOnWalk DEF SendingNotRecorded, NoAnswer, SaveAdvance, BackToWalk
<1>8. CASE GateHalted \/ GateOpens \/ Refuses
  <2>1. /\ pc \in {"gate", "wire"} /\ pc' \in {"wire", "refused"}
        /\ pc = "wire" => pc' = "refused"
        /\ UNCHANGED <<journal, last, known, own, delivered, cur, rows, who, att>>
    BY <1>8 DEF GateHalted, GateOpens, Refuses
  <2>2. AtMostOnce' /\ AllCovered(journal, journal)'
    BY <2>1 DEF OnceInv, AtMostOnce, AllCovered
  <2>3. AllCovered(known, Journaled)' BY <2>1 DEF OnceInv, AllCovered, Journaled
  <2>4. Numbered(Every, last)' /\ att' <= last' BY <2>1 DEF OnceInv, Numbered, Every
  <2>5. Unsent' BY <2>1 DEF OnceInv, Open, Unsent
  <2>6. OwnNumber' BY <2>1 DEF OnceInv, Open, OwnNumber, Every, InHand, MyLetter
  <2>7. Unanswered'
    BY <2>1 DEF OnceInv, Open, Unanswered, Every, InHand, MyLetter, Outcome
  <2> QED BY <2>1, <2>2, <2>3, <2>4, <2>5, <2>6, <2>7 DEF OnceInv, Open
<1>9. CASE Delivers BY <1>9, DeliversOnce
<1>10. CASE RecordSent BY <1>10, RecordSentOnce
<1>11. CASE RecordFailed BY <1>11, RecordFailedOnce
<1>12. CASE FailedNotRecorded BY <1>12, PassEnds DEF FailedNotRecorded
<1> QED BY <1>1, <1>2, <1>3, <1>4, <1>5, <1>6, <1>7, <1>8, <1>9, <1>10, <1>11, <1>12 DEF Tick

LEMMA NextOnce == TypeInv /\ OnceInv /\ [Next]_vars => OnceInv'
<1> SUFFICES ASSUME TypeInv, OnceInv, [Next]_vars PROVE OnceInv' OBVIOUS
<1>1. CASE Tick BY <1>1, TickOnce
<1>2. CASE Routes BY <1>2, RoutesOnce
<1>3. CASE DayPasses BY <1>3, Aside DEF DayPasses
<1>4. CASE Persist BY <1>4, Aside DEF Persist, worldVars
<1>5. CASE Crash BY <1>5, PassEnds DEF Crash, worldVars
<1>6. CASE UNCHANGED vars BY <1>6, Aside DEF vars, worldVars
<1> QED BY <1>1, <1>2, <1>3, <1>4, <1>5, <1>6 DEF Next

\* Never the same letter twice, whatever is lost, refused, erased, resumed or
\* restarted, in every behaviour of the chain.
THEOREM NeverTwice == Spec => []AtMostOnce
<1>1. OnceInv => AtMostOnce BY DEF OnceInv
<1> QED BY <1>1, Types, InitOnce, NextOnce, PTL DEF Spec

-----------------------------------------------------------------------------
(* Where rows come from.                                                   *)

\* A step leaves p's row out of c where it is not there.
StaysOut(c, p) == enr[c][p].st = "none" => enr'[c][p].st = "none"

LEMMA SavingJoinsNobody ==
  ASSUME TypeInv, NEW c \in Campaign, NEW p \in Person, NEW r, SaveRow(c, p, r),
         NEW d \in Campaign, NEW q \in Person
  PROVE  StaysOut(d, q)
<1>1. enr \in [Campaign -> [Person -> Row]]
  BY DEF TypeInv, TypeOK, Enrolments
<1> QED
  BY <1>1 DEF SaveRow, StaysOut

LEMMA PassJoinsNobody ==
  ASSUME TypeInv, Tick, NEW d \in Campaign, NEW q \in Person
  PROVE  StaysOut(d, q)
<1>1. \/ UNCHANGED enr
      \/ \E p \in Person : \E r : SaveRow(cur, p, r) /\ cur \in Campaign
  <2>1. CASE \/ TickStart \/ TickEnds \/ NextCampaign \/ StopForHalt \/ BreakOff
             \/ RecordSending \/ SendingNotRecorded \/ GateHalted \/ GateOpens \/ Refuses
             \/ Delivers \/ RecordSent \/ FailedNotRecorded
    BY <2>1 DEF TickStart, TickEnds, NextCampaign, StopForHalt, BreakOff, RecordSending,
       SendingNotRecorded, GateHalted, GateOpens, Refuses, Delivers, RecordSent,
       FailedNotRecorded, stateVars
  <2>2. ASSUME NEW p \in Person,
               \/ PassOver(p) \/ StopPerson(p) \/ Unfit(p) \/ HoldForColleague(p)
               \/ Repair(p) \/ SetAside(p) \/ Compose(p)
        PROVE  UNCHANGED enr \/ \E r : SaveRow(cur, p, r) /\ cur \in Campaign
    <3>1. (p \in todo => cur \in Campaign) /\ (Due(p) => p \in todo)
      BY DEF TypeInv, RowsOK, Due, Turn
    <3> QED
      BY <2>2, <3>1 DEF PassOver, StopPerson, Unfit, HoldForColleague, Repair, SetAside,
         Compose, Sendable, Cleared, stateVars
  <2>3. CASE NoAnswer \/ SaveAdvance \/ RecordFailed
    <3>1. pc \in Letter => who \in Person /\ cur \in Campaign
      BY LetterOK
    <3> QED
      BY <2>3, <3>1 DEF NoAnswer, SaveAdvance, RecordFailed, Letter
  <2> QED
    BY <2>1, <2>2, <2>3 DEF Tick
<1> QED
  BY <1>1, SavingJoinsNobody DEF StaysOut

LEMMA RoutesJoinNobody ==
  ASSUME TypeInv, Routes, NEW d \in Campaign, NEW q \in Person
  PROVE  StaysOut(d, q) \/ Enroll(d, q)
<1>1. enr \in [Campaign -> [Person -> Row]]
  BY DEF TypeInv, TypeOK, Enrolments
<1>2. NoRow.st = "none"
  BY DEF NoRow
<1>3. ASSUME NEW c \in Campaign, \/ Start(c) \/ Pause(c) \/ Finish(c) \/ Remove(c)
      PROVE  StaysOut(d, q)
  BY <1>3 DEF Start, Pause, Finish, Remove, StaysOut
<1>4. ASSUME NEW c \in Campaign, FinishPeople(c) PROVE StaysOut(d, q)
  <2> DEFINE row(p) == IF enr[c][p].st = "active" THEN Stopped(enr[c][p], FALSE) ELSE enr[c][p]
  <2>1. enr[d][q].st = "none" => row(q) = enr[c][q] \/ c # d
    OBVIOUS
  <2>2. enr' = [enr EXCEPT ![c] = [p \in Person |-> row(p)]]
    BY <1>4 DEF FinishPeople
  <2> HIDE DEF row
  <2> QED
    BY <1>1, <2>1, <2>2 DEF StaysOut
<1>5. ASSUME NEW c \in Campaign, RemovePeople(c) PROVE StaysOut(d, q)
  BY <1>1, <1>2, <1>5 DEF RemovePeople, StaysOut
<1>6. ASSUME NEW c \in Campaign, NEW p \in Person, Enroll(c, p) PROVE StaysOut(d, q) \/ Enroll(d, q)
  <2> DEFINE r == [NoRow EXCEPT !.st = "active", !.since = last, !.held = last]
  <2>1. enr' = [enr EXCEPT ![c][p] = r] \/ enr' = enr
    BY <1>6 DEF Enroll
  <2> HIDE DEF r
  <2> QED
    BY <1>1, <1>6, <2>1 DEF StaysOut
<1>13. ASSUME NEW c \in Campaign, NEW p \in Person, EnrolCheck(c, p) PROVE StaysOut(d, q)
  BY <1>13 DEF EnrolCheck, stateVars, StaysOut
<1>7. ASSUME NEW c \in Campaign, NEW p \in Person, ResumePerson(c, p) PROVE StaysOut(d, q)
  <2> DEFINE mid == [enr EXCEPT ![c][p].st = "active"]
  <2>1. enr[c][p].st # "none"
    BY <1>7 DEF ResumePerson
  <2>2. enr' = [mid EXCEPT ![c][p].held = last]
    BY <1>7 DEF ResumePerson
  <2>3. \A e \in Campaign, o \in Person : (e # c \/ o # p) => enr'[e][o] = enr[e][o]
    BY <1>1, <2>2
  <2> QED
    BY <2>1, <2>3 DEF StaysOut
<1>8. ASSUME NEW c \in Campaign, NEW p \in Person, Postpone(c, p) PROVE StaysOut(d, q)
  BY <1>1, <1>8 DEF Postpone, StaysOut
<1>9. ASSUME NEW p \in Person, Forget(p) PROVE StaysOut(d, q)
  BY <1>1, <1>2, <1>9 DEF Forget, StaysOut
<1>10. ASSUME NEW p \in Person,
              \/ Erase(p) \/ Unsubscribe(p) \/ AutoReply(p)
              \/ Inbound(p, "replied") \/ Inbound(p, "bounced")
       PROVE  StaysOut(d, q)
  BY <1>10 DEF Erase, Unsubscribe, AutoReply, Inbound, stateVars, StaysOut
<1>11. CASE ResumeStopped
  <2> DEFINE row(c, p) == IF Resumable(enr[c][p])
                          THEN [enr[c][p] EXCEPT !.st = "active", !.fixable = FALSE, !.held = last]
                          ELSE enr[c][p]
  <2>1. enr[d][q].st = "none" => row(d, q) = enr[d][q]
    BY DEF Resumable
  <2>2. enr' = [c \in Campaign |-> [p \in Person |-> row(c, p)]]
    BY <1>11 DEF ResumeStopped
  <2> HIDE DEF row
  <2> QED
    BY <2>1, <2>2 DEF StaysOut
<1>12. CASE SetHalt
  BY <1>12 DEF SetHalt, StaysOut
<1> QED
  BY <1>3, <1>4, <1>5, <1>6, <1>7, <1>8, <1>9, <1>10, <1>11, <1>12, <1>13 DEF Routes

LEMMA DaysJoinNobody ==
  ASSUME NEW e \in Enrolments, NEW d \in Campaign, NEW q \in Person
  PROVE  Tomorrow(e)[d][q].st = e[d][q].st
<1> DEFINE row(c, p) == [e[c][p] EXCEPT !.due = Less(@)]
<1>1. row(d, q).st = e[d][q].st
  BY DEF Enrolments, Row
<1>2. Tomorrow(e) = [c \in Campaign |-> [p \in Person |-> row(c, p)]]
  BY DEF Tomorrow
<1> HIDE DEF row
<1> QED
  BY <1>1, <1>2

\* A row appears by an enrolment or by a restart.
LEMMA OnlyEnrolmentsJoin ==
  ASSUME TypeInv, [Next]_vars, NEW d \in Campaign, NEW q \in Person
  PROVE  StaysOut(d, q) \/ Enroll(d, q) \/ Crash
<1>1. CASE DayPasses
  BY <1>1, DaysJoinNobody DEF DayPasses, TypeInv, TypeOK, StaysOut
<1>2. CASE Persist
  BY <1>2 DEF Persist, stateVars, StaysOut
<1>3. CASE UNCHANGED vars
  BY <1>3 DEF vars, stateVars, StaysOut
<1> QED
  BY <1>1, <1>2, <1>3, PassJoinsNobody, RoutesJoinNobody DEF Next

-----------------------------------------------------------------------------
(* One campaign each: in memory, and in whatever state file a restart may  *)
(* find.                                                                   *)

Apart(e) == \A p \in Person, c, d \in Campaign : e[c][p].st # "none" /\ e[d][p].st # "none" => c = d

OneInv == TypeInv /\ Apart(enr) /\ Apart(saved.enr)

LEMMA ApartStart == Init => Apart(enr) /\ Apart(saved.enr)
<1> SUFFICES ASSUME Init PROVE Apart(enr) /\ Apart(saved.enr)
  OBVIOUS
<1>1. \A c \in Campaign, p \in Person : enr[c][p].st # "none" => <<c, p>> \in Enrolled
  BY DEF Init, NoRow
<1>2. \A c, d \in Campaign, p \in Person : <<c, p>> \in Enrolled /\ <<d, p>> \in Enrolled => c = d
  BY ConstantsAssumption
<1>3. saved.enr = enr
  BY DEF Init
<1> QED
  BY <1>1, <1>2, <1>3 DEF Apart

LEMMA ApartStep == OneInv /\ [Next]_vars => Apart(enr)' /\ Apart(saved.enr)'
<1> SUFFICES ASSUME OneInv, [Next]_vars PROVE Apart(enr)' /\ Apart(saved.enr)'
  OBVIOUS
<1>1. Apart(enr)'
  <2>1. CASE Crash
    BY <2>1 DEF Crash, OneInv, Apart
  <2>2. CASE ~Crash
    <3>1. \A c \in Campaign, p \in Person : StaysOut(c, p) \/ Enroll(c, p)
      BY <2>2, OnlyEnrolmentsJoin DEF OneInv
    <3>2. CASE \A c \in Campaign, p \in Person : StaysOut(c, p)
      BY <3>2 DEF OneInv, Apart, StaysOut
    <3>3. ASSUME NEW c \in Campaign, NEW p \in Person, Enroll(c, p) PROVE Apart(enr)'
      <4>1. enr \in [Campaign -> [Person -> Row]]
        BY DEF OneInv, TypeInv, TypeOK, Enrolments
      <4> DEFINE r == [NoRow EXCEPT !.st = "active", !.since = last, !.held = last]
      <4>2. enr' = enr \/ (InNone(p) /\ enr' = [enr EXCEPT ![c][p] = r])
        BY <3>3 DEF Enroll
      <4> HIDE DEF r
      <4>3. \A d \in Campaign, q \in Person : d # c \/ q # p => enr'[d][q] = enr[d][q]
        BY <4>1, <4>2
      <4>4. enr' = enr \/ \A d \in Campaign : enr[d][p].st = "none"
        BY <4>2 DEF InNone
      <4> QED
        BY <4>3, <4>4 DEF OneInv, Apart
    <3> QED
      BY <3>1, <3>2, <3>3
  <2> QED
    BY <2>1, <2>2
<1>2. Apart(saved.enr)'
  <2>1. CASE DayPasses
    <3>1. saved'.enr = Tomorrow(saved.enr) /\ saved.enr \in Enrolments
      BY <2>1 DEF DayPasses, OneInv, TypeInv, TypeOK
    <3>2. \A c \in Campaign, p \in Person : saved'.enr[c][p].st = saved.enr[c][p].st
      BY <3>1, DaysJoinNobody
    <3> QED
      BY <3>2 DEF OneInv, Apart
  <2>2. CASE Persist
    BY <2>2 DEF Persist, OneInv, Apart
  <2>3. CASE Crash \/ UNCHANGED vars
    BY <2>3 DEF Crash, vars, OneInv, Apart
  <2>4. CASE Tick
    <3>1. saved' = saved
      BY <2>4 DEF Tick, TickStart, TickEnds, NextCampaign, StopForHalt, BreakOff, PassOver, StopPerson,
         Unfit, HoldForColleague, Repair, SetAside, Compose, PassedBy, RecordSending, SendingNotRecorded,
         GateHalted, GateOpens, Refuses, Delivers, NoAnswer, RecordSent, SaveAdvance, RecordFailed,
         FailedNotRecorded
    <3> QED
      BY <3>1 DEF OneInv, Apart
  <2>5. CASE Routes
    <3>1. saved' = saved
      BY <2>5 DEF Routes, Start, Pause, Finish, FinishPeople, Remove, RemovePeople, EnrolCheck, Enroll,
         ResumePerson, Postpone, Erase, Forget, Unsubscribe, AutoReply, Inbound, ResumeStopped, SetHalt, quiet
    <3> QED
      BY <3>1 DEF OneInv, Apart
  <2> QED
    BY <2>1, <2>2, <2>3, <2>4, <2>5 DEF Next
<1> QED
  BY <1>1, <1>2

\* A person is in one campaign at most, whatever is removed and re-enrolled while a
\* pass saves rows it read before, and whatever state file a restart finds.
THEOREM InOneCampaign == Spec => []OneCampaignEach
<1>1. OneInv => OneCampaignEach
  <2> SUFFICES ASSUME OneInv, NEW p \in Person
               PROVE  Cardinality({c \in Campaign : enr[c][p].st # "none"}) <= 1
    BY DEF OneCampaignEach
  <2> DEFINE S == {c \in Campaign : enr[c][p].st # "none"}
  <2>1. \A c, d \in S : c = d
    BY DEF OneInv, Apart
  <2>2. CASE S = {}
    BY <2>2, FS_EmptySet
  <2>3. ASSUME NEW c \in S PROVE Cardinality(S) <= 1
    <3>1. S = {c}
      BY <2>1
    <3>2. Cardinality({c}) = 1
      BY FS_Singleton
    <3> HIDE DEF S
    <3> QED
      BY <3>1, <3>2
  <2> QED
    BY <2>2, <2>3
<1>2. Init => OneInv
  BY InitTypes, ApartStart DEF OneInv
<1>3. OneInv /\ [Next]_vars => OneInv'
  BY NextTypes, ApartStep DEF OneInv
<1> QED
  BY <1>1, <1>2, <1>3, PTL DEF Spec

-----------------------------------------------------------------------------
(* What a stop lets through: the letter that was with the provider.        *)

StopInv ==
  /\ AtMostOneAfterStop
  /\ pc = "wire" /\ halted => late.halt = 0
  /\ pc \in {"writing", "gate", "wire"} /\ camp[cur] # "running" => late.camp[cur] = 0

LEMMA StopStart == Init => StopInv
BY DEF Init, StopInv, AtMostOneAfterStop

LEMMA PassStops == TypeInv /\ StopInv /\ Tick => StopInv'
<1> SUFFICES ASSUME TypeInv, StopInv, Tick PROVE StopInv'
  OBVIOUS
<1> USE DEF StopInv, AtMostOneAfterStop
<1>1. CASE \/ TickStart \/ TickEnds \/ NextCampaign \/ StopForHalt \/ BreakOff
  BY <1>1 DEF TickStart, TickEnds, NextCampaign, StopForHalt, BreakOff, EndTick, stateVars, worldVars
<1>2. ASSUME NEW p \in Person,
             \/ PassOver(p) \/ StopPerson(p) \/ Unfit(p) \/ HoldForColleague(p)
             \/ Repair(p) \/ SetAside(p)
      PROVE  StopInv'
  BY <1>2 DEF PassOver, StopPerson, Unfit, HoldForColleague, Repair, SetAside, PassedBy, Sendable,
     Cleared, Due, Turn, worldVars
<1>3. ASSUME NEW p \in Person, Compose(p) PROVE StopInv'
  BY <1>3 DEF Compose, Sendable, Cleared, Due, Turn, stateVars, worldVars
<1>4. CASE RecordSending \/ SendingNotRecorded \/ GateHalted \/ GateOpens \/ Refuses \/ RecordSent
  BY <1>4 DEF RecordSending, SendingNotRecorded, GateHalted, GateOpens, Refuses, RecordSent,
     BackToWalk, stateVars, worldVars
<1>5. CASE NoAnswer \/ SaveAdvance \/ RecordFailed \/ FailedNotRecorded
  BY <1>5 DEF NoAnswer, SaveAdvance, RecordFailed, FailedNotRecorded, BackToWalk, EndTick, stateVars,
     worldVars
<1>6. CASE Delivers
  <2>1. late \in [halt : Nat, camp : [Campaign -> Nat]] /\ cur \in Campaign
    BY <1>6, LetterOK DEF TypeInv, TypeOK, Delivers, Letter
  <2> DEFINE h == IF halted THEN late.halt + 1 ELSE late.halt
             k == IF camp[cur] = "running" THEN late.camp ELSE [late.camp EXCEPT ![cur] = @ + 1]
  <2>2. late' = [halt |-> h, camp |-> k] /\ pc = "wire" /\ pc' = "answer"
    BY <1>6 DEF Delivers
  <2>3. h <= 1
    BY <2>1, <2>2
  <2>4. \A c \in Campaign : k[c] <= 1
    BY <2>1, <2>2
  <2> HIDE DEF h, k
  <2> QED
    BY <2>2, <2>3, <2>4
<1> QED
  BY <1>1, <1>2, <1>3, <1>4, <1>5, <1>6 DEF Tick

LEMMA RoutesStop == TypeInv /\ StopInv /\ Routes => StopInv'
<1> SUFFICES ASSUME TypeInv, StopInv, Routes PROVE StopInv'
  OBVIOUS
<1> USE DEF StopInv, AtMostOneAfterStop
<1>0. /\ late \in [halt : Nat, camp : [Campaign -> Nat]] /\ camp \in [Campaign -> CampState]
      /\ pc \in {"writing", "gate", "wire"} => cur \in Campaign
  BY LetterOK DEF TypeInv, TypeOK, Letter
<1>1. ASSUME NEW c \in Campaign, Start(c) PROVE StopInv'
  BY <1>0, <1>1 DEF Start, quiet, tickVars
<1>2. ASSUME NEW c \in Campaign, Pause(c) \/ Finish(c) \/ Remove(c) PROVE StopInv'
  <2>1. /\ late' = [late EXCEPT !.camp[c] = 0] /\ UNCHANGED <<pc, cur, halted>>
        /\ \A d \in Campaign \ {c} : camp'[d] = camp[d]
    BY <1>0, <1>2 DEF Pause, Finish, Remove, quiet, tickVars
  <2>2. late'.halt = late.halt /\ late'.camp[c] = 0 /\ \A d \in Campaign \ {c} : late'.camp[d] = late.camp[d]
    BY <1>0, <2>1
  <2> QED
    BY <1>0, <2>1, <2>2
<1>3. CASE SetHalt
  <2>1. late'.halt = 0 /\ late'.camp = late.camp /\ UNCHANGED <<pc, cur, camp>>
    BY <1>0, <1>3 DEF SetHalt, tickVars
  <2> QED
    BY <1>0, <2>1
<1>4. CASE /\ ~SetHalt
           /\ \A c \in Campaign : ~(Start(c) \/ Pause(c) \/ Finish(c) \/ Remove(c))
  <2>1. UNCHANGED <<late, camp, halted, pc, cur>>
    BY <1>4 DEF Routes, FinishPeople, RemovePeople, EnrolCheck, Enroll, ResumePerson, Postpone, Erase,
       Forget, Unsubscribe, AutoReply, Inbound, ResumeStopped, quiet, tickVars, stateVars
  <2> QED
    BY <2>1
<1> QED
  BY <1>1, <1>2, <1>3, <1>4

\* After the system stop, or after a campaign stops running, at most the one letter
\* already handed to the provider is delivered.
THEOREM OneLetterInTheWire == Spec => []AtMostOneAfterStop
<1>1. TypeInv /\ StopInv /\ [Next]_vars => StopInv'
  <2> SUFFICES ASSUME TypeInv, StopInv, [Next]_vars PROVE StopInv'
    OBVIOUS
  <2>1. CASE DayPasses \/ Persist \/ UNCHANGED vars
    BY <2>1 DEF DayPasses, Persist, vars, stateVars, tickVars, worldVars, StopInv, AtMostOneAfterStop
  <2>2. CASE Crash
    BY <2>2 DEF Crash, EndTick, worldVars, StopInv, AtMostOneAfterStop
  <2> QED
    BY <2>1, <2>2, PassStops, RoutesStop DEF Next
<1>2. StopInv => AtMostOneAfterStop
  BY DEF StopInv
<1> QED
  BY <1>1, <1>2, InitTypes, NextTypes, StopStart, PTL DEF Spec

-----------------------------------------------------------------------------
(* The order of what is written and said.  It rests on how the three       *)
(* copies of the journal agree: the file, the pass's copy and what the     *)
(* pass has written.                                                       *)

LetterKinds == {"sending", "sent", "failed"}
LinesOf(E, p) == {e \in E : e.who = p /\ e.kind \in LetterKinds}
Erased(E, p) == Told(E, p, {"erased"})

\* A number is one line's, but for what redaction left of it.
Unique == \A e, f \in Every : e.seq = f.seq /\ e.who \in Person /\ f.who \in Person => e = f

\* What the journal says of the letters to a person, the pass knows or has
\* written itself; and the other way round, until the person is erased.
Copies == pc # "idle" =>
  \A p \in Person :
    /\ LinesOf(journal, p) \subseteq Journaled
    /\ Erased(journal, p) \/ LinesOf(Journaled, p) \subseteq journal
    /\ Erased(journal, p) /\ LinesOf(journal, p) \cap known # {} => Erased(known, p)

\* The pass's copy of the journal has no holes.
KnownPrefix ==
  \A e \in journal, f \in known : e.who \in Person /\ e.seq <= f.seq => e \in known

\* Whom the pass has yet to come to in this campaign, it has not written to.
Untouched ==
  /\ pc = "idle" => cur = NoCampaign
  /\ cur \notin camps
  /\ \A e \in own : e.kind = "sending" =>
       /\ e.camp \notin camps
       /\ e.camp = cur /\ e.who \in todo => e.who = who /\ pc \in Letter \ {"writing"}

\* What Compose looked at still stands when the line is written.
Decided == pc = "writing" =>
  /\ ~MustStop(who) /\ ~ColleagueReplied(known, cur, who, rows[who])
  /\ ~WasSent(Journaled, cur, who, rows[who].step)
  /\ ~InFlight(Journaled, cur, who, rows[who].step)

\* A person is picked up after they joined, and no copy of a row is younger
\* than the row.
HeldOK(r) == r.since <= r.held /\ r.held <= last
Helds ==
  /\ \A c \in Campaign, p \in Person : HeldOK(enr[c][p]) /\ HeldOK(saved.enr[c][p])
  /\ \A p \in Person : HeldOK(rows[p])
  /\ \A p \in todo : enr[cur][p].st # "none" => rows[p].held <= enr[cur][p].held

CopyInv == Unique /\ Copies /\ KnownPrefix /\ Untouched /\ Decided
WordInv == CopyInv /\ Helds

\* All that is proved of the journal's copies stands on what was proved before.
Base == TypeInv /\ OnceInv

-----------------------------------------------------------------------------
(* Lines.                                                                  *)

\* What is known of an attempt depends on the lines about its person only.
LEMMA SameLines ==
  ASSUME NEW E, NEW F, NEW p, LinesOf(E, p) \subseteq F
  PROVE  /\ \A c, s : Attempts(E, c, p, s) \subseteq Attempts(F, c, p, s)
         /\ \A a : a.who = p => Outcomes(E, a) \subseteq Outcomes(F, a)
BY DEF LinesOf, LetterKinds, Attempts, Outcomes

LEMMA SentThere ==
  ASSUME NEW E, NEW F, NEW p, LinesOf(E, p) \subseteq F, NEW c, NEW s, WasSent(E, c, p, s)
  PROVE  WasSent(F, c, p, s)
<1> PICK a \in Attempts(E, c, p, s) : \E e \in Outcomes(E, a) : e.kind = "sent"
  BY DEF WasSent
<1>1. a.who = p
  BY DEF Attempts
<1> QED
  BY <1>1, SameLines DEF WasSent

\* The lines about letters in two copies that agree on p.
Agree(E, F, p) == LinesOf(E, p) = LinesOf(F, p)

LEMMA AgreeOnLetters ==
  ASSUME NEW E, NEW F, NEW p, Agree(E, F, p), NEW c, NEW s
  PROVE  /\ Attempts(E, c, p, s) = Attempts(F, c, p, s)
         /\ \A a \in Attempts(E, c, p, s) : Outcomes(E, a) = Outcomes(F, a)
         /\ WasSent(E, c, p, s) <=> WasSent(F, c, p, s)
         /\ InFlight(E, c, p, s) <=> InFlight(F, c, p, s)
<1>1. \A e : e.who = p /\ e.kind \in LetterKinds => (e \in E <=> e \in F)
  BY DEF Agree, LinesOf
<1>2. Attempts(E, c, p, s) = Attempts(F, c, p, s)
  BY <1>1 DEF Attempts, LetterKinds
<1>3. \A a \in Attempts(E, c, p, s) : a.who = p
  BY DEF Attempts
<1>4. \A a \in Attempts(E, c, p, s) : Outcomes(E, a) = Outcomes(F, a)
  BY <1>1, <1>3 DEF Outcomes, LetterKinds
<1> QED
  BY <1>2, <1>4 DEF WasSent, InFlight

\* Redaction takes the lines about q, and no others.
LEMMA RedactedLines ==
  ASSUME NEW E, E \subseteq Lines, NEW q \in Person, NEW p \in Person
  PROVE  /\ \A e \in Redacted(E, q) : e.who = p => e \in E
         /\ \A e \in E : e.who = p /\ (p # q \/ e.kind = "erased") => e \in Redacted(E, q)
         /\ \A e \in Redacted(E, q) : e.who = q => e.kind = "erased"
<1> DEFINE R(e) == IF e.who = q /\ e.kind # "erased" THEN [e EXCEPT !.who = Nobody] ELSE e
<1>1. Redacted(E, q) = {R(e) : e \in E}
  BY Zenon DEF Redacted
<1>2. \A e \in E : e.who = q /\ e.kind # "erased" => R(e).who = Nobody
  BY DEF Lines
<1>3. \A e \in E : ~(e.who = q /\ e.kind # "erased") => R(e) = e
  OBVIOUS
<1> HIDE DEF R
<1>4. Nobody # p /\ Nobody # q
  BY ConstantsAssumption
<1> QED
  BY <1>1, <1>2, <1>3, <1>4

\* Every line has a number the journal has reached.
LEMMA LinesNumbered ==
  ASSUME Base
  PROVE  /\ last \in Nat /\ att \in Nat /\ att <= last
         /\ \A e \in Every : e \in Lines /\ e.seq \in Nat /\ e.of \in Nat
                             /\ e.seq <= last /\ e.of <= last
         /\ journal \subseteq Lines /\ known \subseteq Lines /\ own \subseteq Lines
BY DEF Base, TypeInv, TypeOK, OnceInv, Numbered, Every, Lines

-----------------------------------------------------------------------------
(* What a step does to the journal and to the pass's copies of it.         *)

Still == UNCHANGED <<journal, last, tickVars, delivered>>

OutsideLine(f) ==
  /\ f \in Lines /\ f.kind \notin LetterKinds \cup {"erased"} /\ f.of = 0 /\ f.seq = last + 1
  /\ Append(f) /\ UNCHANGED <<tickVars, delivered>>

Ends == EndTick /\ UNCHANGED <<journal, last, delivered>>

WalksOn ==
  /\ pc # "idle" /\ pc' = "walk"
  /\ todo' \subseteq todo /\ (pc \in Letter => who \notin todo')
  /\ UNCHANGED <<journal, last, known, own, camps, cur, rows, delivered>>

AtGate ==
  /\ pc \in {"gate", "wire"} /\ pc' \in {"wire", "refused"} /\ (pc = "wire" => pc' = "refused")
  /\ UNCHANGED <<journal, last, known, own, camps, cur, rows, todo, who, att, delivered>>

PassStep ==
  \/ Ends \/ TickStart \/ NextCampaign \/ WalksOn \/ (\E p \in Person : Compose(p))
  \/ RecordSending \/ AtGate \/ Delivers \/ RecordSent \/ RecordFailed

RouteStep == Still \/ (\E f : OutsideLine(f)) \/ (\E q \in Person : Erase(q))

LEMMA TickKinds == TypeInv /\ Tick => PassStep
<1> SUFFICES ASSUME TypeInv, Tick PROVE PassStep
  OBVIOUS
<1> USE DEF worldVars, PassStep
<1>1. CASE TickEnds \/ StopForHalt \/ FailedNotRecorded
  BY <1>1 DEF TickEnds, StopForHalt, FailedNotRecorded, Ends
<1>2. CASE BreakOff
  BY <1>2 DEF BreakOff, WalksOn, Letter
<1>3. ASSUME NEW p \in Person,
             \/ PassOver(p) \/ StopPerson(p) \/ Unfit(p) \/ HoldForColleague(p)
             \/ Repair(p) \/ SetAside(p)
      PROVE  WalksOn
  <2>1. PassedBy(p) /\ Turn(p)
    BY <1>3 DEF PassOver, StopPerson, Unfit, HoldForColleague, Repair, SetAside, Sendable,
                Cleared, Due
  <2> QED
    BY <2>1 DEF PassedBy, Turn, WalksOn, Letter
<1>4. CASE SendingNotRecorded \/ NoAnswer \/ SaveAdvance
  BY <1>4 DEF SendingNotRecorded, NoAnswer, SaveAdvance, BackToWalk, WalksOn
<1>5. CASE GateHalted \/ GateOpens \/ Refuses
  BY <1>5 DEF GateHalted, GateOpens, Refuses, AtGate
<1> QED
  BY <1>1, <1>2, <1>3, <1>4, <1>5 DEF Tick

LEMMA RouteKinds == TypeInv /\ Routes => RouteStep
<1> SUFFICES ASSUME TypeInv, Routes PROVE RouteStep
  OBVIOUS
<1> USE DEF RouteStep
<1>l. ASSUME NEW k \in {"replied", "bounced", "unsubscribed", "autoreplied"},
             NEW p \in Person, NEW c \in Campaign \cup {NoCampaign}, NEW s \in Step,
             Append(Line(k, p, c, s, 0)), UNCHANGED <<tickVars, delivered>>
      PROVE  \E f : OutsideLine(f)
  <2> DEFINE f == Line(k, p, c, s, 0)
  <2>1. f \in Lines /\ f.kind = k /\ f.of = 0 /\ f.seq = last + 1
    BY <1>l, LineOK DEF Line, TypeInv, TypeOK
  <2> HIDE DEF f
  <2>2. OutsideLine(f)
    BY <1>l, <2>1 DEF f, OutsideLine, LetterKinds
  <2> QED
    BY <2>2
<1>t. \A e \in journal : e.camp \in Campaign \cup {NoCampaign} /\ e.step \in Step
  BY DEF TypeInv, TypeOK, Lines
<1>1. ASSUME NEW p \in Person, Erase(p) PROVE RouteStep
  BY <1>1
<1>2. ASSUME NEW p \in Person, Unsubscribe(p) PROVE RouteStep
  BY <1>2, <1>l DEF Unsubscribe, quiet
<1>3. ASSUME NEW p \in Person, AutoReply(p) PROVE RouteStep
  BY <1>3, <1>l, <1>t DEF AutoReply, quiet
<1>4. ASSUME NEW p \in Person, NEW k \in {"replied", "bounced"}, Inbound(p, k) PROVE RouteStep
  BY <1>4, <1>l, <1>t DEF Inbound, quiet
<1>5. ASSUME NEW c \in Campaign, \/ Start(c) \/ Pause(c) \/ Finish(c) \/ FinishPeople(c)
                                 \/ Remove(c) \/ RemovePeople(c)
      PROVE  Still
  BY <1>5 DEF Start, Pause, Finish, FinishPeople, Remove, RemovePeople, quiet, Still
<1>6. ASSUME NEW c \in Campaign, NEW p \in Person,
             EnrolCheck(c, p) \/ Enroll(c, p) \/ ResumePerson(c, p) \/ Postpone(c, p)
      PROVE  Still
  BY <1>6 DEF EnrolCheck, Enroll, ResumePerson, Postpone, quiet, Still
<1>7. ASSUME NEW p \in Person, Forget(p) PROVE Still
  BY <1>7 DEF Forget, quiet, Still
<1>8. CASE ResumeStopped \/ SetHalt
  BY <1>8 DEF ResumeStopped, SetHalt, quiet, Still
<1> QED
  BY <1>1, <1>2, <1>3, <1>4, <1>5, <1>6, <1>7, <1>8 DEF Routes

LEMMA StepKinds == TypeInv /\ [Next]_vars => PassStep \/ RouteStep
<1> SUFFICES ASSUME TypeInv, [Next]_vars PROVE PassStep \/ RouteStep
  OBVIOUS
<1>1. CASE DayPasses \/ Persist \/ UNCHANGED vars
  BY <1>1 DEF DayPasses, Persist, vars, worldVars, Still, RouteStep
<1>2. CASE Crash
  BY <1>2 DEF Crash, worldVars, Ends, PassStep
<1> QED
  BY <1>1, <1>2, TickKinds, RouteKinds DEF Next

-----------------------------------------------------------------------------
(* The copies agree, step by step.                                         *)

\* The next line has a number nobody has.
LEMMA NewNumber ==
  ASSUME Base, NEW f, f.seq = last + 1
  PROVE  \A e \in Every : e.seq # f.seq /\ ~(f.seq <= e.seq) /\ e.of # f.seq
BY LinesNumbered

\* A letter's line is written to the journal and to the pass's own list.
LEMMA OwnLine ==
  ASSUME Base, CopyInv, pc # "idle", NEW f, f.who \in Person, f.kind \in LetterKinds, f.seq = last + 1,
         journal' = journal \cup {f}, known' = known, own' = own \cup {f}
  PROVE  Unique' /\ Copies' /\ KnownPrefix'
<1>n. \A e \in Every : e.seq # f.seq /\ ~(f.seq <= e.seq)
  BY NewNumber
<1>1. Unique'
  <2>1. Every' = Every \cup {f}
    BY DEF Every
  <2> QED
    BY <1>n, <2>1 DEF CopyInv, Unique
<1>2. Copies'
  <2> SUFFICES ASSUME NEW p \in Person
               PROVE  /\ LinesOf(journal', p) \subseteq Journaled'
                      /\ Erased(journal', p) \/ LinesOf(Journaled', p) \subseteq journal'
                      /\ Erased(journal', p) /\ LinesOf(journal', p) \cap known # {}
                           => Erased(known, p)
    BY DEF Copies
  <2>0. /\ LinesOf(journal, p) \subseteq Journaled
        /\ Erased(journal, p) \/ LinesOf(Journaled, p) \subseteq journal
        /\ Erased(journal, p) /\ LinesOf(journal, p) \cap known # {} => Erased(known, p)
    BY DEF CopyInv, Copies
  <2>1. Journaled' = Journaled \cup {f}
    BY DEF Journaled
  <2>2. Erased(journal', p) <=> Erased(journal, p)
    BY DEF Erased, Told, LetterKinds
  <2>3. f \notin known
    BY <1>n DEF Every
  <2> QED
    BY <2>0, <2>1, <2>2, <2>3 DEF LinesOf
<1>3. KnownPrefix'
  BY <1>n DEF CopyInv, KnownPrefix, Every
<1> QED
  BY <1>1, <1>2, <1>3

LEMMA CopyOutside ==
  ASSUME Base, CopyInv, NEW f, OutsideLine(f)
  PROVE  CopyInv'
<1>0. /\ journal' = journal \cup {f} /\ f.seq = last + 1 /\ f.kind \notin LetterKinds \cup {"erased"}
      /\ UNCHANGED tickVars
  BY DEF OutsideLine, Append
<1>n. \A e \in Every : e.seq # f.seq /\ ~(f.seq <= e.seq)
  BY <1>0, NewNumber
<1>1. Unique'
  <2>1. Every' = Every \cup {f}
    BY <1>0 DEF Every, tickVars
  <2> QED
    BY <1>n, <2>1 DEF CopyInv, Unique
<1>2. Copies'
  <2>1. /\ \A p \in Person : LinesOf(journal', p) = LinesOf(journal, p)
        /\ \A p \in Person : Erased(journal', p) <=> Erased(journal, p)
    BY <1>0 DEF LinesOf, Erased, Told, LetterKinds
  <2>2. UNCHANGED <<pc, known, Journaled>>
    BY <1>0 DEF Journaled, tickVars
  <2> QED
    BY <1>0, <2>1, <2>2 DEF CopyInv, Copies
<1>3. KnownPrefix'
  BY <1>0, <1>n DEF CopyInv, KnownPrefix, Every, tickVars
<1>4. Untouched'
  BY <1>0 DEF CopyInv, Untouched, tickVars
<1>5. Decided'
  BY <1>0 DEF CopyInv, Decided, MustStop, Journaled, tickVars
<1> QED
  BY <1>1, <1>2, <1>3, <1>4, <1>5 DEF CopyInv

LEMMA CopyErase ==
  ASSUME Base, CopyInv, NEW q \in Person, Erase(q)
  PROVE  CopyInv'
<1> DEFINE f == Line("erased", q, NoCampaign, 0, 0)
<1>0. journal' = Redacted(journal, q) \cup {f} /\ UNCHANGED tickVars
  BY DEF Erase, quiet
<1>f. f.kind = "erased" /\ f.who = q /\ f.seq = last + 1
  BY DEF Line
<1> HIDE DEF f
<1>l. journal \subseteq Lines
  BY LinesNumbered
<1>r. \A p \in Person :
        /\ \A e \in Redacted(journal, q) : e.who = p => e \in journal
        /\ \A e \in journal : e.who = p /\ (p # q \/ e.kind = "erased") => e \in Redacted(journal, q)
        /\ \A e \in Redacted(journal, q) : e.who = q => e.kind = "erased"
  BY <1>l, RedactedLines
<1>n. \A e \in Every : e.seq # f.seq /\ ~(f.seq <= e.seq)
  BY <1>f, NewNumber
<1>1. Unique'
  <2>1. \A e \in Every' : e.who \in Person => e \in Every \cup {f}
    BY <1>0, <1>r DEF Every, tickVars
  <2> QED
    BY <1>n, <2>1 DEF CopyInv, Unique
<1>2. Copies'
  <2> SUFFICES ASSUME pc # "idle", NEW p \in Person
               PROVE  /\ LinesOf(journal', p) \subseteq Journaled
                      /\ Erased(journal', p) \/ LinesOf(Journaled, p) \subseteq journal'
                      /\ Erased(journal', p) /\ LinesOf(journal', p) \cap known # {}
                           => Erased(known, p)
    BY <1>0 DEF Copies, Journaled, tickVars
  <2>1. CASE p = q
    <3>1. LinesOf(journal', q) = {}
      BY <1>0, <1>f, <1>r DEF LinesOf, LetterKinds
    <3>2. Erased(journal', q)
      BY <1>0, <1>f DEF Erased, Told
    <3> QED
      BY <2>1, <3>1, <3>2
  <2>2. CASE p # q
    <3>1. LinesOf(journal', p) = LinesOf(journal, p)
      BY <1>0, <1>f, <1>r, <2>2 DEF LinesOf, LetterKinds
    <3>2. Erased(journal', p) <=> Erased(journal, p)
      BY <1>0, <1>f, <1>r, <2>2 DEF Erased, Told
    <3>3. LinesOf(Journaled, p) \subseteq journal => LinesOf(Journaled, p) \subseteq journal'
      BY <1>0, <1>r, <2>2 DEF LinesOf
    <3> QED
      BY <3>1, <3>2, <3>3 DEF CopyInv, Copies
  <2> QED
    BY <2>1, <2>2
<1>3. KnownPrefix'
  BY <1>0, <1>n, <1>r DEF CopyInv, KnownPrefix, Every, tickVars
<1>4. Untouched'
  BY <1>0 DEF CopyInv, Untouched, tickVars
<1>5. Decided'
  BY <1>0 DEF CopyInv, Decided, MustStop, Journaled, tickVars
<1> QED
  BY <1>1, <1>2, <1>3, <1>4, <1>5 DEF CopyInv

LEMMA CopyRoutes == Base /\ CopyInv /\ RouteStep => CopyInv'
<1> SUFFICES ASSUME Base, CopyInv, RouteStep PROVE CopyInv'
  OBVIOUS
<1>1. CASE Still
  BY <1>1 DEF Still, tickVars, CopyInv, Unique, Every, Copies, KnownPrefix, Untouched, Decided,
     MustStop, Journaled, LinesOf, Erased, Told
<1> QED
  BY <1>1, CopyOutside, CopyErase DEF RouteStep

LEMMA CopyPass == Base /\ CopyInv /\ PassStep => CopyInv'
<1> SUFFICES ASSUME Base, CopyInv, PassStep PROVE CopyInv'
  OBVIOUS
<1>1. CASE Ends
  <2>1. /\ pc' = "idle" /\ known' = {} /\ own' = {} /\ cur' = NoCampaign /\ camps' = {}
        /\ journal' = journal
    BY <1>1 DEF Ends, EndTick
  <2> QED
    BY <2>1 DEF CopyInv, Unique, Every, Copies, KnownPrefix, Untouched, Decided
<1>2. CASE TickStart
  <2>1. /\ pc = "idle" /\ pc' = "walk" /\ known' = journal /\ own = {} /\ camps' \subseteq Campaign
        /\ UNCHANGED <<journal, own, cur>>
    BY <1>2 DEF TickStart, Base, OnceInv
  <2>2. cur = NoCampaign /\ NoCampaign \notin Campaign
    BY <2>1, ConstantsAssumption DEF CopyInv, Untouched
  <2>3. Unique'
    BY <2>1 DEF CopyInv, Unique, Every
  <2>4. Copies'
    BY <2>1 DEF Copies, Journaled, LinesOf
  <2>5. KnownPrefix' /\ Untouched' /\ Decided'
    BY <2>1, <2>2 DEF KnownPrefix, Untouched, Decided
  <2> QED
    BY <2>3, <2>4, <2>5 DEF CopyInv
<1>3. CASE NextCampaign
  <2>1. /\ pc = "walk" /\ pc' = "walk" /\ UNCHANGED <<journal, known, own>>
        /\ \E c \in camps : cur' = c /\ camps' = camps \ {c}
    BY <1>3 DEF NextCampaign
  <2>2. Unique' /\ KnownPrefix'
    BY <2>1 DEF CopyInv, Unique, Every, KnownPrefix
  <2>3. Copies'
    BY <2>1 DEF CopyInv, Copies, Journaled
  <2>4. Untouched'
    BY <2>1 DEF CopyInv, Untouched
  <2> QED
    BY <2>1, <2>2, <2>3, <2>4 DEF CopyInv, Decided
<1>4. CASE WalksOn
  <2>1. Unique' /\ KnownPrefix'
    BY <1>4 DEF WalksOn, CopyInv, Unique, Every, KnownPrefix
  <2>2. Copies'
    BY <1>4 DEF WalksOn, CopyInv, Copies, Journaled
  <2>3. Untouched'
    BY <1>4 DEF WalksOn, CopyInv, Untouched, Letter
  <2> QED
    BY <1>4, <2>1, <2>2, <2>3 DEF WalksOn, CopyInv, Decided
<1>5. ASSUME NEW p \in Person, Compose(p) PROVE CopyInv'
  <2>1. /\ pc = "walk" /\ pc' = "writing" /\ who' = p /\ p \in todo
        /\ UNCHANGED <<journal, last, known, own, camps, cur, rows, todo>>
    BY <1>5 DEF Compose, Sendable, Cleared, Due, Turn
  <2>2. Unique' /\ KnownPrefix'
    BY <2>1 DEF CopyInv, Unique, Every, KnownPrefix
  <2>3. Copies'
    BY <2>1 DEF CopyInv, Copies, Journaled
  <2>4. Untouched'
    BY <2>1 DEF CopyInv, Untouched, Letter
  <2>5. Decided'
    BY <1>5, <2>1 DEF Compose, Sendable, Cleared, Decided, MustStop, Journaled
  <2> QED
    BY <2>2, <2>3, <2>4, <2>5 DEF CopyInv
<1>6. CASE AtGate
  <2>1. Unique' /\ KnownPrefix'
    BY <1>6 DEF AtGate, CopyInv, Unique, Every, KnownPrefix
  <2>2. Copies'
    BY <1>6 DEF AtGate, CopyInv, Copies, Journaled
  <2>3. Untouched'
    BY <1>6 DEF AtGate, CopyInv, Untouched, Letter
  <2> QED
    BY <1>6, <2>1, <2>2, <2>3 DEF AtGate, CopyInv, Decided
<1>7. CASE Delivers
  <2>0. pc = "wire" /\ pc' = "answer" /\ UNCHANGED <<journal, last, known, own, camps, cur, rows, todo, who>>
    BY <1>7 DEF Delivers
  <2>1. Unique' /\ KnownPrefix'
    BY <2>0 DEF CopyInv, Unique, Every, KnownPrefix
  <2>2. Copies'
    BY <2>0 DEF CopyInv, Copies, Journaled
  <2>3. Untouched'
    BY <2>0 DEF CopyInv, Untouched, Letter
  <2> QED
    BY <2>0, <2>1, <2>2, <2>3 DEF CopyInv, Decided
<1>8. CASE RecordSending
  <2> DEFINE f == Line("sending", who, cur, rows[who].step, 0)
  <2>0. /\ pc = "writing" /\ pc' = "gate" /\ journal' = journal \cup {f} /\ own' = own \cup {f}
        /\ UNCHANGED <<known, camps, cur, rows, todo, who>>
    BY <1>8 DEF RecordSending, Append
  <2>f. f.kind = "sending" /\ f.who = who /\ f.camp = cur /\ f.seq = last + 1
    BY DEF Line
  <2> HIDE DEF f
  <2>w. who \in Person
    BY <2>0, LetterOK DEF Base, Letter
  <2>1. Unique' /\ Copies' /\ KnownPrefix'
    BY <2>0, <2>f, <2>w, OwnLine DEF LetterKinds
  <2>2. Untouched'
    BY <2>0, <2>f DEF CopyInv, Untouched, Letter
  <2> QED
    BY <2>0, <2>1, <2>2 DEF CopyInv, Decided
<1>9. CASE RecordSent
  <2> DEFINE f == Line("sent", who, cur, rows[who].step, att)
  <2>0. /\ pc = "answer" /\ pc' = "advance" /\ journal' = journal \cup {f} /\ own' = own \cup {f}
        /\ UNCHANGED <<known, camps, cur, rows, todo, who>>
    BY <1>9 DEF RecordSent, Append
  <2>f. f.kind = "sent" /\ f.who = who /\ f.seq = last + 1
    BY DEF Line
  <2> HIDE DEF f
  <2>w. who \in Person
    BY <2>0, LetterOK DEF Base, Letter
  <2>1. Unique' /\ Copies' /\ KnownPrefix'
    BY <2>0, <2>f, <2>w, OwnLine DEF LetterKinds
  <2>2. Untouched'
    BY <2>0, <2>f DEF CopyInv, Untouched, Letter
  <2> QED
    BY <2>0, <2>1, <2>2 DEF CopyInv, Decided
<1>10. CASE RecordFailed
  <2> DEFINE f == Line("failed", who, cur, rows[who].step, att)
  <2>0. /\ pc = "refused" /\ journal' = journal \cup {f}
        /\ \/ EndTick
           \/ /\ pc' = "walk" /\ todo' = todo \ {who} /\ own' = own \cup {f}
              /\ UNCHANGED <<known, camps, cur, rows>>
    BY <1>10 DEF RecordFailed, Append, BackToWalk
  <2>f. f.kind = "failed" /\ f.who = who /\ f.seq = last + 1
    BY DEF Line
  <2> HIDE DEF f
  <2>w. who \in Person
    BY <2>0, LetterOK DEF Base, Letter
  <2>1. CASE EndTick
    <3>1. pc' = "idle" /\ known' = {} /\ own' = {} /\ cur' = NoCampaign /\ camps' = {}
      BY <2>1 DEF EndTick
    <3>2. \A e \in Every : e.seq # f.seq
      BY <2>f, NewNumber
    <3>3. Every' \subseteq Every \cup {f}
      BY <2>0, <3>1 DEF Every
    <3> QED
      BY <3>1, <3>2, <3>3 DEF CopyInv, Unique, Copies, KnownPrefix, Untouched, Decided
  <2>2. CASE /\ pc' = "walk" /\ todo' = todo \ {who} /\ own' = own \cup {f}
             /\ UNCHANGED <<known, camps, cur, rows>>
    <3>1. Unique' /\ Copies' /\ KnownPrefix'
      BY <2>0, <2>2, <2>f, <2>w, OwnLine DEF LetterKinds
    <3>2. Untouched'
      BY <2>0, <2>2, <2>f DEF CopyInv, Untouched, Letter
    <3> QED
      BY <2>2, <3>1, <3>2 DEF CopyInv, Decided
  <2> QED
    BY <2>0, <2>1, <2>2
<1> QED
  BY <1>1, <1>2, <1>3, <1>4, <1>5, <1>6, <1>7, <1>8, <1>9, <1>10 DEF PassStep

-----------------------------------------------------------------------------
(* What a step does to a row.                                              *)

\* Outside a pass a row keeps its step and the line it joined at; it may be
\* picked up, dropped, or joined anew.
Kept(r, n) ==
  /\ n.step = r.step /\ n.since = r.since /\ n.held \in {r.held, last}
  /\ n.st # "none" => r.st # "none"
RouteRow(r, n) == Kept(r, n) \/ n = NoRow \/ n = Joined(last)

\* The pass saves a row it has in its copy, as it was or one letter further.
PassRow(c, p, n) ==
  /\ c = cur /\ p \in todo /\ n.since = rows[p].since /\ n.held = rows[p].held
  /\ enr[c][p].st # "none" /\ rows[p].step \in Step
  /\ \/ n.step = rows[p].step
     \/ /\ n.step = rows[p].step + 1
        /\ \/ pc = "advance" /\ p = who
           \/ Cleared(p) /\ WasSent(Journaled, c, p, rows[p].step)

LEMMA RowEdits ==
  ASSUME NEW r \in Row, NEW x, NEW y
  PROVE  /\ [r EXCEPT !.st = x].step = r.step /\ [r EXCEPT !.st = x].since = r.since
         /\ [r EXCEPT !.st = x].held = r.held /\ [r EXCEPT !.st = x].st = x
         /\ [r EXCEPT !.due = x].step = r.step /\ [r EXCEPT !.due = x].since = r.since
         /\ [r EXCEPT !.due = x].held = r.held /\ [r EXCEPT !.due = x].st = r.st
         /\ [r EXCEPT !.st = x, !.fixable = y].step = r.step
         /\ [r EXCEPT !.st = x, !.fixable = y].since = r.since
         /\ [r EXCEPT !.st = x, !.fixable = y].held = r.held
         /\ [r EXCEPT !.st = x, !.fixable = y].st = x
BY DEF Row

LEMMA ResumedRow ==
  ASSUME NEW r \in Row, NEW h
  PROVE  /\ Resumed(r, h).step = r.step /\ Resumed(r, h).since = r.since
         /\ Resumed(r, h).held = h /\ Resumed(r, h).st = "active"
BY DEF Row, Resumed

LEMMA AdvancedRow ==
  ASSUME NEW r \in Row
  PROVE  /\ Advanced(r).step = r.step + 1 /\ Advanced(r).since = r.since
         /\ Advanced(r).held = r.held
<1>1. CASE r.step + 1 = Steps
  <2>1. Advanced(r) = [r EXCEPT !.step = @ + 1, !.st = "done", !.due = 0]
    BY <1>1 DEF Advanced
  <2> QED
    BY <2>1 DEF Row
<1>2. CASE r.step + 1 # Steps
  <2>1. Advanced(r) = [r EXCEPT !.step = @ + 1, !.st = "active", !.due = Delay[r.step + 1]]
    BY <1>2 DEF Advanced
  <2> QED
    BY <2>1 DEF Row
<1> QED
  BY <1>1, <1>2

LEMMA JoinedRow ==
  ASSUME NEW h
  PROVE  /\ Joined(h).step = 0 /\ Joined(h).since = h /\ Joined(h).held = h
         /\ NoRow.step = 0 /\ NoRow.since = 0 /\ NoRow.held = 0 /\ NoRow.st = "none"
BY DEF Joined, NoRow

LEMMA Typed ==
  ASSUME TypeInv
  PROVE  /\ enr \in [Campaign -> [Person -> Row]] /\ saved.enr \in [Campaign -> [Person -> Row]]
         /\ rows \in [Person -> Row] /\ todo \subseteq Person
         /\ \A c \in Campaign, p \in Person : enr[c][p] \in Row /\ saved.enr[c][p] \in Row
         /\ \A p \in Person : rows[p] \in Row
BY DEF TypeInv, TypeOK, Enrolments

LEMMA RoutesRow ==
  ASSUME TypeInv, Routes, NEW d \in Campaign, NEW q \in Person
  PROVE  RouteRow(enr[d][q], enr'[d][q])
<1>0. /\ enr \in [Campaign -> [Person -> Row]]
      /\ \A c \in Campaign, p \in Person : enr[c][p] \in Row
  BY Typed
<1>k. enr'[d][q] = enr[d][q] => RouteRow(enr[d][q], enr'[d][q])
  BY DEF RouteRow, Kept
<1> USE DEF RouteRow
<1>1. ASSUME NEW c \in Campaign, \/ Start(c) \/ Pause(c) \/ Finish(c) \/ Remove(c)
      PROVE  UNCHANGED enr
  BY <1>1 DEF Start, Pause, Finish, Remove
<1>2. ASSUME NEW c \in Campaign, FinishPeople(c) PROVE RouteRow(enr[d][q], enr'[d][q])
  <2> DEFINE row(p) == IF enr[c][p].st = "active" THEN Stopped(enr[c][p], FALSE) ELSE enr[c][p]
  <2>1. enr' = [enr EXCEPT ![c] = [p \in Person |-> row(p)]]
    BY <1>2 DEF FinishPeople
  <2>2. Kept(enr[c][q], row(q))
    BY <1>0, RowEdits DEF Kept, Stopped
  <2> HIDE DEF row
  <2> QED
    BY <1>0, <1>k, <2>1, <2>2
<1>3. ASSUME NEW c \in Campaign, RemovePeople(c) PROVE RouteRow(enr[d][q], enr'[d][q])
  <2>1. enr'[d][q] = IF d = c THEN NoRow ELSE enr[d][q]
    BY <1>0, <1>3 DEF RemovePeople
  <2> QED
    BY <1>k, <2>1
<1>4. ASSUME NEW c \in Campaign, NEW p \in Person, Enroll(c, p)
      PROVE  RouteRow(enr[d][q], enr'[d][q])
  <2> DEFINE r == Joined(last)
  <2>1. enr' = [enr EXCEPT ![c][p] = r] \/ enr' = enr
    BY <1>4, Zenon DEF Enroll, Joined
  <2> HIDE DEF r
  <2>2. enr'[d][q] = enr[d][q] \/ enr'[d][q] = r
    BY <1>0, <2>1
  <2> QED
    BY <1>k, <2>2 DEF r
<1>5. ASSUME NEW c \in Campaign, NEW p \in Person, ResumePerson(c, p)
      PROVE  RouteRow(enr[d][q], enr'[d][q])
  <2> DEFINE mid == [enr EXCEPT ![c][p].st = "active"]
  <2>1. enr' = [mid EXCEPT ![c][p].held = last] /\ enr[c][p].st # "none"
    BY <1>5 DEF ResumePerson
  <2>2. mid \in [Campaign -> [Person -> Row]]
    BY <1>0 DEF Row
  <2>3. /\ mid[c][p] = [enr[c][p] EXCEPT !.st = "active"]
        /\ d # c \/ q # p => mid[d][q] = enr[d][q]
    BY <1>0
  <2> HIDE DEF mid
  <2>4. /\ enr'[c][p] = [mid[c][p] EXCEPT !.held = last]
        /\ d # c \/ q # p => enr'[d][q] = mid[d][q]
    BY <2>1, <2>2
  <2>5. mid[c][p] \in Row
    BY <2>2
  <2>6. /\ enr'[c][p].step = mid[c][p].step /\ enr'[c][p].since = mid[c][p].since
        /\ enr'[c][p].held = last
    BY <2>4, <2>5 DEF Row
  <2>7. Kept(enr[c][p], enr'[c][p])
    BY <1>0, <2>1, <2>3, <2>6, RowEdits DEF Kept
  <2> QED
    BY <1>k, <2>3, <2>4, <2>7
<1>6. ASSUME NEW c \in Campaign, NEW p \in Person, Postpone(c, p)
      PROVE  RouteRow(enr[d][q], enr'[d][q])
  <2>1. \/ enr' = enr
        \/ enr' = [enr EXCEPT ![c][p].due = away[p]]
    BY <1>6 DEF Postpone
  <2>2. CASE enr' = [enr EXCEPT ![c][p].due = away[p]]
    <3>1. enr'[d][q] = IF d = c /\ q = p THEN [enr[c][p] EXCEPT !.due = away[p]] ELSE enr[d][q]
      BY <1>0, <2>2
    <3> QED
      BY <1>0, <1>k, <3>1, RowEdits DEF Kept
  <2> QED
    BY <1>k, <2>1, <2>2
<1>7. ASSUME NEW p \in Person, Forget(p) PROVE RouteRow(enr[d][q], enr'[d][q])
  <2>1. enr'[d][q] = IF q = p THEN NoRow ELSE enr[d][q]
    BY <1>0, <1>7 DEF Forget
  <2> QED
    BY <1>k, <2>1
<1>8. ASSUME NEW p \in Person,
             \/ Erase(p) \/ Unsubscribe(p) \/ AutoReply(p)
             \/ Inbound(p, "replied") \/ Inbound(p, "bounced")
      PROVE  UNCHANGED enr
  BY <1>8 DEF Erase, Unsubscribe, AutoReply, Inbound, stateVars
<1>9. CASE ResumeStopped
  <2> DEFINE row(c, p) == IF Resumable(enr[c][p]) THEN Resumed(enr[c][p], last) ELSE enr[c][p]
  <2>1. enr' = [c \in Campaign |-> [p \in Person |-> row(c, p)]]
    BY <1>9, Zenon DEF ResumeStopped, Resumed
  <2>2. Kept(enr[d][q], row(d, q))
    BY <1>0, ResumedRow DEF Kept, Resumable
  <2> HIDE DEF row
  <2> QED
    BY <2>1, <2>2
<1>10. CASE SetHalt
  BY <1>10, <1>k DEF SetHalt
<1>11. ASSUME NEW c \in Campaign, NEW p \in Person, EnrolCheck(c, p) PROVE UNCHANGED enr
  BY <1>11 DEF EnrolCheck, stateVars
<1> QED
  BY <1>k, <1>1, <1>2, <1>3, <1>4, <1>5, <1>6, <1>7, <1>8, <1>9, <1>10, <1>11 DEF Routes

\* A day changes when the next letters are due, and nothing else.
LEMMA DaysRow ==
  ASSUME NEW e \in Enrolments, NEW d \in Campaign, NEW q \in Person
  PROVE  Tomorrow(e)[d][q] = [e[d][q] EXCEPT !.due = Less(@)]
BY DEF Tomorrow

Saves(p, r) ==
  /\ SaveRow(cur, p, r) /\ r.since = rows[p].since /\ r.held = rows[p].held
  /\ \/ r.step = rows[p].step
     \/ /\ r.step = rows[p].step + 1
        /\ \/ pc = "advance" /\ p = who
           \/ Cleared(p) /\ WasSent(Journaled, cur, p, rows[p].step)

LEMMA SavedRow ==
  ASSUME TypeInv, NEW p \in todo, NEW r, Saves(p, r), NEW d \in Campaign, NEW q \in Person
  PROVE  enr'[d][q] = enr[d][q] \/ PassRow(d, q, enr'[d][q])
<1> USE DEF Saves
<1>1. enr \in [Campaign -> [Person -> Row]] /\ p \in Person /\ cur \in Campaign /\ rows[p].step \in Step
  BY Typed DEF TypeInv, RowsOK, RowOK
<1>2. CASE enr[cur][p].st = "none"
  BY <1>2 DEF SaveRow
<1>3. CASE enr[cur][p].st # "none"
  <2>1. enr' = [enr EXCEPT ![cur][p] = r]
    BY <1>3 DEF SaveRow
  <2>2. enr'[d][q] = IF d = cur /\ q = p THEN r ELSE enr[d][q]
    BY <1>1, <2>1
  <2> QED
    BY <1>1, <1>3, <2>2 DEF PassRow
<1> QED
  BY <1>2, <1>3

LEMMA TickRow ==
  ASSUME TypeInv, Tick, NEW d \in Campaign, NEW q \in Person
  PROVE  enr'[d][q] = enr[d][q] \/ PassRow(d, q, enr'[d][q])
<1>1. CASE \/ TickStart \/ TickEnds \/ NextCampaign \/ StopForHalt \/ BreakOff
           \/ RecordSending \/ SendingNotRecorded \/ GateHalted \/ GateOpens \/ Refuses
           \/ Delivers \/ RecordSent \/ FailedNotRecorded
  BY <1>1 DEF TickStart, TickEnds, NextCampaign, StopForHalt, BreakOff, RecordSending,
     SendingNotRecorded, GateHalted, GateOpens, Refuses, Delivers, RecordSent,
     FailedNotRecorded, stateVars
<1>t. \A p \in todo : p \in Person /\ rows[p] \in Row
  BY Typed
<1>e. \A p \in todo :
        \A r \in {Stopped(rows[p], FALSE), Stopped(rows[p], TRUE),
                  [rows[p] EXCEPT !.st = "paused"], [rows[p] EXCEPT !.st = "uncertain"]} :
          r.step = rows[p].step /\ r.since = rows[p].since /\ r.held = rows[p].held
  <2> TAKE p \in todo
  <2> DEFINE OK(r) == r.step = rows[p].step /\ r.since = rows[p].since /\ r.held = rows[p].held
  <2>1. OK([rows[p] EXCEPT !.st = "paused"]) /\ OK([rows[p] EXCEPT !.st = "uncertain"])
    BY <1>t, RowEdits
  <2>2. OK(Stopped(rows[p], FALSE)) /\ OK(Stopped(rows[p], TRUE))
    BY <1>t, RowEdits DEF Stopped
  <2> QED
    BY <2>1, <2>2
<1>2. ASSUME NEW p \in Person, PassOver(p) \/ Compose(p) PROVE UNCHANGED enr
  BY <1>2 DEF PassOver, Compose, stateVars
<1>3. ASSUME NEW p \in Person, StopPerson(p) \/ Unfit(p) \/ HoldForColleague(p) \/ SetAside(p)
      PROVE  enr'[d][q] = enr[d][q] \/ PassRow(d, q, enr'[d][q])
  <2>1. p \in todo
    BY <1>3 DEF StopPerson, Unfit, HoldForColleague, SetAside, Sendable, Cleared, Due, Turn
  <2>2. \E r \in {Stopped(rows[p], FALSE), Stopped(rows[p], TRUE),
                  [rows[p] EXCEPT !.st = "paused"], [rows[p] EXCEPT !.st = "uncertain"]} :
          SaveRow(cur, p, r)
    BY <1>3 DEF StopPerson, Unfit, HoldForColleague, SetAside
  <2>3. \A r \in {Stopped(rows[p], FALSE), Stopped(rows[p], TRUE),
                  [rows[p] EXCEPT !.st = "paused"], [rows[p] EXCEPT !.st = "uncertain"]} :
          SaveRow(cur, p, r) => Saves(p, r)
    BY <1>e, <2>1 DEF Saves
  <2> QED
    BY <2>1, <2>2, <2>3, SavedRow
<1>4. ASSUME NEW p \in Person, Repair(p)
      PROVE  enr'[d][q] = enr[d][q] \/ PassRow(d, q, enr'[d][q])
  <2>1. p \in todo /\ Cleared(p)
    BY <1>4 DEF Repair, Sendable, Cleared, Due, Turn
  <2>2. Saves(p, Advanced(rows[p]))
    BY <1>4, <1>t, <2>1, AdvancedRow DEF Repair, Saves
  <2> QED
    BY <2>1, <2>2, SavedRow
<1>5. CASE NoAnswer \/ SaveAdvance \/ RecordFailed
  <2>1. who \in todo
    BY <1>5, LetterOK DEF NoAnswer, SaveAdvance, RecordFailed, Letter
  <2>2. CASE NoAnswer
    <3>1. Saves(who, [rows[who] EXCEPT !.st = "uncertain"])
      BY <1>e, <2>1, <2>2 DEF NoAnswer, Saves
    <3> QED
      BY <2>1, <3>1, SavedRow
  <2>3. CASE SaveAdvance
    <3>1. Saves(who, Advanced(rows[who]))
      BY <1>t, <2>1, <2>3, AdvancedRow DEF SaveAdvance, Saves
    <3> QED
      BY <2>1, <3>1, SavedRow
  <2>4. CASE RecordFailed
    <3>1. (UNCHANGED enr) \/ SaveRow(cur, who, Stopped(rows[who], FALSE))
      BY <2>4 DEF RecordFailed
    <3>2. SaveRow(cur, who, Stopped(rows[who], FALSE)) => Saves(who, Stopped(rows[who], FALSE))
      BY <1>e, <2>1 DEF Saves
    <3> QED
      BY <2>1, <3>1, <3>2, SavedRow
  <2> QED
    BY <1>5, <2>2, <2>3, <2>4
<1> QED
  BY <1>1, <1>2, <1>3, <1>4, <1>5 DEF Tick

\* What happens to a row, whoever acts.
LEMMA NextRow ==
  ASSUME TypeInv, [Next]_vars, ~Crash, NEW d \in Campaign, NEW q \in Person
  PROVE  \/ RouteRow(enr[d][q], enr'[d][q]) /\ UNCHANGED tickVars
         \/ enr'[d][q] = enr[d][q]
         \/ PassRow(d, q, enr'[d][q]) /\ Tick
<1>1. CASE Tick
  BY <1>1, TickRow
<1>2. CASE Routes
  <2>1. UNCHANGED tickVars
    BY <1>2 DEF Routes, Start, Pause, Finish, FinishPeople, Remove, RemovePeople, EnrolCheck, Enroll,
       ResumePerson, Postpone, Erase, Forget, Unsubscribe, AutoReply, Inbound, ResumeStopped,
       SetHalt, quiet
  <2> QED
    BY <1>2, <2>1, RoutesRow
<1>3. CASE DayPasses
  <2>1. enr'[d][q] = [enr[d][q] EXCEPT !.due = Less(@)] /\ UNCHANGED tickVars
    BY <1>3, DaysRow DEF DayPasses, TypeInv, TypeOK
  <2>2. Kept(enr[d][q], enr'[d][q])
    BY <2>1, Typed, RowEdits DEF Kept
  <2> QED
    BY <2>1, <2>2 DEF RouteRow
<1>4. CASE Persist \/ UNCHANGED vars
  BY <1>4 DEF Persist, vars, stateVars
<1> QED
  BY <1>1, <1>2, <1>3, <1>4 DEF Next

\* The state file is written whole, or grows a day older.
LEMMA SavedFrom ==
  ASSUME TypeInv, [Next]_vars, NEW d \in Campaign, NEW q \in Person
  PROVE  \/ saved'.enr[d][q] \in {saved.enr[d][q], enr[d][q]}
         \/ saved'.enr[d][q] = [saved.enr[d][q] EXCEPT !.due = Less(@)]
<1>1. CASE DayPasses
  <2>1. saved'.enr = Tomorrow(saved.enr)
    BY <1>1 DEF DayPasses, TypeInv, TypeOK
  <2> QED
    BY <2>1, DaysRow DEF TypeInv, TypeOK
<1>2. CASE Persist \/ Crash \/ UNCHANGED vars
  BY <1>2 DEF Persist, Crash, vars
<1>3. CASE Tick
  BY <1>3 DEF Tick, TickStart, TickEnds, NextCampaign, StopForHalt, BreakOff, PassOver, StopPerson,
     Unfit, HoldForColleague, Repair, SetAside, Compose, PassedBy, RecordSending, SendingNotRecorded,
     GateHalted, GateOpens, Refuses, Delivers, NoAnswer, RecordSent, SaveAdvance, RecordFailed,
     FailedNotRecorded
<1>4. CASE Routes
  BY <1>4 DEF Routes, Start, Pause, Finish, FinishPeople, Remove, RemovePeople, EnrolCheck, Enroll,
     ResumePerson, Postpone, Erase, Forget, Unsubscribe, AutoReply, Inbound, ResumeStopped, SetHalt, quiet
<1> QED
  BY <1>1, <1>2, <1>3, <1>4 DEF Next

\* The pass's rows are copied when it comes to a campaign, and kept until it leaves.
LEMMA CopiedRows ==
  ASSUME PassStep
  PROVE  \/ todo' = {} /\ rows' = [p \in Person |-> NoRow]
         \/ NextCampaign
         \/ todo' \subseteq todo /\ rows' = rows /\ cur' = cur
BY DEF PassStep, Ends, EndTick, TickStart, WalksOn, Compose, RecordSending, AtGate, Delivers,
   RecordSent, RecordFailed, BackToWalk

LEMMA LastGrows ==
  ASSUME Base, PassStep \/ RouteStep
  PROVE  last' \in {last, last + 1} /\ last \in Nat
<1>1. last \in Nat
  BY LinesNumbered
<1>2. CASE PassStep
  BY <1>1, <1>2 DEF PassStep, Ends, TickStart, NextCampaign, WalksOn, Compose, RecordSending, AtGate,
     Delivers, RecordSent, RecordFailed, Append
<1>3. CASE RouteStep
  BY <1>1, <1>3 DEF RouteStep, Still, OutsideLine, Erase, Append
<1> QED
  BY <1>1, <1>2, <1>3

LEMMA HeldsStep == Base /\ WordInv /\ [Next]_vars => Helds'
<1> SUFFICES ASSUME Base, WordInv, [Next]_vars PROVE Helds'
  OBVIOUS
<1>t. TypeInv
  BY DEF Base
<1>k. PassStep \/ RouteStep
  BY <1>t, StepKinds
<1>l. last' \in {last, last + 1} /\ last \in Nat
  BY <1>k, LastGrows
<1>h. /\ \A c \in Campaign, p \in Person : HeldOK(enr[c][p]) /\ HeldOK(saved.enr[c][p])
      /\ \A p \in Person : HeldOK(rows[p])
      /\ \A p \in todo : enr[cur][p].st # "none" => rows[p].held <= enr[cur][p].held
  BY DEF WordInv, Helds
<1>n. \A r \in Row : r.since \in Nat /\ r.held \in Nat
  BY DEF Row
<1>o. \A r \in Row : HeldOK(r) => r.since <= r.held /\ r.held <= last'
  BY <1>l, <1>n DEF HeldOK
<1>z. 0 <= last'
  BY <1>l
<1> DEFINE OK(r) == r.since <= r.held /\ r.held <= last'
<1>1. ASSUME NEW c \in Campaign, NEW p \in Person PROVE OK(enr'[c][p])
  <2>1. enr[c][p] \in Row /\ saved.enr[c][p] \in Row /\ rows[p] \in Row
    BY <1>t, Typed
  <2>2. CASE Crash
    BY <1>h, <1>o, <2>1, <2>2 DEF Crash
  <2>3. CASE RouteRow(enr[c][p], enr'[c][p])
    <3>1. CASE Kept(enr[c][p], enr'[c][p])
      BY <1>h, <1>l, <1>n, <2>1, <3>1 DEF Kept, HeldOK
    <3>2. CASE enr'[c][p] = NoRow \/ enr'[c][p] = Joined(last)
      BY <1>l, <3>2, JoinedRow
    <3> QED
      BY <2>3, <3>1, <3>2 DEF RouteRow
  <2>4. CASE enr'[c][p] = enr[c][p]
    BY <1>h, <1>o, <2>1, <2>4
  <2>5. CASE PassRow(c, p, enr'[c][p])
    BY <1>h, <1>o, <2>1, <2>5 DEF PassRow
  <2> QED
    BY <1>t, <2>2, <2>3, <2>4, <2>5, NextRow
<1>2. ASSUME NEW c \in Campaign, NEW p \in Person PROVE OK(saved'.enr[c][p])
  <2>1. enr[c][p] \in Row /\ saved.enr[c][p] \in Row
    BY <1>t, Typed
  <2>2. CASE saved'.enr[c][p] \in {saved.enr[c][p], enr[c][p]}
    BY <1>h, <1>o, <2>1, <2>2
  <2>3. CASE saved'.enr[c][p] = [saved.enr[c][p] EXCEPT !.due = Less(@)]
    BY <1>h, <1>o, <2>1, <2>3, RowEdits
  <2> QED
    BY <1>t, <2>2, <2>3, SavedFrom
<1>r. \/ todo' = {} /\ rows' = [p \in Person |-> NoRow]
      \/ NextCampaign
      \/ todo' \subseteq todo /\ rows' = rows /\ cur' = cur
  <2>1. CASE RouteStep
    BY <2>1 DEF RouteStep, Still, OutsideLine, Erase, quiet, tickVars
  <2> QED
    BY <1>k, <2>1, CopiedRows
<1>c. cur \in Campaign \/ todo = {}
  BY <1>t DEF TypeInv, RowsOK
<1>3. ASSUME NEW p \in Person PROVE OK(rows'[p])
  <2>1. rows[p] \in Row /\ \A c \in Campaign : enr[c][p] \in Row
    BY <1>t, Typed
  <2>2. CASE NextCampaign
    <3>1. PICK c \in Campaign : rows' = enr[c]
      BY <1>t, <2>2 DEF NextCampaign, TypeInv, TypeOK
    <3> QED
      BY <1>h, <1>o, <2>1, <3>1
  <2>3. CASE rows' = rows
    BY <1>h, <1>o, <2>1, <2>3
  <2>4. CASE rows' = [o \in Person |-> NoRow]
    BY <1>z, <2>4, JoinedRow
  <2> QED
    BY <1>r, <2>2, <2>3, <2>4
<1>4. ASSUME NEW p \in todo', enr'[cur'][p].st # "none"
      PROVE  rows'[p].held <= enr'[cur'][p].held
  <2>2. CASE NextCampaign
    <3>1. enr' = enr /\ rows' = enr[cur'] /\ todo' \subseteq Person /\ cur' \in Campaign
      BY <1>t, <2>2 DEF NextCampaign, stateVars, TypeInv, TypeOK
    <3>2. enr[cur'][p] \in Row
      BY <1>t, <3>1, Typed
    <3> QED
      BY <1>n, <3>1, <3>2
  <2>3. CASE todo' \subseteq todo /\ rows' = rows /\ cur' = cur
    <3>1. p \in todo /\ p \in Person /\ cur \in Campaign
      BY <1>c, <1>t, <2>3, Typed
    <3>2. enr[cur][p] \in Row /\ rows[p] \in Row
      BY <1>t, <3>1, Typed
    <3>c. ~Crash
      BY <1>4 DEF Crash, EndTick
    <3>3. CASE RouteRow(enr[cur][p], enr'[cur][p])
      <4>1. CASE Kept(enr[cur][p], enr'[cur][p])
        <5>1. enr[cur][p].st # "none" /\ enr'[cur][p].held \in {enr[cur][p].held, last}
          BY <1>4, <2>3, <4>1 DEF Kept
        <5> QED
          BY <1>h, <2>3, <3>1, <5>1 DEF HeldOK
      <4>2. CASE enr'[cur][p] = NoRow
        BY <1>4, <2>3, <4>2, JoinedRow
      <4>3. CASE enr'[cur][p] = Joined(last)
        BY <1>h, <2>3, <3>1, <4>3, JoinedRow DEF HeldOK
      <4> QED
        BY <3>3, <4>1, <4>2, <4>3 DEF RouteRow
    <3>4. CASE enr'[cur][p] = enr[cur][p]
      BY <1>4, <1>h, <2>3, <3>1, <3>4
    <3>5. CASE PassRow(cur, p, enr'[cur][p])
      BY <1>n, <2>3, <3>2, <3>5 DEF PassRow
    <3> QED
      BY <1>t, <3>1, <3>c, <3>3, <3>4, <3>5, NextRow
  <2> QED
    BY <1>4, <1>r, <2>2, <2>3
<1> QED
  BY <1>1, <1>2, <1>3, <1>4 DEF Helds, HeldOK

LEMMA InitWord == Init => WordInv
<1> SUFFICES ASSUME Init PROVE WordInv
  OBVIOUS
<1>1. CopyInv
  BY DEF Init, CopyInv, Unique, Every, Copies, KnownPrefix, Untouched, Decided
<1>2. \A c \in Campaign, p \in Person : enr[c][p].since = 0 /\ enr[c][p].held = 0
  BY DEF Init, NoRow
<1>3. Helds
  BY <1>2, JoinedRow DEF Init, Helds, HeldOK
<1> QED
  BY <1>1, <1>3 DEF WordInv

LEMMA NextWord == Base /\ WordInv /\ [Next]_vars => WordInv'
<1> SUFFICES ASSUME Base, WordInv, [Next]_vars PROVE WordInv'
  OBVIOUS
<1>1. PassStep \/ RouteStep
  BY StepKinds DEF Base
<1>2. CopyInv'
  BY <1>1, CopyRoutes, CopyPass DEF WordInv
<1> QED
  BY <1>2, HeldsStep DEF WordInv

\* Of the lines that speak of letters, the only one of an attempt that a step
\* can add is that of the letter in hand.
LEMMA NewAttempt ==
  ASSUME Base, [Next]_vars, NEW e \in journal' \ journal, e.kind = "sending", e.who \in Person
  PROVE  RecordSending /\ e = Line("sending", who, cur, rows[who].step, 0)
<1>1. PassStep \/ RouteStep
  BY StepKinds DEF Base
<1>2. CASE RouteStep
  <2>1. CASE Still \/ \E f : OutsideLine(f)
    BY <2>1 DEF Still, OutsideLine, Append, LetterKinds
  <2>2. ASSUME NEW q \in Person, Erase(q) PROVE FALSE
    <3>1. e \in Redacted(journal, q)
      BY <2>2 DEF Erase, Line
    <3> QED
      BY <3>1, LinesNumbered, RedactedLines
  <2> QED
    BY <1>2, <2>1, <2>2 DEF RouteStep
<1>3. CASE PassStep
  <2>1. CASE ~RecordSending /\ ~RecordSent /\ ~RecordFailed
    BY <1>3, <2>1 DEF PassStep, Ends, TickStart, NextCampaign, WalksOn, Compose, AtGate, Delivers
  <2>2. CASE RecordSent \/ RecordFailed
    <3>1. \/ e = Line("sent", who, cur, rows[who].step, att)
          \/ e = Line("failed", who, cur, rows[who].step, att)
      BY <2>2 DEF RecordSent, RecordFailed, Append
    <3> QED
      BY <3>1 DEF Line
  <2>3. CASE RecordSending
    BY <2>3 DEF RecordSending, Append
  <2> QED
    BY <2>1, <2>2, <2>3
<1> QED
  BY <1>1, <1>2, <1>3

\* The least of some numbers, and the greatest of some that have a bound.
LEMMA Least ==
  ASSUME NEW S \in SUBSET Nat, S # {}
  PROVE  \E m \in S : \A k \in S : m <= k
<1> DEFINE R == OpToRel(<, Nat)
<1>1. \A x, y \in Nat : <<x, y>> \in R <=> x < y
  BY DEF OpToRel
<1>2. IsWellFoundedOn(R, Nat)
  BY NatLessThanWellFounded
<1> HIDE DEF R
<1>3. PICK m \in S : \A k \in S : ~(<<k, m>> \in R)
  BY <1>2, WFMin
<1>4. ASSUME NEW k \in S PROVE m <= k
  <2>1. m \in Nat /\ k \in Nat
    OBVIOUS
  <2>2. ~(k < m)
    BY <1>1, <1>3, <2>1
  <2> QED
    BY <2>1, <2>2
<1> QED
  BY <1>4

LEMMA Greatest ==
  ASSUME NEW n \in Nat, NEW S \in SUBSET Nat, S # {}, \A k \in S : k <= n
  PROVE  \E g \in S : \A k \in S : k <= g
<1> DEFINE Above == {m \in Nat : \A k \in S : k <= m}
<1>1. n \in Above /\ Above \in SUBSET Nat
  OBVIOUS
<1>2. PICK m \in Above : \A i \in Above : m <= i
  <2> HIDE DEF Above
  <2> QED
    BY <1>1, Least
<1>3. m \in S
  <2> SUFFICES ASSUME m \notin S PROVE FALSE
    OBVIOUS
  <2>1. \A k \in S : k \in Nat /\ k <= m /\ k # m
    BY <1>2
  <2>2. m > 0 /\ m \in Nat
    <3> PICK k \in S : TRUE
      OBVIOUS
    <3> QED
      BY <1>2, <2>1
  <2>3. m - 1 \in Above
    BY <2>1, <2>2
  <2> QED
    BY <1>2, <2>2, <2>3
<1> QED
  BY <1>2, <1>3

\* What is written while the pass has not heard of a word that came before an
\* earlier letter: the earlier letter is the pass's own, in another campaign.
LEMMA EarlierLetter ==
  ASSUME Base, WordInv, RecordSending, NEW w \in journal, w.who \in Person,
         NEW f \in LettersAfter(w, who)
  PROVE  w \in known \/ (f \in own /\ f.camp # cur)
<1>1. f \in journal /\ f.kind = "sending" /\ f.who = who /\ f.seq > w.seq
  BY DEF LettersAfter
<1>2. pc = "writing" /\ who \in Person /\ who \in todo
  BY LetterOK DEF Base, RecordSending, Letter
<1>3. f \in Journaled
  BY <1>1, <1>2 DEF WordInv, CopyInv, Copies, LinesOf, LetterKinds
<1>4. CASE f \in known
  <2>1. w.seq <= f.seq
    BY <1>1, LinesNumbered DEF Every
  <2> QED
    BY <1>4, <2>1 DEF WordInv, CopyInv, KnownPrefix
<1>5. CASE f \in own
  BY <1>1, <1>2, <1>5 DEF WordInv, CopyInv, Untouched
<1> QED
  BY <1>3, <1>4, <1>5 DEF Journaled

\* Compose looked at the latest answer of the company; who has not been picked
\* up since a colleague's is not written to.
LEMMA ColleagueSeen ==
  ASSUME Base, WordInv, RecordSending, NEW w \in known, ColleagueSaid(w, cur, who)
  PROVE  FALSE
<1>1. pc = "writing" /\ who \in Person /\ who \in todo /\ cur \in Campaign
  BY LetterOK DEF Base, RecordSending, Letter
<1> DEFINE answers == {e \in known : /\ e.kind = "replied" /\ e.camp = cur
                                     /\ e.who \in Person /\ CompanyOf[e.who] = CompanyOf[who]}
           seqs == {e.seq : e \in answers}
<1>2. w \in answers
  BY DEF ColleagueSaid
<1>3. \A e \in answers : e.seq \in Nat /\ e.seq <= last
  BY LinesNumbered DEF Every
<1>4. PICK k \in seqs : \A i \in seqs : i <= k
  <2>1. seqs \in SUBSET Nat /\ seqs # {} /\ \A i \in seqs : i <= last
    BY <1>2, <1>3
  <2> HIDE DEF seqs
  <2> QED
    BY <2>1, Greatest, LinesNumbered
<1>5. PICK g \in answers : \A e \in answers : e.seq <= g.seq
  BY <1>4
<1>6. /\ rows[who].since \in Nat /\ rows[who].held \in Nat /\ enr[cur][who].held \in Nat
      /\ rows[who].since <= rows[who].held /\ rows[who].held <= enr[cur][who].held
      /\ enr[cur][who].held < w.seq
  <2>1. enr[cur][who] \in Row /\ rows[who] \in Row
    BY <1>1, Typed DEF Base
  <2>2. enr[cur][who].st # "none" /\ enr[cur][who].held < w.seq
    BY DEF ColleagueSaid
  <2> QED
    BY <1>1, <2>1, <2>2 DEF WordInv, Helds, HeldOK, Row
<1>7. w.seq \in Nat /\ g.seq \in Nat /\ w.seq <= g.seq
  BY <1>2, <1>3, <1>5
<1>8. g.seq > rows[who].held /\ g.seq > rows[who].since
  BY <1>6, <1>7
<1>9. ~MustStop(who) /\ ~ColleagueReplied(known, cur, who, rows[who])
  BY <1>1 DEF WordInv, CopyInv, Decided
<1>10. CASE g.who = who
  BY <1>8, <1>9, <1>10 DEF MustStop, Stopper
<1>11. CASE g.who # who
  BY <1>5, <1>8, <1>9, <1>11 DEF ColleagueReplied
<1> QED
  BY <1>10, <1>11

\* Whoever said no, and whose colleague answered, is written to at most once more in
\* a campaign, and who said no in no other but by the pass that was under way, in
\* every behaviour of the chain.
THEOREM AWordIsKept == Spec => AtMostOneAfterWord
<1>1. Base /\ WordInv /\ [Next]_vars =>
        [\A e \in journal' \ journal, w \in journal : e.kind = "sending" /\ e.who \in Person =>
           /\ SaidNo(w, e.who) =>
                \A f \in LettersAfter(w, e.who) : f \in own /\ f.camp # e.camp
           /\ ColleagueSaid(w, e.camp, e.who) =>
                \A f \in LettersAfter(w, e.who) : f.camp # e.camp]_vars
  <2> SUFFICES ASSUME Base, WordInv, [Next]_vars,
                      NEW e \in journal' \ journal, NEW w \in journal,
                      e.kind = "sending", e.who \in Person
               PROVE  /\ SaidNo(w, e.who) =>
                           \A f \in LettersAfter(w, e.who) : f \in own /\ f.camp # e.camp
                      /\ ColleagueSaid(w, e.camp, e.who) =>
                           \A f \in LettersAfter(w, e.who) : f.camp # e.camp
    OBVIOUS
  <2>1. RecordSending /\ e.who = who /\ e.camp = cur
    BY NewAttempt DEF Line
  <2>2. ASSUME SaidNo(w, who), NEW f \in LettersAfter(w, who)
        PROVE  f \in own /\ f.camp # cur
    <3>1. w.who \in Person
      BY <2>1, <2>2 DEF SaidNo
    <3>2. w \notin known
      BY <2>1, <2>2 DEF SaidNo, RecordSending, WordInv, CopyInv, Decided, MustStop, Excluded, Told
    <3> QED
      BY <2>1, <3>1, <3>2, EarlierLetter
  <2>3. ASSUME ColleagueSaid(w, cur, who), NEW f \in LettersAfter(w, who)
        PROVE  f.camp # cur
    <3>1. w.who \in Person
      BY <2>3 DEF ColleagueSaid
    <3> QED
      BY <2>1, <2>3, <3>1, EarlierLetter, ColleagueSeen
  <2> QED
    BY <2>1, <2>2, <2>3
<1>2. Spec => [](Base /\ WordInv)
  <2>1. Init => Base /\ WordInv
    BY InitTypes, InitOnce, InitWord DEF Base
  <2>2. Base /\ WordInv /\ [Next]_vars => (Base /\ WordInv)'
    BY NextTypes, NextOnce, NextWord DEF Base
  <2> QED
    BY <2>1, <2>2, PTL DEF Spec
<1> QED
  BY <1>1, <1>2, PTL DEF Spec, AtMostOneAfterWord

-----------------------------------------------------------------------------
(* Who is erased stays out.  A request that is still to write its rows has *)
(* read the journal up to a line that no later one comes before.           *)

AskedInv ==
  \A c \in Campaign, p \in Person, n \in Nat : Asked(c, p, n) \in pending =>
    /\ n <= last
    /\ \A w \in journal : w.kind = "erased" /\ w.who = p => n < w.seq

\* Whoever is newly erased is erased by the youngest line.
LEMMA NewErasure ==
  ASSUME Base, [Next]_vars, NEW p \in Person, NEW w \in journal', w.kind = "erased", w.who = p
  PROVE  w \in journal \/ w.seq = last + 1
<1>t. TypeInv
  BY DEF Base
<1>1. PassStep \/ RouteStep
  BY <1>t, StepKinds
<1>2. ASSUME NEW q \in Person, Erase(q) PROVE w \in journal \/ w.seq = last + 1
  <2> DEFINE f == Line("erased", q, NoCampaign, 0, 0)
  <2>1. f.seq = last + 1
    BY DEF Line
  <2>2. journal' = Redacted(journal, q) \cup {f}
    BY <1>2 DEF Erase
  <2> HIDE DEF f
  <2>3. CASE w = f
    BY <2>1, <2>3
  <2>4. CASE w \in Redacted(journal, q)
    <3>1. PICK g \in journal :
            w = IF g.who = q /\ g.kind # "erased" THEN [g EXCEPT !.who = Nobody] ELSE g
      BY <2>4, Zenon DEF Redacted
    <3>2. g \in Lines
      BY <1>t DEF TypeInv, TypeOK
    <3>3. CASE g.who = q /\ g.kind # "erased"
      <4>1. w = [g EXCEPT !.who = Nobody]
        BY <3>1, <3>3
      <4>2. w.kind = g.kind
        BY <3>2, <4>1 DEF Lines
      <4> QED
        BY <3>3, <4>2
    <3>4. CASE ~(g.who = q /\ g.kind # "erased")
      BY <3>1, <3>4
    <3> QED
      BY <3>3, <3>4
  <2> QED
    BY <2>2, <2>3, <2>4
<1>3. ASSUME NEW f, OutsideLine(f) PROVE w \in journal
  BY <1>3 DEF OutsideLine, Append
<1>4. CASE Still
  BY <1>4 DEF Still
<1>5. CASE PassStep
  <2>1. \/ journal' = journal
        \/ \E k \in LetterKinds : \E q, c, s, o : journal' = journal \cup {Line(k, q, c, s, o)}
    BY <1>5 DEF PassStep, Ends, TickStart, NextCampaign, WalksOn, Compose, RecordSending, AtGate,
       Delivers, RecordSent, RecordFailed, Append, LetterKinds
  <2> QED
    BY <2>1 DEF Line, LetterKinds
<1> QED
  BY <1>1, <1>2, <1>3, <1>4, <1>5 DEF RouteStep

\* A request is added by its check, on the journal of that moment.
LEMMA NewRequest ==
  ASSUME [Next]_vars, NEW c \in Campaign, NEW p \in Person, NEW n \in Nat,
         Asked(c, p, n) \in pending'
  PROVE  \/ Asked(c, p, n) \in pending
         \/ n = last /\ ~Told(journal, p, {"erased"}) /\ UNCHANGED <<journal, last>>
<1> DEFINE a == Asked(c, p, n)
<1>a. a[1] = "enroll" /\ a[2] = c /\ a[3] = p /\ a[4] = n
  BY DEF Asked
<1>1. ASSUME NEW d \in Campaign, NEW q \in Person, EnrolCheck(d, q)
      PROVE  \/ a \in pending
             \/ n = last /\ ~Told(journal, p, {"erased"}) /\ UNCHANGED <<journal, last>>
  <2> DEFINE b == Asked(d, q, last)
  <2>1. pending' = pending \cup {b} /\ ~Excluded(journal, q) /\ UNCHANGED <<journal, last>>
    BY <1>1 DEF EnrolCheck
  <2>2. b[3] = q /\ b[4] = last
    BY DEF Asked
  <2>0. a \in pending'
    OBVIOUS
  <2> HIDE DEF a, b
  <2>3. a = b => p = q /\ n = last
    BY <1>a, <2>2
  <2>4. a \in pending \/ a = b
    BY <2>0, <2>1
  <2>5. ~Told(journal, q, {"erased"})
    BY <2>1 DEF Excluded, Told
  <2> QED
    BY <2>1, <2>3, <2>4, <2>5
<1>2. ASSUME NEW x, pending' = pending \cup {x}, x[1] # "enroll" PROVE a \in pending
  <2> HIDE DEF a
  <2> QED
    BY <1>2, <1>a DEF a
<1>3. ASSUME NEW d \in Campaign, Finish(d) \/ Remove(d) PROVE a \in pending
  <2>1. <<"finish", d>>[1] # "enroll" /\ <<"remove", d>>[1] # "enroll"
    OBVIOUS
  <2> QED
    BY <1>2, <1>3, <2>1 DEF Finish, Remove
<1>4. ASSUME NEW q \in Person, Erase(q) \/ AutoReply(q) PROVE a \in pending
  <2>1. <<"erase", q>>[1] # "enroll" /\ \A d : <<"postpone", d, q>>[1] # "enroll"
    OBVIOUS
  <2>2. CASE Erase(q)
    BY <1>2, <2>1, <2>2 DEF Erase
  <2>3. CASE AutoReply(q)
    <3>1. \E d : pending' = pending \cup {<<"postpone", d, q>>}
      BY <2>3 DEF AutoReply
    <3> QED
      BY <1>2, <2>1, <3>1
  <2> QED
    BY <1>4, <2>2, <2>3
<1>5. CASE pending' \subseteq pending
  BY <1>5
<1>6. CASE Routes
  <2>1. ASSUME NEW d \in Campaign,
               Start(d) \/ Pause(d) \/ FinishPeople(d) \/ RemovePeople(d)
        PROVE  pending' \subseteq pending
    BY <2>1 DEF Start, Pause, FinishPeople, RemovePeople
  <2>2. ASSUME NEW d \in Campaign, NEW q \in Person,
               Enroll(d, q) \/ ResumePerson(d, q) \/ Postpone(d, q)
        PROVE  pending' \subseteq pending
    BY <2>2 DEF Enroll, ResumePerson, Postpone
  <2>3. ASSUME NEW q \in Person,
               \/ Forget(q) \/ Unsubscribe(q)
               \/ Inbound(q, "replied") \/ Inbound(q, "bounced")
        PROVE  pending' \subseteq pending
    BY <2>3 DEF Forget, Unsubscribe, Inbound
  <2>4. CASE ResumeStopped \/ SetHalt
    BY <2>4 DEF ResumeStopped, SetHalt
  <2> QED
    BY <1>1, <1>3, <1>4, <1>5, <1>6, <2>1, <2>2, <2>3, <2>4 DEF Routes
<1>7. CASE Tick
  BY <1>7 DEF Tick, TickStart, TickEnds, NextCampaign, StopForHalt, BreakOff, PassOver, StopPerson,
     Unfit, HoldForColleague, Repair, SetAside, Compose, PassedBy, RecordSending, SendingNotRecorded,
     GateHalted, GateOpens, Refuses, Delivers, NoAnswer, RecordSent, SaveAdvance, RecordFailed,
     FailedNotRecorded
<1>8. CASE DayPasses \/ Persist \/ Crash \/ UNCHANGED vars
  BY <1>8 DEF DayPasses, Persist, Crash, vars
<1> QED
  BY <1>5, <1>6, <1>7, <1>8 DEF Next

LEMMA NextAsked == Base /\ AskedInv /\ [Next]_vars => AskedInv'
<1> SUFFICES ASSUME Base, AskedInv, [Next]_vars,
                    NEW c \in Campaign, NEW p \in Person, NEW n \in Nat, Asked(c, p, n) \in pending'
             PROVE  /\ n <= last'
                    /\ \A w \in journal' : w.kind = "erased" /\ w.who = p => n < w.seq
  BY DEF AskedInv, Asked
<1>1. last' \in {last, last + 1} /\ last \in Nat
  BY StepKinds, LastGrows DEF Base
<1>2. CASE Asked(c, p, n) \in pending
  <2>1. n <= last /\ \A w \in journal : w.kind = "erased" /\ w.who = p => n < w.seq
    BY <1>2 DEF AskedInv
  <2>2. ASSUME NEW w \in journal', w.kind = "erased", w.who = p PROVE n < w.seq
    <3>1. w \in journal \/ w.seq = last + 1
      BY <2>2, NewErasure
    <3> QED
      BY <1>1, <2>1, <2>2, <3>1
  <2> QED
    BY <1>1, <2>1, <2>2
<1>3. CASE n = last /\ ~Told(journal, p, {"erased"}) /\ UNCHANGED <<journal, last>>
  BY <1>1, <1>3 DEF Told
<1> QED
  BY <1>2, <1>3, NewRequest

\* A person who was erased has no row again, whatever a pass read before the erasure:
\* only a restart on an older state file brings one back, or a request that had asked
\* about the person before the erasure and was still to write its rows.
THEOREM ErasedStaysOut == Spec => ForgottenStaysForgotten
<1>1. Base /\ AskedInv /\ [Next]_vars =>
        [\A c \in Campaign, p \in Person, w \in journal :
           w.kind = "erased" /\ w.who = p /\ enr[c][p].st = "none" /\ enr'[c][p].st # "none"
             => \/ faults' > faults
                \/ \E r \in pending \ pending' : AskedBefore(r, c, p, w)]_vars
  <2> SUFFICES ASSUME Base, AskedInv, Next, NEW c \in Campaign, NEW p \in Person,
                      NEW w \in journal, w.kind = "erased", w.who = p, ~StaysOut(c, p)
               PROVE  \/ faults' > faults
                      \/ \E r \in pending \ pending' : AskedBefore(r, c, p, w)
    BY DEF StaysOut
  <2>1. Enroll(c, p) \/ Crash
    BY OnlyEnrolmentsJoin DEF Base
  <2>2. CASE Enroll(c, p)
    <3>1. PICK n \in 0 .. last : Asked(c, p, n) \in pending /\ pending' = pending \ {Asked(c, p, n)}
      BY <2>2 DEF Enroll
    <3>2. last \in Nat /\ n \in Nat
      BY DEF Base, TypeInv, TypeOK
    <3>3. n < w.seq
      BY <3>1, <3>2 DEF AskedInv
    <3>4. AskedBefore(Asked(c, p, n), c, p, w)
      BY <3>3 DEF AskedBefore, Asked
    <3> QED
      BY <3>1, <3>4
  <2>3. CASE Crash
    BY <2>3 DEF Crash, Fault, Base, TypeInv, TypeOK
  <2> QED
    BY <2>1, <2>2, <2>3
<1>2. Spec => [](Base /\ AskedInv)
  <2>1. Init => Base /\ AskedInv
    BY InitTypes, InitOnce DEF Base, Init, AskedInv
  <2>2. Base /\ AskedInv /\ [Next]_vars => (Base /\ AskedInv)'
    BY NextTypes, NextOnce, NextAsked DEF Base
  <2> QED
    BY <2>1, <2>2, PTL DEF Spec
<1> QED
  BY <1>1, <1>2, PTL DEF Spec, ForgottenStaysForgotten

-----------------------------------------------------------------------------
(* In turn.  A row is past a letter only when the letter reached the       *)
(* person and the journal, and the pass, can tell; a letter is attempted   *)
(* when every earlier one was sent and no attempt of its own is open.      *)

\* The rows of e are past letters that were delivered only, and that E knows of.
Had(e) ==
  \A c \in Campaign, p \in Person, s \in Step : s < e[c][p].step => delivered[c][p][s] # 0
Walked(K, E, e) ==
  \A c \in Campaign, p \in Person, s \in Step :
    s < e[c][p].step => WasSent(E, c, p, s) \/ Erased(K, p)
SentReached(E) ==
  \A c \in Campaign, p \in Person, s \in Step : WasSent(E, c, p, s) => delivered[c][p][s] # 0

\* No attempt is open of a letter that was sent, and none was made before the
\* letters it follows were sent.
InOrderFor(E, p) ==
  \A c \in Campaign, s \in Step :
    /\ WasSent(E, c, p, s) => ~InFlight(E, c, p, s)
    /\ Attempts(E, c, p, s) # {} => \A t \in Step : t < s => WasSent(E, c, p, t)
InOrder(K, E) == \A p \in Person : Erased(K, p) \/ InOrderFor(E, p)

RowsWalked ==
  \A p \in todo, s \in Step : s < rows[p].step =>
    /\ delivered[cur][p][s] # 0
    /\ WasSent(Journaled, cur, p, s) \/ Erased(known, p)

\* The letter in hand has a line of the pass's own; its other attempts are
\* over; past the provider it is delivered.
Hand ==
  /\ pc \in Letter \ {"writing"} => \E e \in own : MyLetter(e)
  /\ pc \in {"gate", "wire", "answer", "refused"} =>
       \A a \in Attempts(Journaled, cur, who, rows[who].step) :
         a.seq = att \/ Outcomes(Journaled, a) # {}
  /\ pc \in {"answer", "advance"} => delivered[cur][who][rows[who].step] # 0
  /\ pc = "advance" => WasSent(Journaled, cur, who, rows[who].step)
  /\ pc \in Letter => ~Erased(known, who)

Heard ==
  /\ \A p \in Person : Erased(known, p) => Erased(journal, p)
  /\ pc = "idle" => todo = {}

TurnInv ==
  /\ Had(enr) /\ Had(saved.enr)
  /\ Walked(journal, journal, enr) /\ Walked(journal, journal, saved.enr)
  /\ pc # "idle" => Walked(known, Journaled, enr)
  /\ SentReached(journal) /\ SentReached(Journaled)
  /\ InOrder(journal, journal) /\ (pc # "idle" => InOrder(known, Journaled))
  /\ RowsWalked /\ Hand /\ Heard
  /\ LettersInTurn

Known == Base /\ WordInv /\ TurnInv

\* Until a person is erased the file and the pass agree on their letters.
LEMMA AgreeUnlessErased ==
  ASSUME WordInv, pc # "idle", NEW p \in Person
  PROVE  Erased(journal, p) \/ Agree(journal, Journaled, p)
BY DEF WordInv, CopyInv, Copies, Agree, LinesOf

\* Erasure and delivery are for good.
LEMMA ErasedStays ==
  ASSUME Base, PassStep \/ RouteStep, NEW p \in Person, Erased(journal, p)
  PROVE  Erased(journal', p)
<1> PICK e \in journal : e.kind = "erased" /\ e.who = p
  BY DEF Erased, Told
<1>1. ASSUME NEW q \in Person, Erase(q) PROVE e \in journal'
  BY <1>1, LinesNumbered, RedactedLines DEF Erase
<1>2. ASSUME ~\E q \in Person : Erase(q) PROVE e \in journal'
  BY <1>2 DEF PassStep, RouteStep, Still, OutsideLine, Append, Ends, TickStart, NextCampaign,
     WalksOn, Compose, RecordSending, AtGate, Delivers, RecordSent, RecordFailed
<1> QED
  BY <1>1, <1>2 DEF Erased, Told

LEMMA DeliveredStays ==
  ASSUME Base, PassStep \/ RouteStep, NEW c \in Campaign, NEW p \in Person, NEW s \in Step,
         delivered[c][p][s] # 0
  PROVE  delivered'[c][p][s] # 0
<1>1. CASE Delivers
  <2>1. delivered \in [Campaign -> [Person -> [Step -> Nat]]] /\ delivered[c][p][s] \in Nat
    BY DEF Base, TypeInv, TypeOK
  <2>2. who \in Person /\ cur \in Campaign /\ rows[who].step \in Step
    BY <1>1, LetterOK DEF Delivers, Letter, Base
  <2>3. delivered' = [delivered EXCEPT ![cur][who][rows[who].step] = @ + 1]
    BY <1>1 DEF Delivers
  <2>4. delivered'[c][p][s] \in {delivered[c][p][s], delivered[c][p][s] + 1}
    BY <2>1, <2>2, <2>3
  <2> QED
    BY <2>1, <2>4
<1>2. CASE ~Delivers
  <2>1. delivered' = delivered
    BY <1>2 DEF PassStep, RouteStep, Still, OutsideLine, Ends, TickStart, NextCampaign, WalksOn,
       Compose, RecordSending, AtGate, RecordSent, RecordFailed, Erase, quiet, worldVars
  <2> QED
    BY <2>1
<1> QED
  BY <1>1, <1>2

\* What the journal says of the letters to a person stays, until they are erased.
LEMMA JournalKeeps ==
  ASSUME Base, PassStep \/ RouteStep, NEW p \in Person
  PROVE  Erased(journal', p) \/ LinesOf(journal, p) \subseteq journal'
<1>1. ASSUME NEW q \in Person, Erase(q)
      PROVE  Erased(journal', p) \/ LinesOf(journal, p) \subseteq journal'
  <2>1. CASE p = q
    <3> DEFINE f == Line("erased", q, NoCampaign, 0, 0)
    <3>1. f \in journal'
      BY <1>1 DEF Erase
    <3>2. f.kind = "erased" /\ f.who = q
      BY DEF Line
    <3> HIDE DEF f
    <3> QED
      BY <2>1, <3>1, <3>2 DEF Erased, Told
  <2>2. CASE p # q
    BY <1>1, <2>2, LinesNumbered, RedactedLines DEF Erase, LinesOf
  <2> QED
    BY <2>1, <2>2
<1>2. CASE ~\E q \in Person : Erase(q)
  BY <1>2 DEF LinesOf, PassStep, RouteStep, Still, OutsideLine, Append, Ends, TickStart,
     NextCampaign, WalksOn, Compose, RecordSending, AtGate, Delivers, RecordSent, RecordFailed
<1> QED
  BY <1>1, <1>2

\* The pass forgets nothing until it is over.
LEMMA PassKeeps ==
  ASSUME PassStep \/ RouteStep, pc # "idle", pc' # "idle"
  PROVE  known' = known /\ Journaled \subseteq Journaled'
BY DEF PassStep, RouteStep, Still, OutsideLine, Erase, quiet, Ends, EndTick, TickStart, NextCampaign,
   WalksOn, Compose, RecordSending, AtGate, Delivers, RecordSent, RecordFailed, BackToWalk, Journaled,
   tickVars

\* A row that has been moved on is past letters that were delivered, and that
\* the pass, and the file, know of.
LEMMA PassedLetters ==
  ASSUME Known, NEW c \in Campaign, NEW p \in Person, NEW n, PassRow(c, p, n),
         NEW s \in Step, s < n.step
  PROVE  /\ delivered[c][p][s] # 0
         /\ WasSent(Journaled, c, p, s) \/ Erased(known, p)
         /\ WasSent(journal, c, p, s) \/ Erased(journal, p)
<1>1. c = cur /\ p \in todo /\ rows[p].step \in Step /\ pc # "idle"
  BY DEF PassRow, Known, TurnInv, Heard
<1>2. /\ delivered[c][p][s] # 0
      /\ WasSent(Journaled, c, p, s) \/ Erased(known, p)
  <2>1. CASE s < rows[p].step
    BY <1>1, <2>1 DEF Known, TurnInv, RowsWalked
  <2>2. CASE ~(s < rows[p].step)
    <3>0. s \in Nat /\ rows[p].step \in Nat
      BY <1>1, StepFacts
    <3>a. n.step = rows[p].step \/ n.step = rows[p].step + 1
      BY DEF PassRow
    <3>1. s = rows[p].step /\ n.step = rows[p].step + 1
      BY <2>2, <3>0, <3>a
    <3>2. WasSent(Journaled, c, p, s)
      <4>1. \/ pc = "advance" /\ p = who
            \/ Cleared(p) /\ WasSent(Journaled, c, p, rows[p].step)
        BY <3>0, <3>1 DEF PassRow
      <4> QED
        BY <1>1, <3>1, <4>1 DEF Known, TurnInv, Hand
    <3>3. delivered[c][p][s] # 0
      BY <1>1, <3>2 DEF Known, TurnInv, SentReached
    <3> QED
      BY <3>2, <3>3
  <2> QED
    BY <2>1, <2>2
<1>3. WasSent(journal, c, p, s) \/ Erased(journal, p)
  <2>1. Erased(known, p) => Erased(journal, p)
    BY DEF Known, TurnInv, Heard
  <2>2. Erased(journal, p) \/ Agree(journal, Journaled, p)
    BY <1>1, AgreeUnlessErased DEF Known
  <2>3. ASSUME Agree(journal, Journaled, p), WasSent(Journaled, c, p, s)
        PROVE  WasSent(journal, c, p, s)
    BY <2>3, AgreeOnLetters
  <2> QED
    BY <1>2, <2>1, <2>2, <2>3
<1> QED
  BY <1>2, <1>3

\* What was known of a letter to p stays known in the file, or p is erased.
LEMMA StillWalked ==
  ASSUME Base, PassStep \/ RouteStep, NEW c, NEW p \in Person, NEW s,
         WasSent(journal, c, p, s) \/ Erased(journal, p)
  PROVE  WasSent(journal', c, p, s) \/ Erased(journal', p)
BY ErasedStays, JournalKeeps, SentThere

LEMMA RowsInTurn ==
  ASSUME Known, [Next]_vars
  PROVE  /\ Had(enr)' /\ Had(saved.enr)'
         /\ Walked(journal, journal, enr)' /\ Walked(journal, journal, saved.enr)'
<1>k. Base /\ TypeInv /\ (PassStep \/ RouteStep)
  BY StepKinds DEF Known, Base
<1> DEFINE Fine(n, c, p) == \A s \in Step : s < n.step =>
             /\ delivered'[c][p][s] # 0
             /\ WasSent(journal', c, p, s) \/ Erased(journal', p)
<1>f. ASSUME NEW c \in Campaign, NEW p \in Person, NEW n,
             \A s \in Step : s < n.step =>
               /\ delivered[c][p][s] # 0
               /\ WasSent(journal, c, p, s) \/ Erased(journal, p)
      PROVE  Fine(n, c, p)
  BY <1>f, <1>k, DeliveredStays, StillWalked
<1>g. ASSUME NEW c \in Campaign, NEW p \in Person
      PROVE  Fine(enr[c][p], c, p) /\ Fine(saved.enr[c][p], c, p)
  BY <1>f DEF Known, TurnInv, Had, Walked
<1>z. ASSUME NEW c \in Campaign, NEW p \in Person, NEW n, n.step = 0 PROVE Fine(n, c, p)
  BY <1>z, StepFacts
<1>s. ASSUME NEW c \in Campaign, NEW p \in Person, NEW n, NEW r, n.step = r.step, Fine(r, c, p)
      PROVE  Fine(n, c, p)
  BY <1>s
<1>1. ASSUME NEW c \in Campaign, NEW p \in Person PROVE Fine(enr'[c][p], c, p)
  <2>1. CASE Crash
    <3>1. enr'[c][p] = saved.enr[c][p]
      BY <2>1 DEF Crash
    <3> HIDE DEF Fine
    <3> QED
      BY <1>g, <3>1
  <2>2. CASE RouteRow(enr[c][p], enr'[c][p])
    <3>1. enr'[c][p].step = enr[c][p].step \/ enr'[c][p].step = 0
      BY <2>2, JoinedRow DEF RouteRow, Kept
    <3> HIDE DEF Fine
    <3> QED
      BY <1>g, <1>s, <1>z, <3>1
  <2>3. CASE enr'[c][p] = enr[c][p]
    <3> HIDE DEF Fine
    <3> QED
      BY <1>g, <2>3
  <2>4. CASE PassRow(c, p, enr'[c][p])
    BY <1>f, <2>4, PassedLetters
  <2> QED
    BY <1>k, <2>1, <2>2, <2>3, <2>4, NextRow
<1>2. ASSUME NEW c \in Campaign, NEW p \in Person PROVE Fine(saved'.enr[c][p], c, p)
  <2>1. saved.enr[c][p] \in Row
    BY <1>k, Typed
  <2>2. saved'.enr[c][p] \in {saved.enr[c][p], enr[c][p]} \/ saved'.enr[c][p].step = saved.enr[c][p].step
    <3>1. \/ saved'.enr[c][p] \in {saved.enr[c][p], enr[c][p]}
          \/ saved'.enr[c][p] = [saved.enr[c][p] EXCEPT !.due = Less(@)]
      BY <1>k, SavedFrom
    <3>2. [saved.enr[c][p] EXCEPT !.due = Less(@)].step = saved.enr[c][p].step
      BY <2>1, RowEdits
    <3> HIDE DEF Fine
    <3> QED
      BY <3>1, <3>2
  <2> HIDE DEF Fine
  <2> QED
    BY <1>g, <1>s, <2>2
<1> QED
  BY <1>1, <1>2 DEF Had, Walked

\* The pass, too, can tell of the letters a row is past.
LEMMA PassInTurn ==
  ASSUME Known, [Next]_vars, pc' # "idle"
  PROVE  Walked(known, Journaled, enr)'
<1>k. Base /\ TypeInv /\ (PassStep \/ RouteStep)
  BY StepKinds DEF Known, Base
<1>1. CASE pc = "idle"
  <2>1. TickStart
    <3>1. CASE RouteStep
      BY <1>1, <3>1 DEF RouteStep, Still, OutsideLine, Erase, quiet, tickVars
    <3>2. CASE PassStep
      BY <1>1, <3>2 DEF PassStep, Ends, EndTick, NextCampaign, WalksOn, Compose, Sendable, Cleared,
         Due, Turn, RecordSending, AtGate, Delivers, RecordSent, RecordFailed
    <3> QED
      BY <1>k, <3>1, <3>2
  <2>2. Walked(journal, journal, enr) /\ enr' = enr /\ known' = journal /\ own' = own /\ own = {}
    BY <1>1, <2>1 DEF TickStart, stateVars, Known, TurnInv, Base, OnceInv
  <2>3. Journaled' = journal
    BY <2>2 DEF Journaled
  <2> QED
    BY <2>2, <2>3 DEF Walked
<1>2. CASE pc # "idle"
  <2>1. known' = known /\ Journaled \subseteq Journaled'
    BY <1>2, <1>k, PassKeeps
  <2>2. ASSUME NEW c \in Campaign, NEW p \in Person, NEW s \in Step, WasSent(Journaled, c, p, s)
        PROVE  WasSent(Journaled', c, p, s)
    <3>1. LinesOf(Journaled, p) \subseteq Journaled'
      BY <2>1 DEF LinesOf
    <3> QED
      BY <2>2, <3>1, SentThere
  <2> DEFINE Fine(n, c, p) == \A s \in Step :
               s < n.step => WasSent(Journaled, c, p, s) \/ Erased(known, p)
  <2>3. \A c \in Campaign, p \in Person : Fine(enr[c][p], c, p)
    BY <1>2 DEF Known, TurnInv, Walked
  <2>4. ASSUME NEW c \in Campaign, NEW p \in Person PROVE Fine(enr'[c][p], c, p)
    <3>c. ~Crash
      BY DEF Crash, EndTick
    <3>1. CASE RouteRow(enr[c][p], enr'[c][p])
      <4>1. enr'[c][p].step = enr[c][p].step \/ enr'[c][p].step = 0
        BY <3>1, JoinedRow DEF RouteRow, Kept
      <4> QED
        BY <2>3, <4>1, StepFacts
    <3>2. CASE enr'[c][p] = enr[c][p]
      BY <2>3, <3>2
    <3>3. CASE PassRow(c, p, enr'[c][p])
      BY <3>3, PassedLetters
    <3> QED
      BY <1>k, <3>c, <3>1, <3>2, <3>3, NextRow
  <2> QED
    BY <2>1, <2>2, <2>4 DEF Walked
<1> QED
  BY <1>1, <1>2

LEMMA CopyInTurn ==
  ASSUME Known, [Next]_vars
  PROVE  RowsWalked'
<1>k. Base /\ TypeInv /\ (PassStep \/ RouteStep)
  BY StepKinds DEF Known, Base
<1>1. CASE NextCampaign
  <2>1. /\ rows' = enr[cur'] /\ cur' \in Campaign /\ todo' \subseteq Person /\ pc # "idle"
        /\ UNCHANGED <<known, own, journal, delivered>>
    BY <1>k, <1>1 DEF NextCampaign, TypeInv, TypeOK, worldVars
  <2>2. Journaled' = Journaled
    BY <2>1 DEF Journaled
  <2> QED
    BY <2>1, <2>2 DEF RowsWalked, Known, TurnInv, Had, Walked
<1>2. CASE todo' = {}
  BY <1>2 DEF RowsWalked
<1>3. CASE todo' \subseteq todo /\ rows' = rows /\ cur' = cur /\ todo' # {}
  <2>1. pc # "idle" /\ todo # {} /\ todo \subseteq Person /\ cur \in Campaign
    BY <1>3, <1>k, Typed DEF Known, TurnInv, Heard, TypeInv, RowsOK
  <2>2. pc' # "idle"
    <3>1. CASE PassStep
      BY <2>1, <1>3, <3>1 DEF PassStep, Ends, EndTick, TickStart, NextCampaign, WalksOn, Compose,
         RecordSending, AtGate, Delivers, RecordSent, RecordFailed, BackToWalk
    <3>2. CASE RouteStep
      BY <2>1, <3>2 DEF RouteStep, Still, OutsideLine, Erase, quiet, tickVars
    <3> QED
      BY <1>k, <3>1, <3>2
  <2>3. known' = known /\ Journaled \subseteq Journaled'
    BY <1>k, <2>1, <2>2, PassKeeps
  <2>4. ASSUME NEW p \in todo', NEW s \in Step, s < rows'[p].step
        PROVE  /\ delivered'[cur'][p][s] # 0
               /\ WasSent(Journaled', cur', p, s) \/ Erased(known', p)
    <3>1. /\ p \in todo /\ p \in Person /\ delivered[cur][p][s] # 0
          /\ WasSent(Journaled, cur, p, s) \/ Erased(known, p)
      BY <1>3, <2>1, <2>4 DEF Known, TurnInv, RowsWalked
    <3>2. LinesOf(Journaled, p) \subseteq Journaled'
      BY <2>3 DEF LinesOf
    <3>3. WasSent(Journaled, cur, p, s) => WasSent(Journaled', cur, p, s)
      BY <3>2, SentThere
    <3> QED
      BY <1>k, <1>3, <2>1, <2>3, <3>1, <3>3, DeliveredStays
  <2> QED
    BY <2>4 DEF RowsWalked
<1>4. \/ todo' = {}
      \/ NextCampaign
      \/ todo' \subseteq todo /\ rows' = rows /\ cur' = cur
  <2>1. CASE RouteStep
    BY <2>1 DEF RouteStep, Still, OutsideLine, Erase, quiet, tickVars
  <2> QED
    BY <1>k, <2>1, CopiedRows
<1> QED
  BY <1>1, <1>2, <1>3, <1>4

-----------------------------------------------------------------------------
(* What one more line does to what is known of the letters.                *)

\* A line that begins an attempt answers none.
LEMMA AttemptAdded ==
  ASSUME Base, NEW E, E \subseteq Every, NEW f, f.kind = "sending", f.seq = last + 1,
         NEW c, NEW p, NEW s
  PROVE  /\ Attempts(E, c, p, s) \subseteq Attempts(E \cup {f}, c, p, s)
         /\ Attempts(E \cup {f}, c, p, s) \subseteq Attempts(E, c, p, s) \cup {f}
         /\ \A a : Outcomes(E \cup {f}, a) = Outcomes(E, a)
         /\ Outcomes(E, f) = {}
         /\ WasSent(E \cup {f}, c, p, s) <=> WasSent(E, c, p, s)
         /\ ~(f.who = p /\ f.camp = c /\ f.step = s) =>
              Attempts(E \cup {f}, c, p, s) = Attempts(E, c, p, s)
<1>1. \A a : Outcomes(E \cup {f}, a) = Outcomes(E, a)
  BY DEF Outcomes
<1>2. Outcomes(E, f) = {}
  BY NewNumber DEF Outcomes
<1>3. /\ Attempts(E, c, p, s) \subseteq Attempts(E \cup {f}, c, p, s)
      /\ Attempts(E \cup {f}, c, p, s) \subseteq Attempts(E, c, p, s) \cup {f}
      /\ ~(f.who = p /\ f.camp = c /\ f.step = s) =>
           Attempts(E \cup {f}, c, p, s) = Attempts(E, c, p, s)
  BY DEF Attempts
<1>4. ASSUME WasSent(E \cup {f}, c, p, s) PROVE WasSent(E, c, p, s)
  <2>1. PICK a \in Attempts(E \cup {f}, c, p, s) : \E e \in Outcomes(E, a) : e.kind = "sent"
    BY <1>1, <1>4 DEF WasSent
  <2>2. a # f
    BY <1>2, <2>1
  <2> QED
    BY <1>3, <2>1, <2>2 DEF WasSent
<1>5. ASSUME WasSent(E, c, p, s) PROVE WasSent(E \cup {f}, c, p, s)
  <2>1. PICK a \in Attempts(E, c, p, s) : \E e \in Outcomes(E, a) : e.kind = "sent"
    BY <1>5 DEF WasSent
  <2>2. a \in Attempts(E \cup {f}, c, p, s) /\ Outcomes(E \cup {f}, a) = Outcomes(E, a)
    BY <1>1, <1>3, <2>1
  <2> QED
    BY <2>1, <2>2 DEF WasSent
<1> QED
  BY <1>1, <1>2, <1>3, <1>4, <1>5

\* A line that answers an attempt begins none.
LEMMA OutcomeAdded ==
  ASSUME NEW E, NEW f, f.kind \in {"sent", "failed"}, NEW c, NEW p, NEW s
  PROVE  /\ Attempts(E \cup {f}, c, p, s) = Attempts(E, c, p, s)
         /\ WasSent(E, c, p, s) => WasSent(E \cup {f}, c, p, s)
         /\ InFlight(E \cup {f}, c, p, s) => InFlight(E, c, p, s)
         /\ f.kind = "failed" /\ WasSent(E \cup {f}, c, p, s) => WasSent(E, c, p, s)
<1>1. Attempts(E \cup {f}, c, p, s) = Attempts(E, c, p, s)
  BY DEF Attempts
<1>2. ASSUME NEW a
      PROVE  /\ Outcomes(E, a) \subseteq Outcomes(E \cup {f}, a)
             /\ \A e \in Outcomes(E \cup {f}, a) : e = f \/ e \in Outcomes(E, a)
  BY DEF Outcomes
<1>3. ASSUME WasSent(E, c, p, s) PROVE WasSent(E \cup {f}, c, p, s)
  <2>1. PICK a \in Attempts(E, c, p, s) : \E e \in Outcomes(E, a) : e.kind = "sent"
    BY <1>3 DEF WasSent
  <2>2. \E e \in Outcomes(E \cup {f}, a) : e.kind = "sent"
    BY <1>2, <2>1
  <2> QED
    BY <1>1, <2>2 DEF WasSent
<1>4. ASSUME InFlight(E \cup {f}, c, p, s) PROVE InFlight(E, c, p, s)
  <2>1. PICK a \in Attempts(E, c, p, s) : Outcomes(E \cup {f}, a) = {}
    BY <1>1, <1>4 DEF InFlight
  <2>2. Outcomes(E, a) = {}
    BY <1>2, <2>1
  <2> QED
    BY <2>2 DEF InFlight
<1>5. ASSUME f.kind = "failed", WasSent(E \cup {f}, c, p, s) PROVE WasSent(E, c, p, s)
  <2>1. PICK a \in Attempts(E, c, p, s) : \E e \in Outcomes(E \cup {f}, a) : e.kind = "sent"
    BY <1>1, <1>5 DEF WasSent
  <2>2. \E e \in Outcomes(E, a) : e.kind = "sent"
    BY <1>2, <1>5, <2>1
  <2> QED
    BY <2>2 DEF WasSent
<1> QED
  BY <1>1, <1>3, <1>4, <1>5

\* The line `sent' of the letter in hand says that of this letter alone.
LEMMA SentAdded ==
  ASSUME Known, pc \in Letter \ {"writing"}, NEW E, E \subseteq Every,
         NEW f, f.kind = "sent", f.who = who, f.of = att,
         NEW c \in Campaign, NEW p \in Person, NEW s \in Step,
         WasSent(E \cup {f}, c, p, s), ~WasSent(E, c, p, s)
  PROVE  c = cur /\ p = who /\ s = rows[who].step
<1>0. Attempts(E \cup {f}, c, p, s) = Attempts(E, c, p, s)
  BY OutcomeAdded
<1>1. PICK a \in Attempts(E, c, p, s) : \E e \in Outcomes(E \cup {f}, a) : e.kind = "sent"
  BY <1>0 DEF WasSent
<1>2. PICK e \in Outcomes(E \cup {f}, a) : e.kind = "sent" /\ e \notin Outcomes(E, a)
  BY <1>1 DEF WasSent
<1>3. a.who = who /\ a.seq = att
  BY <1>2 DEF Outcomes
<1>4. PICK m \in own : MyLetter(m)
  BY DEF Known, TurnInv, Hand
<1>5. a \in Every /\ m \in Every /\ a.seq = m.seq /\ a.who = m.who /\ a.who \in Person
  BY <1>3, <1>4 DEF Attempts, Every, MyLetter, InHand
<1>6. a = m
  BY <1>5 DEF Known, WordInv, CopyInv, Unique
<1> QED
  BY <1>4, <1>6 DEF Attempts, MyLetter, InHand

\* Lines about other people, or about no letter, change nothing.
LEMMA InOrderAgree ==
  ASSUME NEW E, NEW F, NEW p, Agree(E, F, p), InOrderFor(E, p)
  PROVE  InOrderFor(F, p)
BY AgreeOnLetters DEF InOrderFor

\* An attempt follows letters that were sent, and is the only one of its letter open.
LEMMA InOrderAttempt ==
  ASSUME Base, NEW E, E \subseteq Every, NEW p, InOrderFor(E, p),
         NEW f, f.kind = "sending", f.seq = last + 1, f.who = p, f.step \in Step,
         ~WasSent(E, f.camp, p, f.step),
         \A t \in Step : t < f.step => WasSent(E, f.camp, p, t)
  PROVE  InOrderFor(E \cup {f}, p)
<1> SUFFICES ASSUME NEW c \in Campaign, NEW s \in Step
             PROVE  /\ WasSent(E \cup {f}, c, p, s) => ~InFlight(E \cup {f}, c, p, s)
                    /\ Attempts(E \cup {f}, c, p, s) # {} =>
                         \A t \in Step : t < s => WasSent(E \cup {f}, c, p, t)
  BY DEF InOrderFor
<1>1. /\ WasSent(E, c, p, s) => ~InFlight(E, c, p, s)
      /\ Attempts(E, c, p, s) # {} => \A t \in Step : t < s => WasSent(E, c, p, t)
  BY DEF InOrderFor
<1>w. \A t \in Step : WasSent(E \cup {f}, c, p, t) <=> WasSent(E, c, p, t)
  BY AttemptAdded
<1>2. CASE f.camp = c /\ f.step = s
  BY <1>1, <1>2, <1>w
<1>3. CASE ~(f.camp = c /\ f.step = s)
  <2>1. /\ Attempts(E \cup {f}, c, p, s) = Attempts(E, c, p, s)
        /\ \A a : Outcomes(E \cup {f}, a) = Outcomes(E, a)
    BY <1>3 DEF Attempts, Outcomes
  <2>2. InFlight(E \cup {f}, c, p, s) <=> InFlight(E, c, p, s)
    BY <2>1 DEF InFlight
  <2> QED
    BY <1>1, <1>w, <2>1, <2>2
<1> QED
  BY <1>2, <1>3

\* An outcome leaves no attempt of a letter that was sent open.
LEMMA InOrderOutcome ==
  ASSUME NEW E, NEW p \in Person, InOrderFor(E, p), NEW f, f.kind \in {"sent", "failed"},
         \A c \in Campaign, s \in Step :
           WasSent(E \cup {f}, c, p, s) /\ ~WasSent(E, c, p, s) => ~InFlight(E \cup {f}, c, p, s)
  PROVE  InOrderFor(E \cup {f}, p)
<1> SUFFICES ASSUME NEW c \in Campaign, NEW s \in Step
             PROVE  /\ WasSent(E \cup {f}, c, p, s) => ~InFlight(E \cup {f}, c, p, s)
                    /\ Attempts(E \cup {f}, c, p, s) # {} =>
                         \A t \in Step : t < s => WasSent(E \cup {f}, c, p, t)
  BY DEF InOrderFor
<1>1. /\ WasSent(E, c, p, s) => ~InFlight(E, c, p, s)
      /\ Attempts(E, c, p, s) # {} => \A t \in Step : t < s => WasSent(E, c, p, t)
  BY DEF InOrderFor
<1>2. /\ Attempts(E \cup {f}, c, p, s) = Attempts(E, c, p, s)
      /\ InFlight(E \cup {f}, c, p, s) => InFlight(E, c, p, s)
      /\ \A t \in Step : WasSent(E, c, p, t) => WasSent(E \cup {f}, c, p, t)
  BY OutcomeAdded
<1> QED
  BY <1>1, <1>2

-----------------------------------------------------------------------------
(* The lines a step writes.                                                *)

WritesLine(f) ==
  \/ RecordSending /\ f = Line("sending", who, cur, rows[who].step, 0)
  \/ RecordSent /\ f = Line("sent", who, cur, rows[who].step, att)
  \/ RecordFailed /\ f = Line("failed", who, cur, rows[who].step, att)

LEMMA JournalLines ==
  ASSUME PassStep \/ RouteStep
  PROVE  \/ journal' = journal
         \/ \E q \in Person : Erase(q)
         \/ \E f : OutsideLine(f)
         \/ \E f : WritesLine(f) /\ journal' = journal \cup {f}
<1>1. CASE RecordSending \/ RecordSent \/ RecordFailed
  BY <1>1 DEF RecordSending, RecordSent, RecordFailed, Append, WritesLine
<1>2. CASE ~(RecordSending \/ RecordSent \/ RecordFailed)
  BY <1>2 DEF PassStep, RouteStep, Still, Ends, TickStart, NextCampaign, WalksOn, Compose,
     AtGate, Delivers
<1> QED
  BY <1>1, <1>2

LEMMA JournaledLines ==
  ASSUME Base, PassStep \/ RouteStep, pc' # "idle"
  PROVE  \/ Journaled' = Journaled /\ known' = known /\ pc # "idle"
         \/ TickStart /\ Journaled' = journal /\ known' = journal /\ journal' = journal
         \/ \E f : WritesLine(f) /\ Journaled' = Journaled \cup {f} /\ known' = known /\ pc # "idle"
<1>1. CASE RecordSending \/ RecordSent \/ RecordFailed
  <2>1. \E f : WritesLine(f) /\ own' = own \cup {f} /\ known' = known /\ pc # "idle"
    BY <1>1 DEF RecordSending, RecordSent, RecordFailed, Append, WritesLine, EndTick
  <2> QED
    BY <2>1 DEF Journaled
<1>2. CASE TickStart
  <2>1. own = {} /\ own' = own /\ known' = journal /\ journal' = journal
    BY <1>2 DEF TickStart, Base, OnceInv
  <2> QED
    BY <1>2, <2>1 DEF Journaled
<1>3. CASE ~(RecordSending \/ RecordSent \/ RecordFailed \/ TickStart)
  <2>1. known' = known /\ own' = own /\ pc # "idle"
    BY <1>3 DEF PassStep, RouteStep, Still, OutsideLine, Erase, quiet, tickVars, Ends, EndTick,
       NextCampaign, WalksOn, Compose, Sendable, Cleared, Due, Turn, AtGate, Delivers
  <2> QED
    BY <2>1 DEF Journaled
<1> QED
  BY <1>1, <1>2, <1>3

\* The line of the letter in hand.
LEMMA LineWritten ==
  ASSUME Base, NEW f, WritesLine(f)
  PROVE  /\ pc \in Letter /\ who \in Person /\ who \in todo /\ cur \in Campaign
         /\ rows[who].step \in Step /\ delivered' = delivered
         /\ f.kind \in LetterKinds /\ f.seq = last + 1 /\ f.who = who /\ f.camp = cur
         /\ f.step = rows[who].step
         /\ f.kind = "sending" => pc = "writing" /\ RecordSending
         /\ f.kind # "sending" => pc \in Letter \ {"writing"} /\ f.of = att
         /\ f.kind = "sent" => pc = "answer"
<1>1. pc \in Letter /\ delivered' = delivered
  BY DEF WritesLine, RecordSending, RecordSent, RecordFailed, worldVars, Letter
<1>2. who \in Person /\ who \in todo /\ cur \in Campaign /\ rows[who].step \in Step
  BY <1>1, LetterOK DEF Base
<1>3. /\ f.kind \in LetterKinds /\ f.seq = last + 1 /\ f.who = who /\ f.camp = cur
      /\ f.step = rows[who].step
      /\ f.kind = "sending" => pc = "writing" /\ RecordSending
      /\ f.kind # "sending" => pc \in Letter \ {"writing"} /\ f.of = att
      /\ f.kind = "sent" => pc = "answer"
  <2>1. ASSUME NEW k, NEW n PROVE LET l == Line(k, who, cur, rows[who].step, n)
                                  IN  /\ l.kind = k /\ l.seq = last + 1 /\ l.who = who
                                      /\ l.camp = cur /\ l.step = rows[who].step /\ l.of = n
    BY DEF Line
  <2>2. \/ RecordSending /\ f = Line("sending", who, cur, rows[who].step, 0) /\ pc = "writing"
        \/ f = Line("sent", who, cur, rows[who].step, att) /\ pc = "answer"
        \/ f = Line("failed", who, cur, rows[who].step, att) /\ pc = "refused"
    BY DEF WritesLine, RecordSending, RecordSent, RecordFailed
  <2> QED
    BY <2>1, <2>2 DEF Letter, LetterKinds
<1> QED
  BY <1>1, <1>2, <1>3

\* A line `sent' is written of a letter that was delivered.
LEMMA SentWritten ==
  ASSUME Known, NEW f, WritesLine(f), NEW E, E \subseteq Every, SentReached(E)
  PROVE  SentReached(E \cup {f})
<1> SUFFICES ASSUME NEW c \in Campaign, NEW p \in Person, NEW s \in Step,
                    WasSent(E \cup {f}, c, p, s)
             PROVE  delivered[c][p][s] # 0
  BY DEF SentReached
<1>0. Base
  BY DEF Known
<1>1. CASE WasSent(E, c, p, s)
  BY <1>1 DEF SentReached
<1>2. CASE ~WasSent(E, c, p, s)
  <2>1. f.kind # "sending"
    BY <1>0, <1>2, LineWritten, AttemptAdded
  <2>2. f.kind # "failed"
    BY <1>2, OutcomeAdded
  <2>3. f.kind = "sent" /\ f.who = who /\ f.of = att /\ pc = "answer" /\ pc \in Letter \ {"writing"}
    BY <1>0, <2>1, <2>2, LineWritten DEF LetterKinds
  <2>4. c = cur /\ p = who /\ s = rows[who].step
    BY <1>2, <2>3, SentAdded
  <2> QED
    BY <2>3, <2>4 DEF Known, TurnInv, Hand
<1> QED
  BY <1>1, <1>2

\* The letters of the person it is about stay in order.
LEMMA InOrderWritten ==
  ASSUME Known, NEW f, WritesLine(f), NEW E, E \subseteq Every,
         Agree(E, Journaled, who), InOrderFor(E, who)
  PROVE  InOrderFor(E \cup {f}, who)
<1>0. Base /\ ~Erased(known, who)
  BY LineWritten DEF Known, TurnInv, Hand
<1>f. /\ pc \in Letter /\ who \in Person /\ who \in todo /\ cur \in Campaign
      /\ rows[who].step \in Step
      /\ f.kind \in LetterKinds /\ f.seq = last + 1 /\ f.who = who /\ f.camp = cur
      /\ f.step = rows[who].step
      /\ f.kind = "sending" => pc = "writing"
      /\ f.kind # "sending" => pc \in Letter \ {"writing"} /\ f.of = att
  BY <1>0, LineWritten
<1>a. ASSUME NEW s \in Step
      PROVE  /\ WasSent(E, cur, who, s) <=> WasSent(Journaled, cur, who, s)
             /\ Attempts(E, cur, who, s) = Attempts(Journaled, cur, who, s)
             /\ \A a \in Attempts(E, cur, who, s) : Outcomes(E, a) = Outcomes(Journaled, a)
  BY AgreeOnLetters
<1>1. CASE f.kind = "sending"
  <2>1. ~WasSent(E, cur, who, rows[who].step)
    BY <1>1, <1>a, <1>f DEF Known, WordInv, CopyInv, Decided
  <2>2. \A t \in Step : t < rows[who].step => WasSent(E, cur, who, t)
    BY <1>0, <1>a, <1>f DEF Known, TurnInv, RowsWalked
  <2> QED
    BY <1>0, <1>1, <1>f, <2>1, <2>2, InOrderAttempt
<1>2. CASE f.kind # "sending"
  <2>0. f.kind \in {"sent", "failed"}
    BY <1>2, <1>f DEF LetterKinds
  <2>1. ASSUME NEW c \in Campaign, NEW s \in Step,
               WasSent(E \cup {f}, c, who, s), ~WasSent(E, c, who, s)
        PROVE  ~InFlight(E \cup {f}, c, who, s)
    <3>1. f.kind = "sent"
      BY <2>0, <2>1, OutcomeAdded
    <3>2. c = cur /\ s = rows[who].step
      BY <1>2, <1>f, <2>1, <3>1, SentAdded
    <3>3. pc \in {"gate", "wire", "answer", "refused"}
      BY <1>0, <3>1, LineWritten
    <3>4. ASSUME NEW a \in Attempts(E \cup {f}, c, who, s) PROVE Outcomes(E \cup {f}, a) # {}
      <4>1. a \in Attempts(E, cur, who, s) /\ a.who = who
        BY <2>0, <3>2, <3>4, OutcomeAdded DEF Attempts
      <4>2. a.seq = att \/ Outcomes(E, a) # {}
        BY <1>a, <3>2, <3>3, <4>1 DEF Known, TurnInv, Hand
      <4>3. CASE a.seq = att
        <5>1. f \in Outcomes(E \cup {f}, a)
          BY <1>2, <1>f, <2>0, <4>1, <4>3 DEF Outcomes
        <5> QED
          BY <5>1
      <4>4. CASE Outcomes(E, a) # {}
        BY <4>4 DEF Outcomes
      <4> QED
        BY <4>2, <4>3, <4>4
    <3> QED
      BY <3>4 DEF InFlight
  <2> QED
    BY <1>f, <2>0, <2>1, InOrderOutcome
<1> QED
  BY <1>1, <1>2

-----------------------------------------------------------------------------
(* The letters stay in order.                                              *)

LEMMA SentFewer ==
  ASSUME NEW E, NEW F, SentReached(E), \A p \in Person : LinesOf(F, p) \subseteq E
  PROVE  SentReached(F)
BY SentThere DEF SentReached

\* Erasing p leaves the lines about everybody else as they are.
LEMMA ErasedLines ==
  ASSUME Base, NEW q \in Person, Erase(q)
  PROVE  /\ Erased(journal', q)
         /\ \A p \in Person : LinesOf(journal', p) \subseteq journal
         /\ \A p \in Person : p # q => Agree(journal, journal', p)
         /\ \A e \in journal' : e.who = q => e.kind = "erased"
<1> DEFINE f == Line("erased", q, NoCampaign, 0, 0)
<1>0. journal' = Redacted(journal, q) \cup {f} /\ journal \subseteq Lines
  BY LinesNumbered DEF Erase
<1>f. f.kind = "erased" /\ f.who = q
  BY DEF Line
<1> HIDE DEF f
<1>r. ASSUME NEW p \in Person
      PROVE  /\ \A e \in Redacted(journal, q) : e.who = p => e \in journal
             /\ \A e \in journal : e.who = p /\ (p # q \/ e.kind = "erased") => e \in Redacted(journal, q)
             /\ \A e \in Redacted(journal, q) : e.who = q => e.kind = "erased"
  BY <1>0, RedactedLines
<1>1. Erased(journal', q)
  BY <1>0, <1>f DEF Erased, Told
<1>2. \A p \in Person : LinesOf(journal', p) \subseteq journal
  BY <1>0, <1>f, <1>r DEF LinesOf, LetterKinds
<1>3. \A p \in Person : p # q => Agree(journal, journal', p)
  BY <1>0, <1>f, <1>r DEF Agree, LinesOf, LetterKinds
<1>4. \A e \in journal' : e.who = q => e.kind = "erased"
  BY <1>0, <1>f, <1>r
<1> QED
  BY <1>1, <1>2, <1>3, <1>4

LEMMA SentInTurn ==
  ASSUME Known, [Next]_vars
  PROVE  SentReached(journal)' /\ SentReached(Journaled)'
<1>k. Base /\ (PassStep \/ RouteStep)
  BY StepKinds DEF Known, Base
<1>e. /\ SentReached(journal) /\ SentReached(Journaled)
      /\ journal \subseteq Every /\ Journaled \subseteq Every
  BY DEF Known, TurnInv, Every, Journaled
<1>d. ASSUME NEW E, SentReached(E)
      PROVE  \A c \in Campaign, p \in Person, s \in Step :
               WasSent(E, c, p, s) => delivered'[c][p][s] # 0
  BY <1>d, <1>k, DeliveredStays DEF SentReached
<1>1. SentReached(journal')
  <2>1. ASSUME NEW q \in Person, Erase(q) PROVE SentReached(journal')
    BY <1>e, <1>k, <2>1, ErasedLines, SentFewer
  <2>2. ASSUME NEW f, OutsideLine(f) PROVE SentReached(journal')
    <3>1. \A p \in Person : LinesOf(journal', p) \subseteq journal
      BY <2>2 DEF OutsideLine, Append, LinesOf
    <3> QED
      BY <1>e, <3>1, SentFewer
  <2>3. ASSUME NEW f, WritesLine(f), journal' = journal \cup {f} PROVE SentReached(journal')
    <3>1. SentReached(journal \cup {f})
      BY <1>e, <2>3, SentWritten
    <3> QED
      BY <2>3, <3>1
  <2> QED
    BY <1>e, <1>k, <2>1, <2>2, <2>3, JournalLines
<1>2. SentReached(Journaled')
  <2>1. CASE pc' = "idle"
    <3>1. (known' = {} /\ own' = {}) \/ (known' = known /\ own' = own)
      <4>1. CASE PassStep
        <5>1. Ends \/ RecordFailed
          BY <2>1, <4>1 DEF PassStep, TickStart, NextCampaign, WalksOn, Compose, Sendable, Cleared,
             Due, Turn, RecordSending, AtGate, Delivers, RecordSent
        <5> QED
          BY <2>1, <5>1 DEF Ends, EndTick, RecordFailed, BackToWalk
      <4>2. CASE RouteStep
        BY <4>2 DEF RouteStep, Still, OutsideLine, Erase, quiet, tickVars
      <4> QED
        BY <1>k, <4>1, <4>2
    <3>2. Journaled' = {} \/ Journaled' = Journaled
      BY <3>1 DEF Journaled
    <3>3. SentReached({})
      BY DEF SentReached, WasSent, Attempts
    <3> QED
      BY <1>e, <3>2, <3>3
  <2>2. CASE pc' # "idle"
    <3>1. ASSUME NEW f, WritesLine(f), Journaled' = Journaled \cup {f} PROVE SentReached(Journaled')
      <4>1. SentReached(Journaled \cup {f})
        BY <1>e, <3>1, SentWritten
      <4> QED
        BY <3>1, <4>1
    <3> QED
      BY <1>e, <1>k, <2>2, <3>1, JournaledLines
  <2> QED
    BY <2>1, <2>2
<1>3. /\ \A c \in Campaign, p \in Person, s \in Step : WasSent(journal', c, p, s) => delivered'[c][p][s] # 0
      /\ \A c \in Campaign, p \in Person, s \in Step : WasSent(Journaled', c, p, s) => delivered'[c][p][s] # 0
  BY <1>1, <1>2, <1>d
<1> QED
  BY <1>3 DEF SentReached

LEMMA OrderInTurn ==
  ASSUME Known, [Next]_vars
  PROVE  InOrder(journal, journal)' /\ (pc' # "idle" => InOrder(known, Journaled)')
<1>k. Base /\ (PassStep \/ RouteStep)
  BY StepKinds DEF Known, Base
<1>e. InOrder(journal, journal) /\ journal \subseteq Every /\ Journaled \subseteq Every
  BY DEF Known, TurnInv, Every, Journaled
<1>1. ASSUME NEW p \in Person, ~Erased(journal', p) PROVE InOrderFor(journal', p)
  <2>0. ~Erased(journal, p)
    BY <1>1, <1>k, ErasedStays
  <2>i. InOrderFor(journal, p)
    BY <1>e, <2>0 DEF InOrder
  <2>1. ASSUME NEW q \in Person, Erase(q) PROVE InOrderFor(journal', p)
    BY <1>1, <1>k, <2>1, <2>i, ErasedLines, InOrderAgree
  <2>2. ASSUME NEW f, OutsideLine(f) PROVE InOrderFor(journal', p)
    <3>1. Agree(journal, journal', p)
      BY <2>2 DEF OutsideLine, Append, LinesOf, Agree
    <3> QED
      BY <2>i, <3>1, InOrderAgree
  <2>3. ASSUME NEW f, WritesLine(f), journal' = journal \cup {f} PROVE InOrderFor(journal', p)
    <3>1. f.who = who /\ pc \in Letter
      BY <1>k, <2>3, LineWritten
    <3>2. CASE p # who
      <4>1. Agree(journal, journal', p)
        BY <2>3, <3>1, <3>2 DEF LinesOf, Agree
      <4> QED
        BY <2>i, <4>1, InOrderAgree
    <3>3. CASE p = who
      <4>1. Agree(journal, Journaled, who)
        BY <2>0, <3>1, <3>3, AgreeUnlessErased DEF Known, Letter
      <4>2. InOrderFor(journal \cup {f}, who)
        BY <1>e, <2>3, <2>i, <3>3, <4>1, InOrderWritten
      <4> QED
        BY <2>3, <3>3, <4>2
    <3> QED
      BY <3>2, <3>3
  <2> QED
    BY <1>k, <2>i, <2>1, <2>2, <2>3, JournalLines
<1>2. ASSUME pc' # "idle", NEW p \in Person, ~Erased(known', p) PROVE InOrderFor(Journaled', p)
  <2>1. CASE Journaled' = Journaled /\ known' = known /\ pc # "idle"
    BY <1>2, <2>1 DEF InOrder, Known, TurnInv
  <2>2. CASE Journaled' = journal /\ known' = journal
    BY <1>2, <1>e, <2>2 DEF InOrder
  <2>3. ASSUME NEW f, WritesLine(f), Journaled' = Journaled \cup {f}, known' = known, pc # "idle"
        PROVE  InOrderFor(Journaled', p)
    <3>i. InOrderFor(Journaled, p)
      BY <1>2, <2>3 DEF InOrder, Known, TurnInv
    <3>1. f.who = who
      BY <1>k, <2>3, LineWritten
    <3>2. CASE p # who
      <4>1. Agree(Journaled, Journaled', p)
        BY <2>3, <3>1, <3>2 DEF LinesOf, Agree
      <4> QED
        BY <3>i, <4>1, InOrderAgree
    <3>3. CASE p = who
      <4>1. Agree(Journaled, Journaled, who)
        BY DEF Agree
      <4>2. InOrderFor(Journaled \cup {f}, who)
        BY <1>e, <2>3, <3>i, <3>3, <4>1, InOrderWritten
      <4> QED
        BY <2>3, <3>3, <4>2
    <3> QED
      BY <3>2, <3>3
  <2> QED
    BY <1>k, <1>2, <2>1, <2>2, <2>3, JournaledLines
<1> QED
  BY <1>1, <1>2 DEF InOrder

\* The letter in hand after a step that leaves the pass's copies as they are.
LEMMA HandInTurn ==
  ASSUME Known, [Next]_vars
  PROVE  Hand'
<1>k. Base /\ (PassStep \/ RouteStep) /\ Hand
  BY StepKinds DEF Known, Base, TurnInv
<1>1. CASE pc' \notin Letter
  BY <1>1 DEF Hand, Letter
<1>2. CASE RouteStep
  <2>1. UNCHANGED <<pc, known, own, who, cur, rows, att, delivered>>
    BY <1>2 DEF RouteStep, Still, OutsideLine, Erase, quiet, tickVars
  <2>2. UNCHANGED Journaled
    BY <2>1 DEF Journaled
  <2> QED
    BY <1>k, <2>1, <2>2 DEF Hand, MyLetter, InHand
<1>3. ASSUME NEW p \in Person, Compose(p) PROVE Hand'
  <2>1. pc' = "writing" /\ who' = p /\ known' = known /\ ~MustStop(p)
    BY <1>3 DEF Compose, Sendable, Cleared
  <2>2. ~Erased(known, p)
    BY <2>1 DEF MustStop, Excluded, Told, Erased
  <2> QED
    BY <2>1, <2>2 DEF Hand
<1>4. CASE RecordSending
  <2>p. PICK f : f = Line("sending", who, cur, rows[who].step, 0)
    OBVIOUS
  <2>0. /\ pc = "writing" /\ pc' = "gate" /\ own' = own \cup {f} /\ att' = f.seq
        /\ UNCHANGED <<known, cur, rows, who>>
    BY <1>4, <2>p DEF RecordSending
  <2>f. f.kind = "sending" /\ f.who = who /\ f.camp = cur /\ f.step = rows[who].step /\ f.seq = last + 1
    BY <2>p DEF Line
  <2>1. MyLetter(f)'
    BY <2>0, <2>f DEF MyLetter, InHand
  <2>2. Journaled' = Journaled \cup {f}
    BY <2>0 DEF Journaled
  <2>3. ~InFlight(Journaled, cur, who, rows[who].step)
    BY <2>0 DEF Known, WordInv, CopyInv, Decided
  <2>4. ASSUME NEW a \in Attempts(Journaled', cur, who, rows[who].step)
        PROVE  a.seq = att' \/ Outcomes(Journaled', a) # {}
    <3>1. a = f \/ a \in Attempts(Journaled, cur, who, rows[who].step)
      BY <2>2, <2>4 DEF Attempts
    <3>2. CASE a \in Attempts(Journaled, cur, who, rows[who].step)
      <4>1. Outcomes(Journaled, a) # {}
        BY <2>3, <3>2 DEF InFlight
      <4> QED
        BY <2>2, <4>1 DEF Outcomes
    <3> QED
      BY <2>0, <3>1, <3>2
  <2>5. \E e \in own' : MyLetter(e)'
    BY <2>0, <2>1
  <2>6. ~Erased(known', who')
    BY <1>k, <2>0 DEF Hand, Letter
  <2>7. \A a \in Attempts(Journaled', cur', who', rows'[who'].step) :
             a.seq = att' \/ Outcomes(Journaled', a) # {}
    BY <2>0, <2>4
  <2> QED
    BY <2>0, <2>5, <2>6, <2>7 DEF Hand
<1>5. CASE AtGate
  <2>1. /\ known' = known /\ own' = own /\ who' = who /\ cur' = cur /\ rows' = rows /\ att' = att
        /\ pc \in {"gate", "wire"} /\ pc' \in {"wire", "refused"}
    BY <1>5 DEF AtGate
  <2>2. Journaled' = Journaled
    BY <2>1 DEF Journaled
  <2>3. \E e \in own' : MyLetter(e)'
    BY <1>k, <2>1 DEF Hand, Letter, MyLetter, InHand
  <2>4. /\ ~Erased(known', who')
        /\ \A a \in Attempts(Journaled', cur', who', rows'[who'].step) :
             a.seq = att' \/ Outcomes(Journaled', a) # {}
    BY <1>k, <2>1, <2>2 DEF Hand, Letter
  <2> QED
    BY <2>1, <2>3, <2>4 DEF Hand
<1>6. CASE Delivers
  <2>1. UNCHANGED <<known, own, who, cur, rows, att>> /\ pc = "wire" /\ pc' = "answer"
    BY <1>6 DEF Delivers
  <2>2. UNCHANGED Journaled
    BY <2>1 DEF Journaled
  <2>3. delivered'[cur][who][rows[who].step] # 0
    <3>1. who \in Person /\ cur \in Campaign /\ rows[who].step \in Step
      BY <1>k, <2>1, LetterOK DEF Base, Letter
    <3>2. delivered \in [Campaign -> [Person -> [Step -> Nat]]]
      BY <1>k DEF Base, TypeInv, TypeOK
    <3>3. delivered'[cur][who][rows[who].step] = delivered[cur][who][rows[who].step] + 1
      BY <1>6, <3>1, <3>2 DEF Delivers
    <3>4. delivered[cur][who][rows[who].step] \in Nat
      BY <3>1, <3>2
    <3> QED
      BY <3>3, <3>4
  <2> QED
    BY <1>k, <2>1, <2>2, <2>3 DEF Hand, Letter, MyLetter, InHand
<1>7. CASE RecordSent
  <2> DEFINE f == Line("sent", who, cur, rows[who].step, att)
  <2>0. /\ pc = "answer" /\ pc' = "advance" /\ own' = own \cup {f}
        /\ UNCHANGED <<known, cur, rows, who, att, delivered>>
    BY <1>7 DEF RecordSent, worldVars
  <2>f. f.kind = "sent" /\ f.who = who /\ f.of = att
    BY DEF Line
  <2> HIDE DEF f
  <2>2. Journaled' = Journaled \cup {f}
    BY <2>0 DEF Journaled
  <2>1. PICK m \in own : MyLetter(m)
    BY <1>k, <2>0 DEF Hand, Letter
  <2>3. m \in Attempts(Journaled', cur, who, rows[who].step) /\ f \in Outcomes(Journaled', m)
    BY <2>1, <2>2, <2>f DEF MyLetter, InHand, Attempts, Outcomes, Journaled
  <2>4. WasSent(Journaled', cur, who, rows[who].step)
    BY <2>3, <2>f DEF WasSent
  <2>5. MyLetter(m)' /\ m \in own'
    BY <2>0, <2>1 DEF MyLetter, InHand
  <2> QED
    BY <1>k, <2>0, <2>4, <2>5 DEF Hand, Letter
<1> QED
  <2>1. CASE Ends \/ TickStart \/ NextCampaign \/ WalksOn \/ RecordFailed
    <3>1. pc' \in {"idle", "walk"}
      BY <2>1 DEF Ends, EndTick, TickStart, NextCampaign, WalksOn, RecordFailed, BackToWalk
    <3> QED
      BY <1>1, <3>1 DEF Letter
  <2> QED
    BY <1>k, <1>2, <1>3, <1>4, <1>5, <1>6, <1>7, <2>1 DEF PassStep

LEMMA HeardInTurn ==
  ASSUME Known, [Next]_vars
  PROVE  Heard'
<1>k. Base /\ (PassStep \/ RouteStep) /\ Heard
  BY StepKinds DEF Known, Base, TurnInv
<1>1. ASSUME NEW p \in Person, Erased(known', p) PROVE Erased(journal', p)
  <2>1. known' \in {{}, known, journal}
    <3>1. CASE PassStep
      BY <3>1 DEF PassStep, Ends, EndTick, TickStart, NextCampaign, WalksOn, Compose,
         RecordSending, AtGate, Delivers, RecordSent, RecordFailed, BackToWalk
    <3>2. CASE RouteStep
      BY <3>2 DEF RouteStep, Still, OutsideLine, Erase, quiet, tickVars
    <3> QED
      BY <1>k, <3>1, <3>2
  <2>2. Erased(journal, p)
    BY <1>1, <1>k, <2>1 DEF Heard, Erased, Told
  <2> QED
    BY <1>k, <2>2, ErasedStays
<1>2. pc' = "idle" => todo' = {}
  <2>1. CASE PassStep
    BY <2>1 DEF PassStep, Ends, EndTick, TickStart, NextCampaign, WalksOn, Compose,
       RecordSending, AtGate, Delivers, RecordSent, RecordFailed, BackToWalk
  <2>2. CASE RouteStep
    BY <1>k, <2>2 DEF RouteStep, Still, OutsideLine, Erase, quiet, tickVars, Heard
  <2> QED
    BY <1>k, <2>1, <2>2
<1> QED
  BY <1>1, <1>2 DEF Heard

\* A letter is only attempted once every attempt before it is answered.
LEMMA AttemptInTurn ==
  ASSUME Known, RecordSending, NEW e \in journal, e.kind = "sending", e.who = who, e.camp = cur
  PROVE  Outcomes(journal, e) # {}
<1>0. /\ Base /\ pc = "writing" /\ who \in Person /\ who \in todo /\ cur \in Campaign
      /\ rows[who].step \in Step
  BY LetterOK DEF Known, Base, RecordSending, Letter
<1>1. e \in Journaled /\ e \in LinesOf(journal, who)
  BY <1>0 DEF Known, WordInv, CopyInv, Copies, LinesOf, LetterKinds
<1>2. e \notin own
  BY <1>0 DEF Known, WordInv, CopyInv, Untouched
<1>3. e \in known /\ ~Erased(known, who)
  BY <1>0, <1>1, <1>2 DEF Journaled, Known, TurnInv, Hand, Letter
<1>4. ~Erased(journal, who)
  BY <1>0, <1>1, <1>3 DEF Known, WordInv, CopyInv, Copies
<1>5. Agree(journal, Journaled, who)
  BY <1>0, <1>4, AgreeUnlessErased DEF Known
<1>6. e.step \in Step
  BY <1>0, LinesNumbered DEF Lines, Every
<1>7. e \in Attempts(journal, cur, who, e.step)
  BY DEF Attempts
<1>8. InOrderFor(Journaled, who)
  BY <1>0, <1>3 DEF Known, TurnInv, InOrder
<1>9. ASSUME Outcomes(journal, e) = {} PROVE FALSE
  <2>1. InFlight(journal, cur, who, e.step)
    BY <1>7, <1>9 DEF InFlight
  <2>2. InFlight(Journaled, cur, who, e.step) /\ Attempts(Journaled, cur, who, e.step) # {}
    BY <1>5, <1>7, <2>1, AgreeOnLetters
  <2>3. ~WasSent(Journaled, cur, who, e.step)
    BY <1>0, <1>6, <1>8, <2>2 DEF InOrderFor
  <2>4. ~WasSent(Journaled, cur, who, rows[who].step) /\ ~InFlight(Journaled, cur, who, rows[who].step)
    BY <1>0 DEF Known, WordInv, CopyInv, Decided
  <2>5. e.step \in Nat /\ rows[who].step \in Nat
    BY <1>0, <1>6, StepFacts
  <2>6. CASE e.step < rows[who].step
    BY <1>0, <1>3, <1>6, <2>3, <2>6 DEF Known, TurnInv, RowsWalked
  <2>7. CASE e.step = rows[who].step
    BY <2>2, <2>4, <2>7
  <2>8. CASE rows[who].step < e.step
    BY <1>0, <1>6, <1>8, <2>2, <2>4, <2>8 DEF InOrderFor
  <2> QED
    BY <2>5, <2>6, <2>7, <2>8
<1> QED
  BY <1>9

LEMMA LettersStayInTurn ==
  ASSUME Known, [Next]_vars
  PROVE  LettersInTurn'
<1>k. Base /\ (PassStep \/ RouteStep) /\ LettersInTurn
  BY StepKinds DEF Known, Base, TurnInv
<1> SUFFICES ASSUME NEW e \in journal', NEW g \in journal',
                    e.kind = "sending", g.kind = "sending", e.who = g.who, e.who \in Person,
                    e.camp = g.camp, e.seq < g.seq
             PROVE  Outcomes(journal', e) # {}
  BY DEF LettersInTurn
<1>o. ASSUME e \in journal, g \in journal PROVE Outcomes(journal, e) # {}
  BY <1>k, <1>o DEF LettersInTurn
<1>1. CASE journal' = journal
  BY <1>1, <1>o
<1>2. ASSUME NEW q \in Person, Erase(q) PROVE Outcomes(journal', e) # {}
  <2>1. e.who # q
    BY <1>k, <1>2, ErasedLines
  <2>2. Agree(journal, journal', e.who)
    BY <1>k, <1>2, <2>1, ErasedLines
  <2>3. e \in LinesOf(journal', e.who) /\ g \in LinesOf(journal', e.who)
    BY DEF LinesOf, LetterKinds
  <2>4. e \in journal /\ g \in journal
    BY <2>2, <2>3 DEF Agree, LinesOf
  <2>5. e \in Attempts(journal, e.camp, e.who, e.step)
    BY <2>4 DEF Attempts
  <2> QED
    BY <1>o, <2>2, <2>4, <2>5, AgreeOnLetters
<1>3. ASSUME NEW f, OutsideLine(f) PROVE Outcomes(journal', e) # {}
  <2>1. journal' = journal \cup {f} /\ f.kind \notin LetterKinds
    BY <1>3 DEF OutsideLine, Append
  <2>2. e \in journal /\ g \in journal
    BY <2>1 DEF LetterKinds
  <2> QED
    BY <1>o, <2>1, <2>2 DEF Outcomes
<1>4. ASSUME NEW f, WritesLine(f), journal' = journal \cup {f}
      PROVE  Outcomes(journal', e) # {}
  <2>f. /\ f.seq = last + 1 /\ f.who = who /\ f.camp = cur
        /\ f.kind = "sending" => RecordSending
    BY <1>k, <1>4, LineWritten
  <2>1. CASE e \in journal /\ g \in journal
    BY <1>o, <1>4, <2>1 DEF Outcomes
  <2>2. CASE g = f
    <3>1. e \in journal
      BY <1>4, <1>k, <2>2, LinesNumbered, <2>f
    <3>2. Outcomes(journal, e) # {}
      BY <2>2, <2>f, <3>1, AttemptInTurn
    <3> QED
      BY <1>4, <3>2 DEF Outcomes
  <2>3. CASE e = f /\ g \in journal
    <3>1. ~(f.seq <= g.seq) /\ f.seq \in Nat /\ g.seq \in Nat
      BY <1>k, <2>3, <2>f, NewNumber, LinesNumbered DEF Every
    <3> QED
      BY <2>3, <3>1
  <2> QED
    BY <1>4, <2>1, <2>2, <2>3
<1> QED
  BY <1>k, <1>1, <1>2, <1>3, <1>4, JournalLines

LEMMA InitTurn == Init => TurnInv
<1> SUFFICES ASSUME Init PROVE TurnInv
  OBVIOUS
<1>1. /\ journal = {} /\ known = {} /\ own = {} /\ pc = "idle" /\ todo = {}
  BY DEF Init
<1>2. \A c \in Campaign, p \in Person : enr[c][p].step = 0 /\ saved.enr[c][p].step = 0
  <2>1. ASSUME NEW c \in Campaign, NEW p \in Person PROVE enr[c][p].step = 0
    <3>1. enr[c][p] = IF <<c, p>> \in Enrolled THEN [NoRow EXCEPT !.st = "active"] ELSE NoRow
      BY DEF Init
    <3> QED
      BY <3>1 DEF NoRow
  <2>2. saved.enr = enr
    BY DEF Init
  <2> QED
    BY <2>1, <2>2
<1>3. \A s \in Step : ~(s < 0)
  BY StepFacts
<1>4. Had(enr) /\ Had(saved.enr) /\ Walked(journal, journal, enr) /\ Walked(journal, journal, saved.enr)
  BY <1>2, <1>3 DEF Had, Walked
<1>5. \A c, p, s : Attempts({}, c, p, s) = {}
  BY DEF Attempts
<1>6. \A c, p, s : ~WasSent({}, c, p, s)
  BY <1>5 DEF WasSent
<1>7. Journaled = {}
  BY <1>1 DEF Journaled
<1>8. SentReached(journal) /\ SentReached(Journaled) /\ InOrder(journal, journal)
  BY <1>1, <1>5, <1>6, <1>7 DEF SentReached, InOrder, InOrderFor
<1>9. RowsWalked /\ Hand /\ Heard /\ LettersInTurn
  BY <1>1 DEF RowsWalked, Hand, Heard, LettersInTurn, Letter, Erased, Told
<1> QED
  BY <1>1, <1>4, <1>8, <1>9 DEF TurnInv

LEMMA NextTurn == Known /\ [Next]_vars => TurnInv'
<1> SUFFICES ASSUME Known, [Next]_vars PROVE TurnInv'
  OBVIOUS
<1>1. /\ Had(enr)' /\ Had(saved.enr)'
      /\ Walked(journal, journal, enr)' /\ Walked(journal, journal, saved.enr)'
  BY RowsInTurn
<1>2. pc' # "idle" => Walked(known, Journaled, enr)'
  BY PassInTurn
<1>3. SentReached(journal)' /\ SentReached(Journaled)'
  BY SentInTurn
<1>4. InOrder(journal, journal)' /\ (pc' # "idle" => InOrder(known, Journaled)')
  BY OrderInTurn
<1>5. RowsWalked' /\ Hand' /\ Heard' /\ LettersInTurn'
  BY CopyInTurn, HandInTurn, HeardInTurn, LettersStayInTurn
<1> QED
  BY <1>1, <1>2, <1>3, <1>4, <1>5 DEF TurnInv

\* The letters of a chain reach a person one after another: none is passed over, and
\* none is attempted while the journal cannot say how an earlier one ended.
THEOREM LettersGoInTurn == Spec => []InTurn
<1>1. Spec => []Known
  <2>1. Init => Known
    BY InitTypes, InitOnce, InitWord, InitTurn DEF Known, Base
  <2>2. Known /\ [Next]_vars => Known'
    BY NextTypes, NextOnce, NextWord, NextTurn DEF Known, Base
  <2> QED
    BY <2>1, <2>2, PTL DEF Spec
<1>2. Known /\ AtMostOnce => InTurn
  <2> SUFFICES ASSUME Known, AtMostOnce PROVE InTurn
    OBVIOUS
  <2>1. \A c \in Campaign, p \in Person, s \in Step : delivered[c][p][s] \in Nat /\ delivered[c][p][s] <= 1
    BY DEF Known, Base, TypeInv, TypeOK, AtMostOnce
  <2>2. \A c \in Campaign, p \in Person, s \in Step : s < enr[c][p].step => delivered[c][p][s] = 1
    BY <2>1 DEF Known, TurnInv, Had
  <2> QED
    BY <2>2 DEF Known, TurnInv, InTurn, NoStepSkipped
<1> QED
  BY <1>1, <1>2, NeverTwice, PTL
=============================================================================
