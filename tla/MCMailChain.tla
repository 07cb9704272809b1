---------------------------- MODULE MCMailChain ----------------------------
(* Small instances of MailChain: every person is at one company, letters   *)
(* are one working day apart, an auto-reply says one or two days.          *)
EXTENDS MailChain

CONSTANTS Acme, First

MCCompanyOf == [p \in Person |-> Acme]
MCDelay == [s \in Step |-> IF s = 0 THEN 0 ELSE 1]
\* everybody starts in the campaign First
MCEnrolled == {First} \X Person
=============================================================================
