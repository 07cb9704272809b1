------------------------------ MODULE MCPings ------------------------------
(* A small instance of Pings: four things happen in the dialog, or two and a  *)
(* person acts once, or two people's acts meet; a failure takes the place of   *)
(* an event.                                                                   *)
EXTENDS Pings

Few == events + 2 * acts + faults <= 4
=============================================================================
