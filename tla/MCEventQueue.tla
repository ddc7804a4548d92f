---------------------------- MODULE MCEventQueue ----------------------------
(***************************************************************************)
(* Instances of EventQueue for TLC.  Starring compresses both of its       *)
(* updates; marking as read compresses only flags/add/read.                *)
(***************************************************************************)
EXTENDS EventQueue

CONSTANTS m1, m2

MCMessages == {m1, m2}

AllTypes == FlagTypes \cup {Plain}
ReadTypes == {FlagType(op, "read") : op \in Updates}
=============================================================================
