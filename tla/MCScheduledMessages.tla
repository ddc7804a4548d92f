------------------------ MODULE MCScheduledMessages ------------------------
(* Instances of ScheduledMessages for TLC.                                 *)
EXTENDS ScheduledMessages, TLC

CONSTANTS edit1, edit2, run1, run2
=============================================================================
