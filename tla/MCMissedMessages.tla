-------------------------- MODULE MCMissedMessages --------------------------
(* Instances of MissedMessages for TLC: Ann misses two messages, Bob one.  *)
EXTENDS MissedMessages, TLC

CONSTANTS ann, bob, m1, m2, m3

MCRecipient == [m \in Messages |-> IF m = m3 THEN bob ELSE ann]
=============================================================================
