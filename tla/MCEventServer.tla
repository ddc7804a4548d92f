--------------------------- MODULE MCEventServer ---------------------------
(* Instances of EventServer for TLC: Ann has two queues that take her      *)
(* messages, one of them registered for all public streams, or one queue   *)
(* whose narrow lets no message through.                                   *)
EXTENDS EventServer, TLC

CONSTANTS ann, q1, q2, q3, m1

MCOwner == [q \in Queues |-> ann]
MCTakes == [q \in Queues |-> IF q = q3 THEN {} ELSE Messages]
MCSessions == {{q1, q2}, {q3}}
MCRecipients == [m \in Messages |-> {ann}]
=============================================================================
