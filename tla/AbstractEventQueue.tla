------------------------- MODULE AbstractEventQueue -------------------------
(***************************************************************************)
(* What a client's event queue promises, as a state machine over the set   *)
(* operators of EventSet: events are pushed, acknowledged ids are pruned   *)
(* and the pending events are read, in any order.  EventQueue implements   *)
(* it.                                                                     *)
(***************************************************************************)
EXTENDS EventSet

VARIABLE q

Init == q = EmptyQueue

Push == \E t \in Types, p \in Payloads : q' = push(q, t, {p})

Fetch == \E i \in -1 .. q.next_event_id : q' = resolve(prune(q, i))

Next == Push \/ Fetch

Spec == Init /\ [][Next]_q
=============================================================================
