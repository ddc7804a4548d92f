-------------------------- MODULE MCEventDelivery --------------------------
(***************************************************************************)
(* Instances of EventDelivery for TLC.                                     *)
(***************************************************************************)
EXTENDS EventDelivery

MCPayloads == 1 .. MaxPayloads

(* NoLoss without its exceptions.  The code breaks it in the window of a   *)
(* shutdown, as MCEventDelivery_drain.cfg shows: Tornado consumes an event *)
(* after the dump, exits, loads the queue without it, and the client keeps *)
(* polling that queue.                                                     *)
NothingDropped ==
    HasState =>
        \A q \in Copies : \A p \in 1 .. published :
            p \in processed \/ \E e \in events(q) : e.id > last_event_id /\ p \in e.content
=============================================================================
