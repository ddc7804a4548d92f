---------------------------- MODULE EventChannel ----------------------------
(***************************************************************************)
(* What the event system promises one client: a channel on which the       *)
(* server publishes payloads 1, 2, 3, ... and of which the client has at   *)
(* any time processed exactly the first few: none repeated, none out of    *)
(* turn, and none missing but those that were lost as they were published. *)
(* A broken channel promises nothing until the next reload, which starts   *)
(* over from the whole state.  EventDelivery implements it.                *)
(***************************************************************************)
EXTENDS Integers

VARIABLES
    published,      \* number of payloads published
    processed,      \* those the client has processed
    lost,           \* those it will only see by a reload
    broken          \* the client is out of step with the server

Init == published = 0 /\ processed = {} /\ lost = {} /\ broken = FALSE

Publish ==
    /\ published' = published + 1
    /\ lost' \in {lost, lost \cup {published'}}
    /\ broken' \in {broken, TRUE}
    /\ UNCHANGED processed

Process ==
    /\ ~ broken
    /\ processed \subseteq processed'
    /\ \E k \in 0 .. published : processed' = (1 .. k) \ lost
    /\ UNCHANGED <<published, lost, broken>>

Break ==
    /\ broken'
    /\ UNCHANGED <<published, lost>>

Reload ==
    /\ processed' = 1 .. published
    /\ lost' = {}
    /\ broken' = FALSE
    /\ UNCHANGED published

Next == Publish \/ Process \/ Break \/ Reload

Spec == Init /\ [][Next]_<<published, processed, lost, broken>>
=============================================================================
