------------------------------ MODULE EventSet ------------------------------
(***************************************************************************)
(* The event queue of one client (class EventQueue of                      *)
(* zerver/tornado/event_queue.py) as a set of events: what push, prune and *)
(* contents do to it, without the order of the deque, which is the order   *)
(* of the event ids.  Module EventQueue has the deque and the merge loop,  *)
(* and is checked to implement these operators; module EventDelivery puts  *)
(* them behind the long-polling protocol.                                  *)
(*                                                                         *)
(* An event keeps what the protocol looks at: its id, its full event type  *)
(* (compute_full_event_type) and the set of payloads it carries: one for   *)
(* an event that was pushed, several for a compressed one, none for a      *)
(* heartbeat.                                                              *)
(***************************************************************************)
EXTENDS Integers

CONSTANTS
    Types,          \* the full event types that occur
    VirtualTypes,   \* those push compresses: "flags/..." except flags/remove/read
    Payloads        \* what the events tell the client

ASSUME VirtualTypesAssumption == VirtualTypes \subseteq Types

Event == [id : Nat, type : Types, content : SUBSET Payloads]

Queue == [queue : SUBSET Event, virtual_events : SUBSET Event,
          next_event_id : Nat, newest_pruned_id : Nat \cup {-1}]

EmptyQueue == [queue |-> {}, virtual_events |-> {},
               next_event_id |-> 0, newest_pruned_id |-> -1]

events(q) == q.queue \cup q.virtual_events

Ids(E) == {e.id : e \in E}

Contents(E) == UNION {e.content : e \in E}

MaxId(E) == CHOOSE i \in Ids(E) : \A j \in Ids(E) : j <= i

(***************************************************************************)
(* EventQueue.push: the event takes the next id.  A compressible event is  *)
(* merged with the pending virtual event of its type, which moves to the   *)
(* new id.                                                                 *)
(***************************************************************************)
merged(q, t) == {v \in q.virtual_events : t \in VirtualTypes /\ v.type = t}

numbered(q, t, c) == [id |-> q.next_event_id, type |-> t,
                      content |-> c \cup Contents(merged(q, t))]

push(q, t, c) ==
    IF t \in VirtualTypes
    THEN [q EXCEPT !.next_event_id = @ + 1,
                   !.virtual_events = (@ \ merged(q, t)) \cup {numbered(q, t, c)}]
    ELSE [q EXCEPT !.next_event_id = @ + 1,
                   !.queue = @ \cup {numbered(q, t, c)}]

(* EventQueue.prune: drops the real events up to through_id.               *)
prune(q, through_id) ==
    LET gone == {e \in q.queue : e.id <= through_id}
    IN  IF gone = {} THEN q
        ELSE [q EXCEPT !.queue = @ \ gone, !.newest_pruned_id = MaxId(gone)]

\* mutants: the virtual events are dropped; they are not cleared
resolveDropping(q) == [q EXCEPT !.virtual_events = {}]
resolveKeeping(q) == [q EXCEPT !.queue = events(q)]

(* EventQueue.contents: every virtual event becomes a real one.            *)
resolve(q) == [q EXCEPT !.queue = events(q), !.virtual_events = {}]

\* mutant: forgets the virtual events
emptyQueueOnly(q) == q.queue = {}

empty(q) == events(q) = {}
=============================================================================
