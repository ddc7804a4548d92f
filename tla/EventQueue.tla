----------------------------- MODULE EventQueue -----------------------------
(***************************************************************************)
(* Class EventQueue of zerver/tornado/event_queue.py: the deque, the       *)
(* virtual events that compress message-flag updates, and the merge loop   *)
(* of contents.  The queue is driven by a server that pushes events about  *)
(* the flags of messages (and other events), and read by a web client that *)
(* acknowledges what it has processed with its next request.  The network  *)
(* is perfect here; EventDelivery has the protocol that copes with a       *)
(* network that is not.                                                    *)
(***************************************************************************)
EXTENDS Integers, FiniteSets, Sequences

CONSTANTS
    Messages,       \* the messages whose flags change
    Flags,          \* their flags, "read" and "starred" in the web client
    Types,          \* the full event types pushed
    MaxEvents       \* bound on the number of events pushed

Updates == {"add", "remove"}

\* compute_full_event_type; Plain stands for every other type
FlagType(op, flag) == <<"flags", op, flag>>
Plain == <<"message">>

FlagTypes == {FlagType(op, flag) : op \in Updates, flag \in Flags}

ASSUME TypesAssumption ==
    /\ Types \subseteq FlagTypes \cup {Plain}
    /\ MaxEvents \in Nat

\* push compresses every flag update but flags/remove/read
VirtualTypes == {t \in Types : t \in FlagTypes /\ t # FlagType("remove", "read")}

VARIABLES
    eq,             \* the EventQueue object
    server_flags,   \* flag -> the messages that have it in the database
    client_flags,   \* flag -> the messages the client shows with it
    last_event_id   \* the newest event the client has processed

vars == <<eq, server_flags, client_flags, last_event_id>>

Event == [id : Nat, type : Types, messages : SUBSET Messages]

ById(s) == \A i, j \in 1 .. Len(s) : i < j => s[i].id < s[j].id

Elements(s) == {s[i] : i \in 1 .. Len(s)}

(***************************************************************************)
(* The methods of EventQueue.                                              *)
(***************************************************************************)
NewQueue == [queue |-> <<>>, virtual_events |-> [t \in {} |-> {}],
             next_event_id |-> 0, newest_pruned_id |-> -1]

virtuals(q) == {q.virtual_events[t] : t \in DOMAIN q.virtual_events}

\* messages the pending virtual event of type t carries
compressed(q, t) ==
    IF t \in DOMAIN q.virtual_events THEN q.virtual_events[t].messages ELSE {}

\* mutants: a compressed event keeps the id of the first one, or only the
\* messages of the last one
pushKeepingId(q, t, messages) ==
    LET event == [id |-> q.next_event_id, type |-> t, messages |-> messages]
        virtual == IF t \in DOMAIN q.virtual_events
                   THEN [q.virtual_events[t] EXCEPT !.messages = @ \cup messages]
                   ELSE event
        numbered == [q EXCEPT !.next_event_id = @ + 1]
    IN  IF t \in VirtualTypes
        THEN [numbered EXCEPT
                !.virtual_events = [u \in DOMAIN @ \cup {t} |->
                                      IF u = t THEN virtual ELSE @[u]]]
        ELSE [numbered EXCEPT !.queue = Append(@, event)]

pushReplacing(q, t, messages) ==
    LET event == [id |-> q.next_event_id, type |-> t, messages |-> messages]
        numbered == [q EXCEPT !.next_event_id = @ + 1]
    IN  IF t \in VirtualTypes
        THEN [numbered EXCEPT
                !.virtual_events = [u \in DOMAIN @ \cup {t} |->
                                      IF u = t THEN event ELSE @[u]]]
        ELSE [numbered EXCEPT !.queue = Append(@, event)]

push(q, t, messages) ==
    LET event == [id |-> q.next_event_id, type |-> t, messages |-> messages]
        virtual == [event EXCEPT !.messages = @ \cup compressed(q, t)]
        numbered == [q EXCEPT !.next_event_id = @ + 1]
    IN  IF t \in VirtualTypes
        THEN [numbered EXCEPT
                !.virtual_events = [u \in DOMAIN @ \cup {t} |->
                                      IF u = t THEN virtual ELSE @[u]]]
        ELSE [numbered EXCEPT !.queue = Append(@, event)]

\* how far a sequence goes, from an index on, with ids below a limit
before(s, from, limit) ==
    CHOOSE n \in from - 1 .. Len(s) :
        /\ \A i \in from .. n : s[i].id < limit
        /\ n < Len(s) => s[n + 1].id >= limit

\* popleft while the head of the deque is acknowledged
prune(q, through_id) ==
    LET popped == before(q.queue, 1, through_id + 1)
    IN  IF popped = 0 THEN q
        ELSE [q EXCEPT !.queue = SubSeq(@, popped + 1, Len(@)),
                       !.newest_pruned_id = q.queue[popped].id]

\* the virtual events by id (virtual_id_map and virtual_ids)
sorted(E) ==
    CHOOSE s \in [1 .. Cardinality(E) -> E] : ById(s) /\ Elements(s) = E

\* mutant: the virtual events all come last
contentsUnmerged(q) == q.queue \o sorted(virtuals(q))

\* the merge loop of contents after i real events: what it has put out, and the
\* index of the virtual event that is next.  Each real event is preceded by the
\* virtual events that are due before it.
merge(real, virtual) ==
    LET merged[i \in 0 .. Len(real)] ==
          IF i = 0 THEN [out |-> <<>>, index |-> 1]
          ELSE LET due == before(virtual, merged[i - 1].index, real[i].id)
               IN  [out |-> merged[i - 1].out
                              \o SubSeq(virtual, merged[i - 1].index, due) \o <<real[i]>>,
                    index |-> due + 1]
    IN  merged

contents(q) ==
    LET virtual == sorted(virtuals(q))
        merged == merge(q.queue, virtual)[Len(q.queue)]
    IN  merged.out \o SubSeq(virtual, merged.index, Len(virtual))

\* contents replaces the deque by what it returns
resolved(q) == [q EXCEPT !.queue = contents(q), !.virtual_events = [t \in {} |-> {}]]

empty(q) == Len(q.queue) = 0 /\ DOMAIN q.virtual_events = {}

(***************************************************************************)
(* Flag updates, in the database and in the client, which dispatches the   *)
(* events of a batch in the order received.                                *)
(***************************************************************************)
update(flags, t, messages) ==
    [f \in Flags |->
        CASE t = FlagType("add", f)    -> flags[f] \cup messages
          [] t = FlagType("remove", f) -> flags[f] \ messages
          [] OTHER                     -> flags[f]]

\* what the client shows after the first i events of a batch
dispatch(flags, batch) ==
    LET shown[i \in 0 .. Len(batch)] ==
          IF i = 0 THEN flags
          ELSE update(shown[i - 1], batch[i].type, batch[i].messages)
    IN  shown

(***************************************************************************)
(* The behaviour.                                                          *)
(***************************************************************************)
Init ==
    /\ eq = NewQueue
    /\ server_flags = [f \in Flags |-> {}]
    /\ client_flags = server_flags
    /\ last_event_id = -1

Push(t, m) ==
    /\ eq.next_event_id < MaxEvents
    /\ eq' = push(eq, t, {m})
    /\ server_flags' = update(server_flags, t, {m})
    /\ UNCHANGED <<client_flags, last_event_id>>

\* one get_events round: the acknowledged events go, the rest are returned
\* and the client dispatches them
Fetch ==
    LET acked == prune(eq, last_event_id)
        batch == contents(acked)
    IN  /\ ~ empty(eq)
        /\ eq' = resolved(acked)
        /\ client_flags' = dispatch(client_flags, batch)[Len(batch)]
        /\ last_event_id' = IF batch = <<>> THEN last_event_id ELSE batch[Len(batch)].id
        /\ UNCHANGED server_flags

Next ==
    \/ \E t \in Types, m \in Messages : Push(t, m)
    \/ Fetch

Spec == Init /\ [][Next]_vars

(***************************************************************************)
(* Properties.                                                             *)
(***************************************************************************)
\* The type invariant.
TypeOK ==
    /\ \E T \in SUBSET VirtualTypes :
          eq \in [queue : Seq(Event), virtual_events : [T -> Event],
                 next_event_id : 0 .. MaxEvents, newest_pruned_id : -1 .. MaxEvents - 1]
    /\ server_flags \in [Flags -> SUBSET Messages]
    /\ client_flags \in [Flags -> SUBSET Messages]
    /\ last_event_id \in -1 .. MaxEvents - 1

(* A response lists the events in strictly increasing id order, whatever   *)
(* the interleaving of compressed and plain pushes: the client computes    *)
(* its acknowledgement as the largest id it was sent, and prune pops from  *)
(* the head until it meets a larger id, so an event out of place would be  *)
(* lost or stay for ever (EventQueue.contents, EventQueue.prune).          *)
ResponsesInIdOrder ==
    LET batch == contents(prune(eq, last_event_id))
    IN  /\ ById(batch)
        /\ \A i \in 1 .. Len(batch) : batch[i].id \in last_event_id + 1 .. eq.next_event_id - 1

(* The deque and the virtual events implement the set of events of         *)
(* AbstractEventQueue: no push, merge or prune loses an event, duplicates  *)
(* one or gives a payload to the wrong type.                               *)
Abs(q) == [queue |-> {[id |-> e.id, type |-> e.type, content |-> e.messages] : e \in Elements(q.queue)},
           virtual_events |-> {[id |-> e.id, type |-> e.type, content |-> e.messages] :
                                 e \in virtuals(q)},
           next_event_id |-> q.next_event_id,
           newest_pruned_id |-> q.newest_pruned_id]

A == INSTANCE AbstractEventQueue WITH q <- Abs(eq), Payloads <- Messages
ImplementsSet == A!Spec

\* the updates of one flag of one message that the client has not processed
Unseen(f, m) ==
    {op \in Updates : \E e \in Elements(eq.queue) \cup virtuals(eq) :
        e.id > last_event_id /\ e.type = FlagType(op, f) /\ m \in e.messages}

(* Who has no update of a flag of a message ahead shows it as the server   *)
(* has it.                                                                 *)
InSync(f, m) ==
    Unseen(f, m) = {} => (m \in client_flags[f] <=> m \in server_flags[f])

(* Compression moves a flag update behind the other events of its batch,   *)
(* which the code calls incorrect where opposite updates of one message    *)
(* meet (EventQueue.push).  Everywhere else it is harmless: whatever is    *)
(* pushed, compressed, merged and fetched, a client that is right about a  *)
(* flag of a message is made wrong only by a batch with both updates.      *)
OneWayUpdatesArrive ==
    [][\A f \in Flags, m \in Messages :
         InSync(f, m) /\ Unseen(f, m) # Updates => InSync(f, m)']_vars

(* A client that has processed every event displays the flags the server   *)
(* has.  The delivery system exists to keep clients in sync; a reordering  *)
(* of opposite updates of one message would leave it wrong for good.       *)
CaughtUp == last_event_id = eq.next_event_id - 1
FlagsInSync == CaughtUp => client_flags = server_flags
=============================================================================
