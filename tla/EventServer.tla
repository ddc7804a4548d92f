---------------------------- MODULE EventServer ----------------------------
(***************************************************************************)
(* The tables of one Tornado process: which queues exist, whose they are,  *)
(* which connection waits for which queue, and what happens to the         *)
(* messages of a queue nobody fetches any more.                            *)
(*                                                                         *)
(* zerver/tornado/event_queue.py, handlers.py, descriptors.py and views.py *)
(* run in one event loop; a request passes through the Django thread       *)
(* between its arrival and its step in the loop.  The order of the events  *)
(* of one queue, restarts and what the client makes of an answer are in    *)
(* EventQueue and EventDelivery.  One realm; a message is notifiable to    *)
(* each of its recipients who is idle; push and email are one notice.      *)
(***************************************************************************)
EXTENDS Integers, FiniteSets

CONSTANTS
    Users, Messages,
    Queues,          \* the ids uuid4 may give out, each at most once
    Owner,           \* [Queues -> Users]
    Receives,        \* the queues whose event types include messages
    Takes,           \* [Queues -> SUBSET Messages]: what their narrow lets through
    AllPublic,       \* the queues with all_public_streams or a narrow
    Recipients,      \* [Messages -> SUBSET Users]
    Public,          \* the messages to public streams
    None,
    MAX_REQUEST_RETRIES,
    Sessions,        \* bound: the sets of queues that may ever be registered
    MaxHandlers,     \* bound on the polls
    MaxFailures      \* bound on the publishes to RabbitMQ that raise

ASSUME ServerAssumption ==
    /\ Owner \in [Queues -> Users]
    /\ Receives \subseteq Queues /\ AllPublic \subseteq Queues
    /\ Takes \in [Queues -> SUBSET Messages]
    /\ Recipients \in [Messages -> SUBSET Users]
    /\ Public \subseteq Messages
    /\ None \notin Queues /\ None \notin Messages /\ None \notin Nat
    /\ MAX_REQUEST_RETRIES \in Nat
    /\ MaxHandlers \in Nat /\ MaxFailures \in Nat

VARIABLES
    clients,                    \* the queues that have a descriptor
    user_clients,
    realm_clients_all_streams,
    queue,                      \* queue -> the events it holds
    next_event_id,              \* queue -> id
    current_handler_id,         \* queue -> the handler that waits for it
    old,                        \* queues whose last connection is queue_timeout ago
    descriptors_by_handler_id,
    handlers,                   \* the handlers whose connection is open
    next_handler_id,
    request,                    \* handler -> its poll
    cleaning,                   \* the queue a DELETE has looked up
    sent, notices,              \* messages committed; their notices not yet done
    failed_tries,               \* message -> how often its notice was retried
    dropped,                    \* history: messages whose notice was given up
    notified,                   \* user, message -> notices sent, 2 if more
    failures,
    told, got, seen,            \* the clients: queues they know, the last event
                                \* id they have, the messages users have seen
    broken                      \* history: queues a failed collection left

tables      == <<clients, user_clients, realm_clients_all_streams, old, broken>>
events      == <<queue, next_event_id>>
connections == <<current_handler_id, descriptors_by_handler_id, handlers,
                 next_handler_id, request>>
retries     == <<failed_tries, dropped>>
outside     == <<sent, notices, failed_tries, dropped, told, got, seen>>
effects     == <<notified, failures>>
vars == <<tables, events, connections, cleaning, outside, effects>>

Handlers == 0 .. MaxHandlers - 1

NoRequest == [phase |-> "none", queue |-> None, last |-> -1, answer |-> {}]

(***************************************************************************)
(* Connecting and finishing handlers.  finish_current_handler is applied   *)
(* to a set S of queues at once, whose contents are then given by held.    *)
(***************************************************************************)
Waiting(h, S) == \E q \in S : current_handler_id[q] = h

\* mutant: the descriptor of a handler is never forgotten
ForgetsNone(h, S) == FALSE

\* disconnect_handler: "if self.current_handler_id:" is false for handler 0
Forgets(h, S) == h # 0 /\ Waiting(h, S)

disconnect_handler(S) ==
    /\ descriptors_by_handler_id' =
         [h \in Handlers |-> IF Forgets(h, S) THEN None
                             ELSE descriptors_by_handler_id[h]]
    /\ current_handler_id' =
         [q \in Queues |-> IF q \in S THEN None ELSE current_handler_id[q]]

finished(S, held) ==
    [h \in Handlers |->
       IF ~ Waiting(h, S) THEN request[h]
       ELSE IF h \in handlers
            THEN [request[h] EXCEPT !.phase = "finishing",
                                    !.answer = held[request[h].queue]]
            ELSE NoRequest]

finish_current_handler(S, held) ==
    /\ request' = finished(S, held)
    /\ disconnect_handler(S)
    /\ UNCHANGED <<handlers, next_handler_id>>

\* push, to every queue of S; body[q] is the event without its id
Pushed(S, body) ==
    [q \in Queues |->
       IF q \in S
       THEN queue[q] \cup {[id |-> next_event_id[q], message |-> body[q].message,
                            internal |-> body[q].internal]}
       ELSE queue[q]]

add_event(S, body) ==
    /\ queue' = Pushed(S, body)
    /\ next_event_id' = [q \in Queues |-> IF q \in S THEN next_event_id[q] + 1
                                          ELSE next_event_id[q]]
    /\ finish_current_handler(S, queue')

(***************************************************************************)
(* Registration.  The answer may be lost; a client that gets it also gets  *)
(* the initial state, in which the messages sent so far are.               *)
(***************************************************************************)
Used == {q \in Queues : next_event_id[q] >= 0}

allocate_client_descriptor(q, heard) ==
    /\ q \notin clients \cup Used /\ \E S \in Sessions : Used \cup {q} \subseteq S
    /\ clients' = clients \cup {q}
    /\ user_clients' = [user_clients EXCEPT ![Owner[q]] = @ \cup {q}]
    /\ realm_clients_all_streams' =
         realm_clients_all_streams \cup ({q} \cap AllPublic)
    /\ next_event_id' = [next_event_id EXCEPT ![q] = 0]
    /\ told' = IF heard THEN told \cup {q} ELSE told
    /\ seen' = IF heard THEN [seen EXCEPT ![Owner[q]] = @ \cup sent] ELSE seen
    /\ UNCHANGED <<old, broken, queue, connections, cleaning, sent, notices, retries,
                   got, effects>>

(***************************************************************************)
(* Polls.                                                                  *)
(***************************************************************************)
initialize(q) ==
    /\ q \in told /\ next_handler_id < MaxHandlers
    /\ next_handler_id' = next_handler_id + 1
    /\ handlers' = handlers \cup {next_handler_id}
    /\ request' = [request EXCEPT ![next_handler_id] =
                     [phase |-> "django", queue |-> q, last |-> got[q], answer |-> {}]]
    /\ UNCHANGED <<current_handler_id, descriptors_by_handler_id, tables, events,
                   cleaning, outside, effects>>

newest_pruned_id(q) == next_event_id[q] - Cardinality(queue[q]) - 1

InDjango(h) == request[h].phase = "django" /\ cleaning = None

Over(h, asked) == [asked EXCEPT ![h] = NoRequest]

\* what the client gets, if its connection is still there
Receive(h, held) ==
    LET q    == request[h].queue
        last == {e.id : e \in held} \cup {got[q]}
    IN  IF h \in handlers
        THEN /\ got' = [got EXCEPT ![q] = CHOOSE i \in last : \A j \in last : j <= i]
             /\ seen' = [seen EXCEPT ![Owner[q]] =
                           @ \cup ({e.message : e \in held} \ {None})]
        ELSE UNCHANGED <<got, seen>>

fetch_error(h) ==
    LET q == request[h].queue
    IN  /\ InDjango(h)
        /\ q \notin clients \/ request[h].last < newest_pruned_id(q)
        /\ request' = Over(h, request)
        /\ handlers' = handlers \ {h}
        /\ UNCHANGED <<current_handler_id, descriptors_by_handler_id,
                       next_handler_id, tables, events, cleaning, outside, effects>>

Kept(h) == {e \in queue[request[h].queue] : e.id > request[h].last}

Accepted(h) ==
    LET q == request[h].queue
    IN  /\ InDjango(h)
        /\ q \in clients /\ request[h].last >= newest_pruned_id(q)
        /\ queue' = [queue EXCEPT ![q] = Kept(h)]

\* the queue is not empty: the request is answered at once
fetch_response(h) ==
    LET q == request[h].queue
    IN  /\ Accepted(h) /\ Kept(h) # {}
        /\ request' = Over(h, finished({q}, queue'))
        /\ disconnect_handler({q})
        /\ Receive(h, Kept(h))
        /\ handlers' = handlers \ {h}
        /\ UNCHANGED <<next_handler_id, next_event_id, tables, cleaning, sent,
                       notices, retries, told, effects>>

\* the request supplants the one that waits, and waits
connect_handler(h) ==
    LET q == request[h].queue
    IN  /\ Accepted(h) /\ Kept(h) = {}
        /\ request' = [finished({q}, queue') EXCEPT ![h].phase = "waiting"]
        /\ current_handler_id' = [current_handler_id EXCEPT ![q] = h]
        /\ descriptors_by_handler_id' =
             [i \in Handlers |-> IF i = h THEN q
                                 ELSE IF Forgets(i, {q}) THEN None
                                 ELSE descriptors_by_handler_id[i]]
        /\ old' = old \ {q}
        /\ UNCHANGED <<handlers, next_handler_id, next_event_id, clients,
                       user_clients, realm_clients_all_streams, broken, cleaning,
                       outside, effects>>

(***************************************************************************)
(* What the loop does with connections.                                    *)
(***************************************************************************)
Heartbeat == [q \in Queues |-> [message |-> None, internal |-> "none"]]

\* mutant: a handler that is gone is left alone
timeout_callbackOfOpen(q) ==
    /\ current_handler_id[q] \in handlers
    /\ add_event({q}, Heartbeat)
    /\ UNCHANGED <<tables, cleaning, outside, effects>>

timeout_callback(q) ==
    /\ current_handler_id[q] # None
    /\ add_event({q}, Heartbeat)
    /\ UNCHANGED <<tables, cleaning, outside, effects>>

zulip_finish(h) ==
    /\ request[h].phase = "finishing" /\ h \in handlers
    /\ Receive(h, request[h].answer)
    /\ request' = Over(h, request)
    /\ handlers' = handlers \ {h}
    /\ UNCHANGED <<current_handler_id, descriptors_by_handler_id, next_handler_id,
                   tables, events, cleaning, sent, notices, retries, told, effects>>

\* a request that is still in Django goes on
on_connection_close(h) ==
    /\ h \in handlers
    /\ handlers' = handlers \ {h}
    /\ disconnect_handler({descriptors_by_handler_id[h]} \cap Queues)
    /\ request' = IF request[h].phase = "django" THEN request ELSE Over(h, request)
    /\ UNCHANGED <<next_handler_id, tables, events, cleaning, outside, effects>>

(***************************************************************************)
(* Collection.  do_gc_event_queues removes a set S of queues from the two  *)
(* lists first and then runs the hooks, queue by queue; if a hook raises,  *)
(* the queues R were removed, and the queue it was called for is in S \ R  *)
(* with a part of its notices sent.                                        *)
(***************************************************************************)
\* mutant: the hooks run before the lists are filtered
LeftBefore(u, S) == user_clients[u]

Left(u, S) == user_clients[u] \ S

\* missedmessage_hook: the messages it sends notices for
Missed(q, S) ==
    IF Left(Owner[q], S) = {}
    THEN {e.message : e \in {f \in queue[q] : f.internal = "pending"}}
    ELSE {}

Notify(count) ==
    notified' = [u \in Users |-> [m \in Messages |->
                   LET n == notified[u][m] + count[u][m] IN IF n > 2 THEN 2 ELSE n]]

\* mutant: the list of the realm keeps the queues
RemoveFromUsers(S) ==
    /\ user_clients' = [u \in Users |-> user_clients[u] \ S]
    /\ UNCHANGED realm_clients_all_streams

RemoveFromLists(S) ==
    /\ user_clients' = [u \in Users |-> user_clients[u] \ S]
    /\ realm_clients_all_streams' = realm_clients_all_streams \ S

Remove(R) ==
    /\ clients' = clients \ R
    /\ old' = old \ R
    /\ queue' = [q \in Queues |-> IF q \in R THEN {} ELSE queue[q]]

MissedBy(u, m, R, S) == Cardinality({q \in R : Owner[q] = u /\ m \in Missed(q, S)})

do_gc_event_queues(S) ==
    /\ RemoveFromLists(S)
    /\ \/ /\ Remove(S)
          /\ Notify([u \in Users |-> [m \in Messages |-> MissedBy(u, m, S, S)]])
          /\ broken' = broken \ S
          /\ UNCHANGED failures
       \/ /\ failures < MaxFailures
          /\ failures' = failures + 1
          /\ \E R \in SUBSET S :
             \E failing \in S \ R :
             \E sentBefore \in SUBSET Missed(failing, S) :
               /\ sentBefore # Missed(failing, S)
               /\ Remove(R)
               /\ Notify([u \in Users |-> [m \in Messages |->
                            MissedBy(u, m, R, S)
                              + IF u = Owner[failing] /\ m \in sentBefore THEN 1 ELSE 0]])
               /\ broken' = (broken \cup S) \ R

expired(q) == current_handler_id[q] = None /\ q \in old

gc_event_queues ==
    LET S == {q \in clients : expired(q)}
    IN  /\ S # {}
        /\ do_gc_event_queues(S)
        /\ UNCHANGED <<next_event_id, connections, cleaning, outside>>

TimePasses(q) ==
    /\ q \in clients \ old
    /\ old' = old \cup {q}
    /\ UNCHANGED <<clients, user_clients, realm_clients_all_streams, broken, events,
                   connections, cleaning, outside, effects>>

\* cleanup_event_queue looks the queue up in the Django thread
cleanup_event_queue(q) ==
    /\ cleaning = None
    /\ q \in told \cap clients
    /\ cleaning' = q
    /\ UNCHANGED <<tables, events, connections, outside, effects>>

\* ... and removes it in the loop; if it is gone by then, clients[id] raises
cleanup ==
    /\ cleaning # None
    /\ cleaning' = None
    /\ IF cleaning \in clients
       THEN /\ finish_current_handler({cleaning}, queue)
            /\ do_gc_event_queues({cleaning})
            /\ UNCHANGED <<next_event_id, outside>>
       ELSE UNCHANGED <<tables, events, connections, outside, effects>>

(***************************************************************************)
(* Messages.                                                               *)
(***************************************************************************)
send_event(m) ==
    /\ m \notin sent
    /\ sent' = sent \cup {m}
    /\ notices' = notices \cup {m}
    /\ UNCHANGED <<tables, events, connections, cleaning, retries, told, got, seen,
                   effects>>

\* accepts_messages looks at the event types only
receiver_is_off_zulip(u) == user_clients[u] \cap Receives = {}

get_client_info_for_message_event(m) ==
    (IF m \in Public THEN realm_clients_all_streams ELSE {})
        \cup UNION {user_clients[u] : u \in Recipients[m]}

\* accepts_event of a message also asks the narrow; a client that mirrors
\* what it sends is left out, too
accepts_event(q, m) == q \in Receives /\ m \in Takes[q]

Receivers(m) == {q \in get_client_info_for_message_event(m) : accepts_event(q, m)}

\* the notices of one message for the users N
Once(m, N) ==
    [u \in Users |-> [i \in Messages |-> IF i = m /\ u \in N THEN 1 ELSE 0]]

\* mutant: that a user was notified is not recorded in the event
BodyForgets(m, N) ==
    [q \in Queues |->
       [message  |-> m,
        internal |-> IF Owner[q] \notin Recipients[m] THEN "none" ELSE "pending"]]

\* internal_data of the event, when the users N have been notified at once
Body(m, N) ==
    [q \in Queues |->
       [message  |-> m,
        internal |-> IF Owner[q] \notin Recipients[m] THEN "none"
                     ELSE IF Owner[q] \in N THEN "notified" ELSE "pending"]]

\* idle: presence_idle_user_ids
process_message_event(m, idle) ==
    LET N == {u \in Recipients[m] : receiver_is_off_zulip(u) \/ u \in idle}
    IN  /\ m \in notices
        /\ Notify(Once(m, N))
        /\ notices' = notices \ {m}
        /\ add_event(Receivers(m), Body(m, N))
        /\ UNCHANGED <<tables, cleaning, sent, told, got, seen, failures, retries>>

\* the notice is published again, or, if that raises, too, comes again as it
\* was because nobody has acknowledged it; in the end it is dropped
retry_event(m) ==
    IF failed_tries[m] < MAX_REQUEST_RETRIES
    THEN /\ failed_tries' \in {failed_tries, [failed_tries EXCEPT ![m] = @ + 1]}
         /\ UNCHANGED <<notices, dropped>>
    ELSE /\ notices' = notices \ {m}
         /\ dropped' = dropped \cup {m}
         /\ UNCHANGED failed_tries

\* a publish raises after some users were notified
process_message_fails(m, idle) ==
    LET N == {u \in Recipients[m] : receiver_is_off_zulip(u) \/ u \in idle}
    IN  /\ m \in notices /\ failures < MaxFailures
        /\ \E done \in SUBSET N : done # N /\ Notify(Once(m, done))
        /\ failures' = failures + 1
        /\ retry_event(m)
        /\ UNCHANGED <<tables, events, connections, cleaning, sent, told, got, seen>>

Init ==
    /\ clients = {}
    /\ user_clients = [u \in Users |-> {}]
    /\ realm_clients_all_streams = {}
    /\ old = {} /\ broken = {}
    /\ queue = [q \in Queues |-> {}]
    /\ next_event_id = [q \in Queues |-> -1]
    /\ current_handler_id = [q \in Queues |-> None]
    /\ descriptors_by_handler_id = [h \in Handlers |-> None]
    /\ handlers = {} /\ next_handler_id = 0
    /\ request = [h \in Handlers |-> NoRequest]
    /\ cleaning = None
    /\ sent = {} /\ notices = {}
    /\ failed_tries = [m \in Messages |-> 0] /\ dropped = {}
    /\ notified = [u \in Users |-> [m \in Messages |-> 0]]
    /\ failures = 0
    /\ told = {} /\ got = [q \in Queues |-> -1] /\ seen = [u \in Users |-> {}]

fetch_events(h) == fetch_error(h) \/ fetch_response(h) \/ connect_handler(h)

Loop ==
    \/ gc_event_queues \/ cleanup
    \/ \E h \in Handlers : fetch_events(h) \/ zulip_finish(h) \/ on_connection_close(h)
    \/ \E q \in Queues : timeout_callback(q)
    \/ \E m \in Messages, idle \in SUBSET Users :
         process_message_event(m, idle) \/ process_message_fails(m, idle)

Others ==
    \/ \E q \in Queues :
         \/ initialize(q) \/ cleanup_event_queue(q) \/ TimePasses(q)
         \/ \E heard \in BOOLEAN : allocate_client_descriptor(q, heard)
    \/ \E m \in Messages : send_event(m)

Next == Loop \/ Others

Spec == Init /\ [][Next]_vars

(***************************************************************************)
(* Fairness: the loop and the Django thread run as long as one of them has *)
(* something to do, timers go off and time passes.  What clients do, and   *)
(* failures, need not happen; a client polls finitely often.               *)
(***************************************************************************)
Running ==
    \/ gc_event_queues \/ cleanup
    \/ \E h \in Handlers : fetch_events(h) \/ zulip_finish(h)
    \/ \E q \in Queues : timeout_callback(q)
    \/ \E m \in Messages : process_message_event(m, {})

Fairness == WF_vars(Running) /\ WF_vars(\E q \in Queues : TimePasses(q))

FairSpec == Spec /\ Fairness

(***************************************************************************)
(* Properties.                                                             *)
(***************************************************************************)
Events ==
    [id : Nat, message : Messages \cup {None},
     internal : {"none", "pending", "notified"}]

TypeOK ==
    /\ clients \subseteq Queues /\ old \subseteq clients /\ broken \subseteq clients
    /\ user_clients \in [Users -> SUBSET Queues]
    /\ realm_clients_all_streams \subseteq AllPublic
    /\ queue \in [Queues -> SUBSET Events]
    /\ next_event_id \in [Queues -> Nat \cup {-1}]
    /\ current_handler_id \in [Queues -> Handlers \cup {None}]
    /\ descriptors_by_handler_id \in [Handlers -> Queues \cup {None}]
    /\ handlers \subseteq Handlers /\ next_handler_id \in 0 .. MaxHandlers
    /\ request \in [Handlers -> [phase : {"none", "django", "waiting", "finishing"},
                                 queue : Queues \cup {None}, last : Int,
                                 answer : SUBSET Events]]
    /\ cleaning \in Queues \cup {None}
    /\ sent \subseteq Messages /\ notices \subseteq sent
    /\ failed_tries \in [Messages -> 0 .. MAX_REQUEST_RETRIES]
    /\ dropped \subseteq sent
    /\ notified \in [Users -> [Messages -> 0 .. 2]]
    /\ failures \in 0 .. MaxFailures
    /\ told \subseteq Queues /\ got \in [Queues -> Int]
    /\ seen \in [Users -> SUBSET Messages]

(* The three tables agree: a queue gets the events of its user, and of the *)
(* realm, exactly as long as clients can fetch it - except for the queues  *)
(* of a collection that failed in a hook, which can still be fetched but   *)
(* get no events.                                                          *)
TablesAgree ==
    /\ \A u \in Users : user_clients[u] = {q \in clients \ broken : Owner[q] = u}
    /\ realm_clients_all_streams = (clients \ broken) \cap AllPublic

(* A connection that is left open is one its queue will answer: the queue  *)
(* has it as its handler and the descriptor is found when it closes - save *)
(* the damage of handler 0, whose descriptor is never cleared, so that the *)
(* close of its connection disconnects the handler that came after it.     *)
WaitingIsKnown ==
    \A h \in handlers :
      request[h].phase = "waiting" =>
        LET q == request[h].queue
        IN  \/ current_handler_id[q] = h /\ descriptors_by_handler_id[h] = q
            \/ h # 0 /\ descriptors_by_handler_id[0] = q

\* a queue that does not take the message, or whose id its client never got
Deaf(q, m) == next_event_id[q] >= 0 /\ ~ (accepts_event(q, m) /\ q \in told)

(* No message is forgotten, "checking to see if it's the last one, and if  *)
(* so, potentially triggering notifications": once its notice is processed *)
(* each recipient has seen it, was notified, or has a queue that holds it. *)
(* Except for a user with a queue that is deaf to it: receiver_is_off_zulip*)
(* asks for a queue that accepts messages at all, and the hook for any, not*)
(* for one that takes this message or that anyone fetches.  And except for *)
(* a message whose notice was dropped, after MAX_REQUEST_RETRIES.          *)
NeverForgotten ==
    \A m \in sent \ (notices \cup dropped) : \A u \in Recipients[m] :
      \/ \E q \in Queues : Owner[q] = u /\ Deaf(q, m)
      \/ m \in seen[u] \/ notified[u][m] > 0
      \/ \E q \in clients : Owner[q] = u /\ \E e \in queue[q] :
           e.message = m /\ e.internal = "pending"

(* A user who has been notified of a message is not notified of it again,  *)
(* by the hook for another queue or by a cleanup that comes after the      *)
(* collection, unless a publish raised.  (Two queues collected in one      *)
(* round both count as the last, and the user is notified twice at once.)  *)
NotifiedBefore ==
    [][\A u \in Users, m \in Messages :
         notified[u][m] > 0 /\ failures' = 0 => notified'[u][m] = notified[u][m]]_vars

(* A queue nobody polls any more is collected, whatever its last           *)
(* connection did: also a connection that was closed before fetch_events   *)
(* made it the handler of the queue.                                       *)
QueuesCollected == <>[](clients = {})
=============================================================================
