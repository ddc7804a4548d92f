--------------------------- MODULE EventDelivery ---------------------------
(***************************************************************************)
(* Delivery of events to one client by long-polling: fetch_events,         *)
(* ClientDescriptor and the dump and load of event queues in               *)
(* zerver/tornado/event_queue.py, the shutdown order of runtornado.py, and *)
(* the get_events loop of web/src/server_events.js.                        *)
(*                                                                         *)
(* The network may delay a request for ever, deliver it after the client   *)
(* gave up on it, and lose a response.  A request the client gave up on is *)
(* "abandoned": its connection is closed, so its response reaches nobody,  *)
(* but it may still reach the server and change the queue.  Tornado may    *)
(* restart, crash, or garbage-collect the queue; the client then learns    *)
(* that the queue is gone, reloads and registers a new one.                *)
(*                                                                         *)
(* Payloads are numbered in the order Tornado consumes them, so that       *)
(* losing, repeating or reordering one shows.                              *)
(*                                                                         *)
(* At shutdown Tornado writes its queues first, and stops listening and    *)
(* consuming afterwards.  What it does in between is lost with its memory: *)
(* an event it consumes then is in no queue any more ("dropped"), and a    *)
(* client it sends events to then is "ahead" of the queue that will be     *)
(* loaded.  Both last until the client reloads.                            *)
(***************************************************************************)
EXTENDS EventSet, FiniteSets

CONSTANTS
    Heartbeat,      \* the type of heartbeat events
    Restart,        \* the type of restart events
    Published,      \* the types of the other events, published by Django
    MaxPayloads,    \* bound on the payloads published
    MaxEventId,     \* bound on the ids one queue gives out
    MaxStops,       \* bound on the restarts and crashes of Tornado
    MaxDelayed      \* bound on the abandoned requests that still arrive

ASSUME DeliveryAssumption ==
    /\ MaxPayloads \in Nat
    /\ MaxEventId \in Nat
    /\ MaxStops \in Nat
    /\ MaxDelayed \in Nat
    /\ Types = Published \cup {Heartbeat, Restart}
    /\ VirtualTypes \subseteq Published \ {Heartbeat, Restart}
    /\ Payloads = 1 .. MaxPayloads

VARIABLES
    tornado,        \* "up", "stopping" (queues dumped) or "down"
    known,          \* the queue is in Tornado's clients map
    eq,             \* its event_queue
    handler,        \* the request of current_handler_id, or "none"
    dump,           \* the queue saved on disk, as a set of at most one
    stops,          \* number of restarts and crashes so far
    published,      \* number of payloads published so far
    client,         \* "idle", "waiting" for a response, "reloading", or, in a
                    \* reload, "fetching" the state and "applying" events to it
    last_event_id,  \* the client's acknowledgement
    processed,      \* payloads the client has processed
    repeated,       \* payloads the client has processed more than once
    requests,       \* GET /json/events requests on their way
    response,       \* the answer on its way to the waiting client, if any
    dropped,        \* history: payloads consumed after the dump and before
                    \* the exit, since the client fetched its state
    ahead           \* history: since then, the client was sent events the
                    \* dumped queue does not have

server == <<tornado, known, eq, handler, dump>>
browser == <<client, last_event_id, processed, repeated>>
history == <<dropped, ahead>>
vars == <<server, stops, published, browser, requests, response, history>>

Request == [live : BOOLEAN, last : Nat \cup {-1}, dont_block : BOOLEAN]

Response == [result : {"success", "error", "bad_queue"}, events : SUBSET Event]

Success(E) == [result |-> "success", events |-> E]
Failure(code) == [result |-> code, events |-> {}]

Serving == tornado \in {"up", "stopping"}

RoomFor(n) == eq.next_event_id + n <= MaxEventId + 1

(***************************************************************************)
(* Only the connection the client is waiting on carries a response to it.  *)
(* Events that are sent when the queue is on disk already put the client   *)
(* ahead of it.                                                            *)
(***************************************************************************)
Overtakes(E) == dump # {} /\ E # {}

Answer(who, answer) ==
    IF who = "live"
    THEN response' = {answer} /\ ahead' = (ahead \/ Overtakes(answer.events))
    ELSE UNCHANGED <<response, ahead>>

(***************************************************************************)
(* ClientDescriptor.add_event: push, then finish_current_handler, which    *)
(* sends everything in the queue to the handler and disconnects it.        *)
(***************************************************************************)
add_event(t, c) ==
    LET pushed == push(eq, t, c)
    IN  IF handler = "none"
        THEN /\ eq' = pushed
             /\ UNCHANGED <<handler, response, ahead>>
        ELSE /\ eq' = resolve(pushed)
             /\ handler' = "none"
             /\ Answer(handler, Success(eq'.queue))

\* room for the restart event of a dumped queue
Reserved == IF dump = {} THEN 0 ELSE 1

(***************************************************************************)
(* An event for this client comes off the notify_tornado RabbitMQ queue,   *)
(* where it waited while Tornado was down.  Without a queue it goes        *)
(* nowhere.                                                                *)
(***************************************************************************)
Publish(t) ==
    /\ Serving
    /\ published + Reserved < MaxPayloads
    /\ published' = published + 1
    /\ dropped' = IF dump = {} THEN dropped ELSE dropped \cup {published'}
    /\ \/ known /\ RoomFor(1) /\ add_event(t, {published'})
       \/ ~ known /\ UNCHANGED <<eq, handler, response, ahead>>
    /\ UNCHANGED <<tornado, known, dump, browser, requests, stops>>

(* timeout_callback of connect_handler.                                    *)
SendHeartbeat ==
    /\ Serving /\ known
    /\ handler # "none" /\ RoomFor(1)
    /\ add_event(Heartbeat, {})
    /\ UNCHANGED <<tornado, known, dump, published, browser, requests, stops, dropped>>

(***************************************************************************)
(* fetch_events for a queue the client names.  A refused request changes   *)
(* nothing, except that the second check comes after the prune.            *)
(***************************************************************************)
pruned(r) == prune(eq, r.last)

BadQueue(r) == ~ known

\* mutant: refuses the id that was pruned last, too
AlreadyPrunedOffByOne(r) == known /\ r.last <= eq.newest_pruned_id

AlreadyPruned(r) == known /\ r.last < eq.newest_pruned_id

NotInQueue(r) ==
    /\ known /\ ~ AlreadyPruned(r)
    /\ r.last # pruned(r).newest_pruned_id

Accepted(r) == known /\ ~ AlreadyPruned(r) /\ ~ NotInQueue(r)

Who(r) == IF r.live THEN "live" ELSE "abandoned"

Refuse(r) ==
    /\ \/ /\ BadQueue(r)
          /\ Answer(Who(r), Failure("bad_queue"))
          /\ eq' = eq
       \/ /\ AlreadyPruned(r)
          /\ Answer(Who(r), Failure("error"))
          /\ eq' = eq
       \/ /\ NotInQueue(r)
          /\ Answer(Who(r), Failure("error"))
          /\ eq' = pruned(r)
    /\ UNCHANGED handler

\* the queue after finish_current_handler
supplanted(r) == IF handler = "none" THEN pruned(r) ELSE resolve(pruned(r))

Serve(r) ==
    LET pending == supplanted(r)
        immediate == ~ empty(pending) \/ r.dont_block
    IN  /\ Accepted(r)
        /\ eq' = IF immediate THEN resolve(pending) ELSE pending
        /\ handler' = IF immediate THEN "none" ELSE Who(r)
        /\ IF r.live /\ immediate THEN Answer("live", Success(eq'.queue))
           ELSE Answer(handler, Success(pending.queue))

fetch_events(r) ==
    /\ Serving
    /\ r \in requests
    /\ requests' = requests \ {r}
    /\ Refuse(r) \/ Serve(r)
    /\ UNCHANGED <<tornado, known, dump, published, browser, stops, dropped>>

(* on_connection_close of a handler whose client has gone.                 *)
ConnectionClose ==
    /\ handler = "abandoned"
    /\ handler' = "none"
    /\ UNCHANGED <<tornado, known, eq, dump, published, browser, requests, response, stops,
                   history>>

(* gc_event_queues: the queue is idle and its lifespan is over.            *)
GarbageCollect ==
    /\ Serving /\ known
    /\ handler = "none"
    /\ known' = FALSE
    /\ eq' = EmptyQueue
    /\ UNCHANGED <<tornado, handler, dump, published, browser, requests, response, stops,
                   history>>

(***************************************************************************)
(* Shutdown, start and crash.  The queues are dumped first; requests,      *)
(* timers and events are served until the exit.  The connection of a       *)
(* long-polling request is closed when the process goes; a request that    *)
(* has not arrived yet may be held by the proxy until Tornado is back.     *)
(***************************************************************************)
DumpQueues ==
    /\ tornado = "up"
    /\ published < MaxPayloads /\ RoomFor(1)     \* for the restart event
    /\ stops < MaxStops
    /\ tornado' = "stopping"
    /\ dump' = IF known THEN {eq} ELSE {}
    /\ UNCHANGED <<known, eq, handler, published, browser, requests, response, stops, history>>

Gone ==
    /\ tornado' = "down"
    /\ known' = FALSE
    /\ eq' = EmptyQueue
    /\ handler' = "none"
    /\ stops' = stops + 1
    /\ UNCHANGED <<dump, published, browser, requests, response, history>>

Exit == tornado = "stopping" /\ Gone

Crash ==
    /\ tornado = "up"
    /\ stops < MaxStops
    /\ Gone

\* what load_event_queues and send_restart_events make of a dumped queue
restarted(q, p) == push(q, Restart, {p})

(* setup_event_queue: load the queue, rename the file so that it is not    *)
(* loaded again, send the restart event.                                   *)
Start ==
    /\ tornado = "down"
    /\ tornado' = "up"
    /\ dump' = {}
    /\ \/ /\ dump = {}
          /\ UNCHANGED <<known, eq, published>>
       \/ \E q \in dump :
            /\ published < MaxPayloads /\ q.next_event_id <= MaxEventId
            /\ published' = published + 1
            /\ eq' = restarted(q, published')
            /\ known' = TRUE
    /\ UNCHANGED <<handler, browser, requests, response, stops, history>>

(***************************************************************************)
(* The client.                                                             *)
(***************************************************************************)
get_events(dont_block) ==
    /\ client = "idle"
    /\ client' = "waiting"
    /\ requests' = requests \cup
         {[live |-> TRUE, last |-> last_event_id, dont_block |-> dont_block]}
    /\ UNCHANGED <<server, published, last_event_id, processed, repeated, response, stops,
                   history>>

(* The xhr times out, fails or is aborted: whatever belongs to it is now   *)
(* of no use to the client, but a request may still arrive.                *)
abandoned == {[r EXCEPT !.live = FALSE] : r \in requests}

Abandon ==
    /\ client = "waiting"
    /\ client' = "idle"
    /\ requests' = IF Cardinality(abandoned) <= MaxDelayed THEN abandoned
                   ELSE {r \in requests : ~ r.live}
    /\ handler' = IF handler = "live" THEN "abandoned" ELSE handler
    /\ response' = {}
    /\ UNCHANGED <<tornado, known, eq, dump, published, last_event_id, processed, repeated,
                   stops, history>>

Greatest(I) == {i \in I : \A j \in I : j <= i}

get_events_success(a) ==
    LET new == Contents(a.events)
    IN  /\ a.result = "success"
        /\ client' = "idle"
        /\ last_event_id' \in Greatest(Ids(a.events) \cup {last_event_id})
        /\ processed' = processed \cup new
        /\ repeated' = repeated \cup (processed \cap new)

\* mutant: retries whatever the error is
get_events_errorRetry(a) ==
    /\ a.result \in {"error", "bad_queue"}
    /\ client' = "idle"
    /\ UNCHANGED <<last_event_id, processed, repeated>>

get_events_error(a) ==
    /\ a.result \in {"error", "bad_queue"}
    /\ client' = IF a.result = "bad_queue" THEN "reloading" ELSE "idle"
    /\ UNCHANGED <<last_event_id, processed, repeated>>

Receive ==
    /\ client = "waiting"
    /\ \E a \in response : get_events_success(a) \/ get_events_error(a)
    /\ response' = {}
    /\ UNCHANGED <<server, published, requests, stops, history>>

(***************************************************************************)
(* The reload: do_events_register allocates a queue, fetches the state     *)
(* from the database, and then takes what came into the queue meanwhile    *)
(* and applies it to that state, where applying what the state already has *)
(* changes nothing.  Tornado may stop or collect the queue in between, and *)
(* the request may fail at any point; nobody knows the queue then.         *)
(***************************************************************************)
Register ==
    /\ client = "reloading" /\ Serving
    /\ client' = "fetching"
    /\ known' = TRUE
    /\ eq' = EmptyQueue
    /\ handler' = "none"
    /\ dump' = {}
    /\ last_event_id' = -1
    /\ requests' = {}
    /\ UNCHANGED <<tornado, published, processed, repeated, response, stops, history>>

\* mutant: the reload shows nothing of what happened before it
FetchNothing ==
    /\ client = "fetching"
    /\ client' = "applying"
    /\ processed' = {}
    /\ repeated' = {}
    /\ dropped' = {}
    /\ ahead' = FALSE
    /\ UNCHANGED <<server, published, last_event_id, requests, response, stops>>

FetchState ==
    /\ client = "fetching"
    /\ client' = "applying"
    /\ processed' = 1 .. published
    /\ repeated' = {}
    /\ dropped' = {}
    /\ ahead' = FALSE
    /\ UNCHANGED <<server, published, last_event_id, requests, response, stops>>

\* get_user_events, apply_events
ApplyEvents ==
    /\ client = "applying" /\ Serving /\ known
    /\ client' = "idle"
    /\ eq' = resolve(eq)
    /\ last_event_id' \in Greatest(Ids(eq'.queue) \cup {-1})
    /\ processed' = processed \cup Contents(eq'.queue)
    /\ ahead' = Overtakes(eq'.queue)
    /\ UNCHANGED <<tornado, known, handler, dump, published, repeated, requests, response,
                   stops, dropped>>

RegisterFails ==
    /\ client \in {"fetching", "applying"}
    /\ client' = "reloading"
    /\ known' = FALSE
    /\ eq' = EmptyQueue
    /\ dump' = {}
    /\ UNCHANGED <<tornado, handler, published, last_event_id, processed, repeated, requests,
                   response, stops, history>>

Init ==
    /\ tornado = "up"
    /\ known = TRUE
    /\ eq = EmptyQueue
    /\ handler = "none"
    /\ dump = {}
    /\ stops = 0
    /\ published = 0
    /\ client = "idle"
    /\ last_event_id = -1
    /\ processed = {}
    /\ repeated = {}
    /\ requests = {}
    /\ response = {}
    /\ dropped = {}
    /\ ahead = FALSE

Next ==
    \/ \E t \in Published : Publish(t)
    \/ SendHeartbeat
    \/ \E r \in requests : fetch_events(r)
    \/ ConnectionClose
    \/ GarbageCollect
    \/ DumpQueues \/ Exit \/ Crash \/ Start
    \/ \E b \in BOOLEAN : get_events(b)
    \/ Abandon
    \/ Receive
    \/ Register \/ FetchState \/ ApplyEvents \/ RegisterFails

Spec == Init /\ [][Next]_vars

(***************************************************************************)
(* Fairness.  Timers fire, the supervisor restarts Tornado, and the client *)
(* keeps polling (weak fairness); the network lets a poll through if the   *)
(* client retries for ever, and a reload succeeds if retried for ever      *)
(* (strong fairness).                                                      *)
(***************************************************************************)
FetchLive == \E r \in requests : r.live /\ fetch_events(r)

Fairness ==
    /\ WF_vars(\E b \in BOOLEAN : get_events(b))
    /\ WF_vars(Abandon)
    /\ WF_vars(Exit)
    /\ WF_vars(Start)
    /\ WF_vars(FetchState)
    /\ WF_vars(~ known /\ RegisterFails)
    /\ SF_vars(FetchLive)
    /\ SF_vars(Receive)
    /\ SF_vars(Register)
    /\ SF_vars(known /\ FetchState)
    /\ SF_vars(ApplyEvents)

FairSpec == Spec /\ Fairness

(***************************************************************************)
(* Properties.                                                             *)
(***************************************************************************)
TypeOK ==
    /\ tornado \in {"up", "stopping", "down"}
    /\ known \in BOOLEAN
    /\ eq \in Queue
    /\ handler \in {"none", "live", "abandoned"}
    /\ dump \in SUBSET Queue
    /\ stops \in 0 .. MaxStops
    /\ published \in 0 .. MaxPayloads
    /\ client \in {"idle", "waiting", "reloading", "fetching", "applying"}
    /\ last_event_id \in Nat \cup {-1}
    /\ processed \in SUBSET Payloads
    /\ repeated \in SUBSET Payloads
    /\ requests \in SUBSET Request
    /\ response \in SUBSET Response
    /\ dropped \in SUBSET Payloads
    /\ ahead \in BOOLEAN

\* the copies of the queue the client can still be served from
Copies == dump \cup (IF known THEN {eq} ELSE {})

\* the client has a state, and the queue that goes with it
HasState == client \in {"idle", "waiting", "applying"}

(* No loss: a published payload that the client has not processed is in    *)
(* an event it has not acknowledged, as long as the queue exists: not in   *)
(* an event that was pruned, nor in one whose id the client is past.  Only *)
(* what Tornado consumes between the dump and its exit is lost, and a      *)
(* client that is sent events in that window can miss more.                *)
NoLoss ==
    HasState /\ ~ ahead =>
        \A q \in Copies : \A p \in 1 .. published :
            \/ p \in processed \cup dropped
            \/ \E e \in events(q) : e.id > last_event_id /\ p \in e.content

(* Exactly once: the client never processes a payload twice, although      *)
(* every unacknowledged event is sent again with each response; unless it  *)
(* was sent events in the window of a shutdown, whose ids are given again. *)
ExactlyOnce == ~ ahead => repeated = {}

(* A handler is connected only to an empty queue: an event must never wait *)
(* behind a connected client until the next heartbeat.                     *)
HandlerMeansEmpty == handler # "none" => events(eq) = {}

(* A client that follows the protocol is never told that its               *)
(* last_event_id is wrong, whatever requests of its arrived late: those    *)
(* errors are not handled by a reload, so it would retry for ever.  Again  *)
(* only the window of a shutdown can make it.                              *)
NoProtocolError == ~ ahead => \A a \in response : a.result # "error"

(* Snapshot consistency: what the client has processed is exactly what had *)
(* been published up to some moment, compressed events included, but for   *)
(* what was dropped; it never sees a later event without an earlier one.   *)
Snapshot == ~ ahead => \E k \in 0 .. published : processed = (1 .. k) \ dropped

(* The long-polling protocol implements the channel of EventChannel: a     *)
(* restart may take a payload that was just published out of the channel,  *)
(* or break it until the next reload, and nothing else may.                *)
Channel == INSTANCE EventChannel WITH lost <- dropped, broken <- ahead
ImplementsChannel == Channel!Spec

(* Every payload published is eventually processed (or superseded by the   *)
(* initial fetch of a reload), whatever fails on the way, unless the       *)
(* window of a shutdown took it or put the client ahead of its queue.      *)
EventuallyProcessed ==
    \A p \in Payloads : (p <= published) ~> (ahead \/ p \in processed \cup dropped)
=============================================================================
