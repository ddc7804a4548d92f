------------------------ MODULE EventServer_proofs ------------------------
(***************************************************************************)
(* Theorems about EventServer, for any users, queues, messages and polls:  *)
(* the tables agree, an open connection is one its queue knows, no message *)
(* is forgotten, and nobody is notified of one again.                      *)
(***************************************************************************)
EXTENDS EventServer, FiniteSetTheorems, WellFoundedInduction, TLAPS

USE ServerAssumption

(***************************************************************************)
(* Types, and what they rest on: who waits is a client, and ids grow.      *)
(***************************************************************************)
RequestType ==
    [phase : {"none", "django", "waiting", "finishing"},
     queue : Queues \cup {None}, last : Int, answer : SUBSET Events]

Sound(r, ids) ==
    /\ r.phase # "none" => r.queue \in Queues
    /\ \A e \in r.answer : r.queue \in Queues /\ e.id < ids[r.queue]

RequestInv ==
    \A h \in Handlers :
      /\ Sound(request[h], next_event_id)
      /\ h \in handlers => request[h].phase # "none"

QueueInv ==
    /\ IsFiniteSet(clients)
    /\ \A q \in Queues :
         /\ current_handler_id[q] # None => q \in clients
         /\ q \in clients => next_event_id[q] \in Nat
         /\ q \notin clients => queue[q] = {}
         /\ \A e \in queue[q] : /\ e.id < next_event_id[q]
                                /\ e.message # None => e.message \in sent \ notices

\* the parts of TypeOK, by what the steps change together
TablesOK ==
    /\ clients \subseteq Queues /\ old \subseteq clients /\ broken \subseteq clients
    /\ user_clients \in [Users -> SUBSET Queues]
    /\ realm_clients_all_streams \subseteq AllPublic

EventsOK ==
    /\ queue \in [Queues -> SUBSET Events]
    /\ next_event_id \in [Queues -> Nat \cup {-1}]

ConnectionsOK ==
    /\ current_handler_id \in [Queues -> Handlers \cup {None}]
    /\ descriptors_by_handler_id \in [Handlers -> Queues \cup {None}]
    /\ handlers \subseteq Handlers /\ next_handler_id \in 0 .. MaxHandlers
    /\ request \in [Handlers -> RequestType]

OutsideOK ==
    /\ sent \subseteq Messages /\ notices \subseteq sent
    /\ told \subseteq Queues /\ got \in [Queues -> Int]
    /\ seen \in [Users -> SUBSET Messages]
    /\ failed_tries \in [Messages -> 0 .. MAX_REQUEST_RETRIES]
    /\ dropped \subseteq sent

EffectsOK ==
    /\ notified \in [Users -> [Messages -> 0 .. 2]]
    /\ failures \in 0 .. MaxFailures

ServerInv ==
    /\ TablesOK /\ EventsOK /\ ConnectionsOK /\ OutsideOK /\ EffectsOK
    /\ cleaning \in Queues \cup {None}
    /\ RequestInv /\ QueueInv /\ TablesAgree

LEMMA TypesFollow == ServerInv => TypeOK
BY DEF ServerInv, TypeOK, TablesOK, EventsOK, ConnectionsOK, OutsideOK, EffectsOK, RequestType

LEMMA ConstantTypes ==
    /\ NoRequest \in RequestType
    /\ Handlers \subseteq Nat /\ None \notin Handlers
    /\ Heartbeat \in [Queues -> [message : Messages \cup {None},
                                 internal : {"none", "pending", "notified"}]]
BY DEF NoRequest, RequestType, Handlers, Heartbeat

(***************************************************************************)
(* The largest id among the events of an answer.                           *)
(***************************************************************************)
LEMMA LeastOf ==
    ASSUME NEW S \in SUBSET Nat, S # {}
    PROVE  \E m \in S : \A k \in S : m <= k
<1>1. PICK m \in S : \A k \in S : <<k, m>> \notin OpToRel(<, Nat)
  BY NatLessThanWellFounded, WFMin
<1>2. \A k \in S : ~ (k < m)
  BY <1>1 DEF OpToRel
<1> QED
  BY <1>2

LEMMA GreatestOf ==
    ASSUME NEW b \in Int, NEW S \in SUBSET Int, S # {}, \A i \in S : i <= b
    PROVE  \E m \in S : \A k \in S : k <= m
<1> DEFINE T == {b - i : i \in S}
<1>1. T \in SUBSET Nat /\ T # {}
  <2>1. \A i \in S : b - i \in Nat
    OBVIOUS
  <2>2. PICK i \in S : TRUE
    OBVIOUS
  <2>3. T \subseteq Nat /\ b - i \in T
    BY <2>1
  <2> QED
    BY <2>3
<1>2. PICK t \in T : \A k \in T : t <= k
  BY <1>1, LeastOf
<1>3. PICK m \in S : t = b - m
  BY <1>2
<1>4. ASSUME NEW k \in S PROVE k <= m
  <2>1. b - m <= b - k
    BY <1>2, <1>3
  <2> QED
    BY <2>1
<1> QED
  BY <1>4

LEMMA ReceiveTypes ==
    ASSUME OutsideOK, EventsOK, NEW h \in Handlers, request[h].queue \in Queues,
           NEW held \in SUBSET Events,
           \A e \in held : e.id < next_event_id[request[h].queue],
           Receive(h, held)
    PROVE  got' \in [Queues -> Int] /\ seen' \in [Users -> SUBSET Messages]
<1> DEFINE q == request[h].queue
           last == {e.id : e \in held} \cup {got[q]}
           top == CHOOSE i \in last : \A j \in last : j <= i
           b == IF got[q] <= next_event_id[q] THEN next_event_id[q] ELSE got[q]
<1>1. got[q] \in Int /\ next_event_id[q] \in Int
  BY DEF OutsideOK, EventsOK
<1>2. last \in SUBSET Int /\ last # {} /\ b \in Int /\ \A i \in last : i <= b
  BY <1>1 DEF Events
<1>3. \E m \in last : \A k \in last : k <= m
  <2> HIDE DEF last, b
  <2> QED
    BY <1>2, GreatestOf
<1>4. top \in last
  <2> HIDE DEF last
  <2> QED
    BY <1>3
<1>5. top \in Int
  BY <1>2, <1>4
<1>6. CASE h \in handlers
  <2>1. /\ got' = [got EXCEPT ![q] = top]
        /\ seen' = [seen EXCEPT ![Owner[q]] =
                      @ \cup ({e.message : e \in held} \ {None})]
    BY <1>6 DEF Receive
  <2>2. {e.message : e \in held} \ {None} \subseteq Messages
    BY DEF Events
  <2> HIDE DEF top
  <2> QED
    BY <1>5, <2>1, <2>2 DEF OutsideOK
<1>7. CASE h \notin handlers
  BY <1>7 DEF Receive, OutsideOK
<1> QED
  BY <1>6, <1>7

(***************************************************************************)
(* Building blocks: handlers that are finished, events that are added,     *)
(* queues that are removed.                                                *)
(***************************************************************************)
LEMMA FinishedTypes ==
    ASSUME ConnectionsOK, RequestInv, NEW S \in SUBSET Queues, NEW held,
           held \in [Queues -> SUBSET Events], NEW h \in Handlers
    PROVE  /\ finished(S, held)[h] \in RequestType
           /\ \/ finished(S, held)[h] = request[h]
              \/ finished(S, held)[h] = NoRequest /\ h \notin handlers
              \/ /\ h \in handlers
                 /\ finished(S, held)[h].phase = "finishing"
                 /\ finished(S, held)[h].queue = request[h].queue
                 /\ finished(S, held)[h].answer = held[request[h].queue]
<1>1. request[h] \in RequestType
  BY DEF ConnectionsOK
<1>2. CASE ~ Waiting(h, S)
  BY <1>1, <1>2 DEF finished
<1>3. CASE Waiting(h, S) /\ h \notin handlers
  BY <1>3, ConstantTypes DEF finished
<1>4. CASE Waiting(h, S) /\ h \in handlers
  <2> DEFINE r == [request[h] EXCEPT !.phase = "finishing",
                                     !.answer = held[request[h].queue]]
  <2>1. finished(S, held)[h] = r
    BY <1>4 DEF finished
  <2>2. request[h].queue \in Queues
    BY <1>4 DEF RequestInv, Sound
  <2>3. held[request[h].queue] \in SUBSET Events
    BY <2>2
  <2>4. /\ r \in RequestType /\ r.phase = "finishing" /\ r.queue = request[h].queue
        /\ r.answer = held[request[h].queue]
    BY <1>1, <2>3 DEF RequestType
  <2> QED
    BY <1>4, <2>1, <2>4
<1> QED
  BY <1>2, <1>3, <1>4

\* the answers of finished handlers are bounded, when ids do not go down
LEMMA FinishedAnswers ==
    ASSUME ConnectionsOK, RequestInv, NEW S \in SUBSET Queues, NEW held,
           held \in [Queues -> SUBSET Events],
           next_event_id \in [Queues -> Int], next_event_id' \in [Queues -> Int],
           \A q \in Queues : next_event_id[q] <= next_event_id'[q],
           \A q \in Queues : \A e \in held[q] : e.id < next_event_id'[q]
    PROVE  \A h \in Handlers :
             /\ Sound(finished(S, held)[h], next_event_id')
             /\ h \in handlers => finished(S, held)[h].phase # "none"
<1> USE DEF Sound
<1> TAKE h \in Handlers
<1> DEFINE r == finished(S, held)[h]
<1>1. CASE r = request[h]
  <2>1. \A e \in request[h].answer :
          /\ request[h].queue \in Queues /\ e.id \in Int
          /\ e.id < next_event_id[request[h].queue]
    BY DEF RequestInv, Sound, ConnectionsOK, RequestType, Events
  <2>2. \A e \in request[h].answer : e.id < next_event_id'[request[h].queue]
    BY <2>1
  <2> HIDE DEF r
  <2> QED
    BY <1>1, <2>1, <2>2 DEF RequestInv, r
<1>2. CASE r = NoRequest /\ h \notin handlers
  BY <1>2 DEF NoRequest
<1>3. CASE /\ h \in handlers
           /\ r.phase = "finishing" /\ r.queue = request[h].queue
           /\ r.answer = held[request[h].queue]
  <2>1. request[h].queue \in Queues
    BY <1>3 DEF RequestInv
  <2> HIDE DEF r
  <2> QED
    BY <1>3, <2>1 DEF r
<1> QED
  BY <1>1, <1>2, <1>3, FinishedTypes

LEMMA DisconnectTypes ==
    ASSUME ConnectionsOK, NEW S, disconnect_handler(S)
    PROVE  /\ current_handler_id' \in [Queues -> Handlers \cup {None}]
           /\ descriptors_by_handler_id' \in [Handlers -> Queues \cup {None}]
           /\ \A q \in Queues : current_handler_id'[q] # None =>
                current_handler_id'[q] = current_handler_id[q]
BY DEF ConnectionsOK, disconnect_handler

LEMMA FinishTypes ==
    ASSUME ConnectionsOK, RequestInv, NEW S \in SUBSET Queues, NEW held,
           held \in [Queues -> SUBSET Events],
           next_event_id \in [Queues -> Int], next_event_id' \in [Queues -> Int],
           \A q \in Queues : next_event_id[q] <= next_event_id'[q],
           \A q \in Queues : \A e \in held[q] : e.id < next_event_id'[q],
           finish_current_handler(S, held)
    PROVE  /\ ConnectionsOK' /\ RequestInv'
           /\ \A q \in Queues : current_handler_id'[q] # None =>
                current_handler_id'[q] = current_handler_id[q]
<1>1. request' = finished(S, held) /\ UNCHANGED <<handlers, next_handler_id>>
  BY DEF finish_current_handler
<1>2. request' \in [Handlers -> RequestType]
  <2>1. finished(S, held) = [h \in Handlers |-> finished(S, held)[h]]
    BY DEF finished
  <2> QED
    BY <1>1, <2>1, FinishedTypes
<1>3. RequestInv'
  BY <1>1, FinishedAnswers DEF RequestInv
<1> QED
  BY <1>1, <1>2, <1>3, DisconnectTypes DEF finish_current_handler, ConnectionsOK

LEMMA AddEventTypes ==
    ASSUME ServerInv, NEW S \in SUBSET clients,
           NEW body \in [Queues -> [message : Messages \cup {None},
                                    internal : {"none", "pending", "notified"}]],
           add_event(S, body)
    PROVE  /\ EventsOK' /\ ConnectionsOK' /\ RequestInv'
           /\ \A q \in Queues : current_handler_id'[q] # None =>
                current_handler_id'[q] = current_handler_id[q]
           /\ \A q \in clients : next_event_id'[q] \in Nat
           /\ \A q \in Queues : \A e \in queue'[q] :
                /\ e.id < next_event_id'[q]
                /\ e \in queue[q] \/ (q \in S /\ e.message = body[q].message
                                      /\ e.internal = body[q].internal)
           /\ \A q \in Queues \ S : queue'[q] = queue[q]
<1> USE DEF ServerInv
<1>1. S \subseteq Queues /\ \A q \in S : next_event_id[q] \in Nat
  BY DEF TablesOK, QueueInv
<1>2. \A q \in Queues : next_event_id'[q] = IF q \in S THEN next_event_id[q] + 1
                                            ELSE next_event_id[q]
  BY DEF add_event
<1>3. next_event_id' \in [Queues -> Nat \cup {-1}]
  BY <1>1 DEF add_event, EventsOK
<1> DEFINE event(q) == [id |-> next_event_id[q], message |-> body[q].message,
                        internal |-> body[q].internal]
<1>4. \A q \in S : event(q) \in Events
  BY <1>1 DEF Events
<1>5. \A q \in Queues : queue'[q] = IF q \in S THEN queue[q] \cup {event(q)} ELSE queue[q]
  BY DEF add_event, Pushed
<1>6. queue' \in [Queues -> SUBSET Events]
  <2>1. queue' = [q \in Queues |-> queue'[q]]
    BY DEF add_event, Pushed
  <2>2. ASSUME NEW q \in Queues PROVE queue'[q] \in SUBSET Events
    <3>1. queue[q] \in SUBSET Events
      BY DEF EventsOK
    <3>2. queue'[q] = IF q \in S THEN queue[q] \cup {event(q)} ELSE queue[q]
      BY <1>5
    <3>3. q \in S => event(q) \in Events
      BY <1>4
    <3> HIDE DEF event
    <3>4. CASE q \in S
      BY <3>1, <3>2, <3>3, <3>4
    <3>5. CASE q \notin S
      BY <3>1, <3>2, <3>5
    <3> QED
      BY <3>4, <3>5
  <2> QED
    BY <2>1, <2>2
<1>7. \A q \in Queues : \A e \in queue'[q] :
        /\ e.id < next_event_id'[q]
        /\ e \in queue[q] \/ (q \in S /\ e.message = body[q].message
                                      /\ e.internal = body[q].internal)
  <2> SUFFICES ASSUME NEW q \in Queues, NEW e \in queue'[q]
               PROVE  /\ e.id < next_event_id'[q]
                      /\ e \in queue[q] \/ (q \in S /\ e.message = body[q].message
                                      /\ e.internal = body[q].internal)
    OBVIOUS
  <2>1. CASE e \in queue[q]
    <3>1. e.id < next_event_id[q] /\ e.id \in Nat /\ next_event_id[q] \in Int
      BY <2>1 DEF QueueInv, EventsOK, Events
    <3> QED
      BY <1>2, <2>1, <3>1
  <2>2. CASE e \notin queue[q]
    <3>1. q \in S /\ e = event(q)
      BY <1>5, <2>2
    <3>2. next_event_id[q] < next_event_id'[q]
      BY <1>1, <1>2, <3>1
    <3> QED
      BY <3>1, <3>2
  <2> QED
    BY <2>1, <2>2
<1>8. /\ next_event_id \in [Queues -> Int] /\ next_event_id' \in [Queues -> Int]
      /\ \A q \in Queues : next_event_id[q] <= next_event_id'[q]
  BY <1>1, <1>2, <1>3 DEF EventsOK
<1>9. finish_current_handler(S, queue')
  BY DEF add_event
<1>10. /\ ConnectionsOK' /\ RequestInv'
       /\ \A q \in Queues : current_handler_id'[q] # None =>
            current_handler_id'[q] = current_handler_id[q]
  BY <1>1, <1>6, <1>7, <1>8, <1>9, FinishTypes
<1>11. \A q \in clients : next_event_id'[q] \in Nat
  BY <1>2 DEF QueueInv, TablesOK
<1> QED
  BY <1>3, <1>5, <1>6, <1>7, <1>10, <1>11 DEF EventsOK

LEMMA NotifyTypes ==
    ASSUME EffectsOK, NEW count, \A u \in Users, m \in Messages : count[u][m] \in Nat,
           Notify(count)
    PROVE  /\ notified' \in [Users -> [Messages -> 0 .. 2]]
           /\ \A u \in Users, m \in Messages :
                /\ count[u][m] = 0 => notified'[u][m] = notified[u][m]
                /\ count[u][m] # 0 => notified'[u][m] > 0
<1>1. \A u \in Users, m \in Messages :
        notified'[u][m] = IF notified[u][m] + count[u][m] > 2 THEN 2
                          ELSE notified[u][m] + count[u][m]
  BY DEF Notify
<1>2. \A u \in Users, m \in Messages : notified[u][m] \in 0 .. 2
  BY DEF EffectsOK
<1>3. ASSUME NEW u \in Users, NEW m \in Messages PROVE notified'[u][m] \in 0 .. 2
  <2>1. notified[u][m] \in 0 .. 2 /\ count[u][m] \in Nat
    BY <1>2
  <2>2. notified'[u][m] = IF notified[u][m] + count[u][m] > 2 THEN 2
                          ELSE notified[u][m] + count[u][m]
    BY <1>1
  <2> QED
    BY <2>1, <2>2
<1>4. notified' = [u \in Users |-> [m \in Messages |-> notified'[u][m]]]
  BY DEF Notify
<1>5. notified' \in [Users -> [Messages -> 0 .. 2]]
  BY <1>3, <1>4
<1>6. ASSUME NEW u \in Users, NEW m \in Messages
      PROVE  /\ count[u][m] = 0 => notified'[u][m] = notified[u][m]
             /\ count[u][m] # 0 => notified'[u][m] > 0
  <2>1. notified[u][m] \in 0 .. 2 /\ count[u][m] \in Nat
    BY <1>2
  <2>2. notified'[u][m] = IF notified[u][m] + count[u][m] > 2 THEN 2
                          ELSE notified[u][m] + count[u][m]
    BY <1>1
  <2> QED
    BY <2>1, <2>2
<1> QED
  BY <1>5, <1>6

LEMMA MissedCount ==
    ASSUME ServerInv, NEW S \in SUBSET clients, NEW R \in SUBSET S,
           NEW u \in Users, NEW m \in Messages
    PROVE  /\ MissedBy(u, m, R, S) \in Nat
           /\ MissedBy(u, m, R, S) # 0 =>
                \E q \in R : Owner[q] = u /\ m \in Missed(q, S)
<1> DEFINE Q == {q \in R : Owner[q] = u /\ m \in Missed(q, S)}
<1>1. IsFiniteSet(clients)
  BY DEF ServerInv, QueueInv
<1>2. Q \subseteq clients
  OBVIOUS
<1> HIDE DEF Q
<1>3. IsFiniteSet(Q) /\ Cardinality(Q) \in Nat
  BY <1>1, <1>2, FS_Subset, FS_CardinalityType
<1>4. Q = {} => Cardinality(Q) = 0
  BY FS_EmptySet
<1>5. Q # {} => \E q \in R : Owner[q] = u /\ m \in Missed(q, S)
  BY DEF Q
<1>6. MissedBy(u, m, R, S) = Cardinality(Q)
  BY DEF MissedBy, Q
<1> QED
  BY <1>3, <1>4, <1>5, <1>6

\* A collection removes a part of the queues it took off the lists.
LEMMA CollectTypes ==
    ASSUME ServerInv, NEW S \in SUBSET clients, do_gc_event_queues(S)
    PROVE  /\ TablesOK' /\ TablesAgree' /\ EffectsOK' /\ IsFiniteSet(clients')
           /\ \E R \in SUBSET S :
                /\ clients' = clients \ R
                /\ queue' = [q \in Queues |-> IF q \in R THEN {} ELSE queue[q]]
<1> USE DEF ServerInv
<1>1. /\ user_clients' = [u \in Users |-> user_clients[u] \ S]
      /\ realm_clients_all_streams' = realm_clients_all_streams \ S
  BY DEF do_gc_event_queues, RemoveFromLists
<1>2. S \subseteq Queues
  BY DEF TablesOK
<1>3. ASSUME NEW R \in SUBSET S, Remove(R), broken' = (broken \cup S) \ R, EffectsOK'
      PROVE  /\ TablesOK' /\ TablesAgree' /\ EffectsOK' /\ IsFiniteSet(clients')
             /\ \E Q \in SUBSET S :
                  /\ clients' = clients \ Q
                  /\ queue' = [q \in Queues |-> IF q \in Q THEN {} ELSE queue[q]]
  <2>1. /\ clients' = clients \ R /\ old' = old \ R
        /\ queue' = [q \in Queues |-> IF q \in R THEN {} ELSE queue[q]]
    BY <1>3 DEF Remove
  <2>2. clients' \ broken' = (clients \ broken) \ S
    BY <1>3, <2>1
  <2>3. IsFiniteSet(clients')
    BY <2>1, FS_Subset DEF QueueInv
  <2>4. TablesOK'
    BY <1>1, <1>2, <1>3, <2>1 DEF TablesOK
  <2>5. \A u \in Users : user_clients'[u] = {q \in clients' \ broken' : Owner[q] = u}
    BY <1>1, <2>2 DEF TablesAgree
  <2>6. TablesAgree'
    BY <1>1, <2>2, <2>5 DEF TablesAgree
  <2> QED
    BY <1>3, <2>1, <2>3, <2>4, <2>6
<1>4. CASE /\ Remove(S)
           /\ Notify([u \in Users |-> [m \in Messages |-> MissedBy(u, m, S, S)]])
           /\ broken' = broken \ S
           /\ UNCHANGED failures
  <2> DEFINE count == [u \in Users |-> [m \in Messages |-> MissedBy(u, m, S, S)]]
  <2>1. \A u \in Users, m \in Messages : count[u][m] \in Nat
    BY MissedCount
  <2> HIDE DEF count
  <2>2. EffectsOK'
    BY <1>4, <2>1, NotifyTypes DEF EffectsOK, count
  <2>3. broken' = (broken \cup S) \ S
    BY <1>4
  <2> QED
    BY <1>3, <1>4, <2>2, <2>3
<1>5. ASSUME failures < MaxFailures, failures' = failures + 1,
             NEW R \in SUBSET S, NEW failing \in S \ R,
             NEW sentBefore \in SUBSET Missed(failing, S), Remove(R),
             Notify([u \in Users |-> [m \in Messages |->
                       MissedBy(u, m, R, S)
                         + IF u = Owner[failing] /\ m \in sentBefore THEN 1 ELSE 0]]),
             broken' = (broken \cup S) \ R
      PROVE  /\ TablesOK' /\ TablesAgree' /\ EffectsOK' /\ IsFiniteSet(clients')
             /\ \E Q \in SUBSET S :
                  /\ clients' = clients \ Q
                  /\ queue' = [q \in Queues |-> IF q \in Q THEN {} ELSE queue[q]]
  <2> DEFINE count == [u \in Users |-> [m \in Messages |->
                         MissedBy(u, m, R, S)
                           + IF u = Owner[failing] /\ m \in sentBefore THEN 1 ELSE 0]]
  <2>1. \A u \in Users, m \in Messages : count[u][m] \in Nat
    BY MissedCount
  <2> HIDE DEF count
  <2>2. notified' \in [Users -> [Messages -> 0 .. 2]]
    BY <1>5, <2>1, NotifyTypes DEF count
  <2>3. EffectsOK'
    BY <1>5, <2>2 DEF EffectsOK
  <2> QED
    BY <1>3, <1>5, <2>3
<1> QED
  BY <1>4, <1>5 DEF do_gc_event_queues

\* ... none of which a handler waits for.
LEMMA CollectInv ==
    ASSUME ServerInv, NEW S \in SUBSET clients, do_gc_event_queues(S),
           ConnectionsOK', RequestInv',
           UNCHANGED <<next_event_id, cleaning, outside>>
             \/ (UNCHANGED <<next_event_id, outside>> /\ cleaning' = None),
           \A q \in Queues : current_handler_id'[q] # None =>
             current_handler_id[q] # None /\ q \notin S
    PROVE  ServerInv'
<1> USE DEF ServerInv
<1>1. TablesOK' /\ TablesAgree' /\ EffectsOK' /\ IsFiniteSet(clients')
  BY CollectTypes
<1>2. PICK R \in SUBSET S :
        /\ clients' = clients \ R
        /\ queue' = [q \in Queues |-> IF q \in R THEN {} ELSE queue[q]]
  BY CollectTypes
<1>3. next_event_id' = next_event_id /\ UNCHANGED <<sent, notices, retries, told, got, seen>>
  BY DEF outside, retries
<1>4. EventsOK'
  <2>1. queue' \in [Queues -> SUBSET Events]
    BY <1>2 DEF EventsOK
  <2> QED
    BY <1>3, <2>1 DEF EventsOK
<1>5. QueueInv'
  BY <1>1, <1>2, <1>3 DEF QueueInv
<1>6. OutsideOK'
  BY <1>3 DEF OutsideOK, retries
<1> QED
  BY <1>1, <1>4, <1>5, <1>6

(***************************************************************************)
(* The steps.                                                              *)
(***************************************************************************)
\* what most steps leave alone
LEMMA KeptInv ==
    ASSUME ServerInv, UNCHANGED <<clients, events, sent, notices>>,
           TablesOK', TablesAgree', ConnectionsOK', OutsideOK', EffectsOK',
           RequestInv', cleaning' \in Queues \cup {None},
           \A q \in Queues : current_handler_id'[q] # None => q \in clients
    PROVE  ServerInv'
BY DEF ServerInv, EventsOK, QueueInv, events

LEMMA AllocateInv ==
    ASSUME ServerInv, NEW q \in Queues, NEW heard \in BOOLEAN,
           allocate_client_descriptor(q, heard)
    PROVE  ServerInv'
<1> USE DEF ServerInv, allocate_client_descriptor
<1>1. q \notin clients /\ q \notin broken /\ Owner[q] \in Users /\ next_event_id[q] = -1
  BY DEF TablesOK, EventsOK, Used
<1>2. TablesOK'
  BY <1>1 DEF TablesOK
<1>3. clients' \ broken' = (clients \ broken) \cup {q}
  BY <1>1
<1>4. TablesAgree'
  BY <1>1, <1>3 DEF TablesAgree, TablesOK
<1>5. EventsOK' /\ \A p \in Queues : next_event_id[p] <= next_event_id'[p]
  BY <1>1 DEF EventsOK
<1>6. OutsideOK'
  BY <1>1 DEF OutsideOK, retries
<1>7. ConnectionsOK' /\ EffectsOK'
  BY DEF ConnectionsOK, EffectsOK, connections, effects
<1>8. RequestInv'
  <2>1. \A h \in Handlers : \A e \in request[h].answer :
          request[h].queue \in Queues /\ e.id \in Nat
            /\ e.id < next_event_id[request[h].queue]
    BY DEF RequestInv, Sound, ConnectionsOK, RequestType, Events
  <2>2. next_event_id \in [Queues -> Int] /\ next_event_id' \in [Queues -> Int]
    BY <1>5 DEF EventsOK
  <2>3. \A h \in Handlers : \A e \in request[h].answer :
          e.id < next_event_id'[request[h].queue]
    BY <1>5, <2>1, <2>2
  <2> QED
    BY <2>1, <2>3 DEF RequestInv, Sound, connections
<1>9. QueueInv'
  <2>1. IsFiniteSet(clients')
    BY FS_AddElement DEF QueueInv
  <2>2. \A p \in Queues \ {q} : next_event_id'[p] = next_event_id[p]
    BY DEF EventsOK
  <2>3. next_event_id'[q] = 0 /\ queue[q] = {} /\ current_handler_id[q] = None
    BY <1>1 DEF EventsOK, QueueInv
  <2> QED
    BY <2>1, <2>2, <2>3 DEF QueueInv, connections
<1> QED
  BY <1>2, <1>4, <1>5, <1>6, <1>7, <1>8, <1>9

LEMMA InitializeInv ==
    ASSUME ServerInv, NEW q \in Queues, initialize(q)
    PROVE  ServerInv'
<1> USE DEF ServerInv, initialize
<1> DEFINE r == [phase |-> "django", queue |-> q, last |-> got[q], answer |-> {}]
<1>1. r \in RequestType
  BY DEF RequestType, OutsideOK
<1>2. next_handler_id \in Handlers /\ next_handler_id' \in 0 .. MaxHandlers
  BY DEF ConnectionsOK, Handlers
<1>3. ConnectionsOK' /\ RequestInv'
  <2>1. request' = [request EXCEPT ![next_handler_id] = r]
    OBVIOUS
  <2>2. r.phase = "django" /\ r.queue = q /\ r.answer = {}
    OBVIOUS
  <2>3. /\ handlers' = handlers \cup {next_handler_id}
        /\ UNCHANGED <<current_handler_id, descriptors_by_handler_id, next_event_id>>
    BY DEF events
  <2> HIDE DEF r, initialize
  <2>4. ConnectionsOK'
    BY <1>1, <1>2, <2>1, <2>3 DEF ConnectionsOK
  <2>5. /\ request'[next_handler_id] = r
        /\ \A h \in Handlers \ {next_handler_id} : request'[h] = request[h]
    BY <1>2, <2>1 DEF ConnectionsOK
  <2>6. RequestInv'
    BY <2>2, <2>3, <2>5 DEF RequestInv, Sound
  <2> QED
    BY <2>4, <2>6
<1>4. TablesOK' /\ TablesAgree' /\ OutsideOK' /\ EffectsOK'
  BY DEF TablesOK, TablesAgree, OutsideOK, EffectsOK, tables, outside, effects
<1> QED
  BY <1>3, <1>4, KeptInv DEF QueueInv, tables, outside

LEMMA FetchErrorInv ==
    ASSUME ServerInv, NEW h \in Handlers, fetch_error(h)
    PROVE  ServerInv'
<1> USE DEF ServerInv, fetch_error
<1>1. ConnectionsOK' /\ RequestInv'
  BY ConstantTypes DEF ConnectionsOK, RequestInv, Sound, Over, NoRequest, events
<1>2. TablesOK' /\ TablesAgree' /\ OutsideOK' /\ EffectsOK'
  BY DEF TablesOK, TablesAgree, OutsideOK, EffectsOK, tables, outside, effects
<1> QED
  BY <1>1, <1>2, KeptInv DEF QueueInv, tables, outside

LEMMA AcceptedTypes ==
    ASSUME ServerInv, NEW h \in Handlers, Accepted(h), UNCHANGED next_event_id
    PROVE  /\ request[h].queue \in Queues /\ request[h].queue \in clients
           /\ Kept(h) \in SUBSET Events
           /\ \A e \in Kept(h) : e.id < next_event_id[request[h].queue]
           /\ EventsOK'
           /\ \A q \in Queues : queue'[q] \subseteq queue[q]
           /\ \A q \in Queues : \A e \in queue'[q] : e.id < next_event_id'[q]
<1>1. request[h].queue \in Queues
  BY DEF ServerInv, Accepted, InDjango, RequestInv, Sound
<1> QED
  BY <1>1 DEF ServerInv, Accepted, EventsOK, QueueInv, Kept

LEMMA FetchResponseInv ==
    ASSUME ServerInv, NEW h \in Handlers, fetch_response(h)
    PROVE  ServerInv'
<1> USE DEF ServerInv
<1> DEFINE q == request[h].queue
<1>1. Accepted(h) /\ UNCHANGED next_event_id
  BY DEF fetch_response
<1>2. /\ q \in Queues /\ q \in clients /\ EventsOK'
      /\ \A p \in Queues : queue'[p] \subseteq queue[p]
      /\ \A p \in Queues : \A e \in queue'[p] : e.id < next_event_id'[p]
      /\ Kept(h) \in SUBSET Events
      /\ \A e \in Kept(h) : e.id < next_event_id[q]
  BY <1>1, AcceptedTypes
<1>3. /\ request' = Over(h, finished({q}, queue')) /\ disconnect_handler({q})
      /\ handlers' = handlers \ {h} /\ next_handler_id' = next_handler_id
      /\ Receive(h, Kept(h))
      /\ UNCHANGED <<tables, cleaning, sent, notices, retries, told, effects>>
  BY DEF fetch_response
<1>4. next_event_id \in [Queues -> Int] /\ next_event_id' \in [Queues -> Int]
      /\ queue' \in [Queues -> SUBSET Events]
  BY <1>1, <1>2 DEF EventsOK
<1> HIDE DEF q
<1>5. \A i \in Handlers : /\ Sound(finished({q}, queue')[i], next_event_id')
                          /\ i \in handlers => finished({q}, queue')[i].phase # "none"
  <2>1. {q} \in SUBSET Queues /\ ConnectionsOK /\ RequestInv
    BY <1>2
  <2>2. \A p \in Queues : next_event_id[p] <= next_event_id'[p]
    BY <1>1, <1>4
  <2> QED
    BY <1>2, <1>4, <2>1, <2>2, FinishedAnswers
<1>6. \A i \in Handlers : finished({q}, queue')[i] \in RequestType
  BY <1>2, <1>4, FinishedTypes
<1>7. finished({q}, queue') = [i \in Handlers |-> finished({q}, queue')[i]]
  BY DEF finished
<1>8. /\ request' \in [Handlers -> RequestType]
      /\ request'[h] = NoRequest
      /\ \A i \in Handlers \ {h} : request'[i] = finished({q}, queue')[i]
  <2> DEFINE F == finished({q}, queue')
  <2>1. F \in [Handlers -> RequestType]
    BY <1>6, <1>7
  <2>2. request' = [F EXCEPT ![h] = NoRequest]
    BY <1>3 DEF Over
  <2> HIDE DEF F
  <2>3. /\ request' \in [Handlers -> RequestType]
        /\ request'[h] = NoRequest
        /\ \A i \in Handlers \ {h} : request'[i] = F[i]
    BY <2>1, <2>2, ConstantTypes
  <2> QED
    BY <2>3 DEF F
<1>9. RequestInv'
  <2>1. Sound(NoRequest, next_event_id')
    BY DEF Sound, NoRequest
  <2>2. ASSUME NEW i \in Handlers
        PROVE  Sound(request'[i], next_event_id') /\ (i \in handlers' => request'[i].phase # "none")
    <3>1. CASE i = h
      BY <1>3, <1>8, <2>1, <3>1
    <3>2. CASE i # h
      <4>1. request'[i] = finished({q}, queue')[i]
        BY <1>8, <3>2
      <4> QED
        BY <1>3, <1>5, <4>1
    <3> QED
      BY <3>1, <3>2
  <2> QED
    BY <2>2 DEF RequestInv
<1>10. ConnectionsOK' /\ \A p \in Queues : current_handler_id'[p] # None =>
                           current_handler_id'[p] = current_handler_id[p]
  BY <1>3, <1>8, DisconnectTypes DEF ConnectionsOK
<1>11. got' \in [Queues -> Int] /\ seen' \in [Users -> SUBSET Messages]
  BY <1>2, <1>3, ReceiveTypes DEF q
<1>12. TablesOK' /\ TablesAgree' /\ OutsideOK' /\ EffectsOK'
  BY <1>3, <1>11 DEF TablesOK, TablesAgree, OutsideOK, EffectsOK, tables, effects, retries
<1>13. QueueInv'
  BY <1>1, <1>2, <1>3, <1>10 DEF QueueInv, tables
<1> QED
  BY <1>2, <1>3, <1>9, <1>10, <1>12, <1>13

(***************************************************************************)
(* A handler that a queue waits with has left the Django thread.           *)
(***************************************************************************)
WaiterInv ==
    /\ \A h \in Handlers : request[h].phase # "none" => h < next_handler_id
    /\ \A q \in Queues : current_handler_id[q] # None =>
         /\ current_handler_id[q] < next_handler_id
         /\ request[current_handler_id[q]].phase # "django"

LEMMA ConnectInv ==
    ASSUME ServerInv, WaiterInv, NEW h \in Handlers, connect_handler(h)
    PROVE  ServerInv'
<1> USE DEF ServerInv
<1> DEFINE q == request[h].queue
<1>1. Accepted(h) /\ UNCHANGED next_event_id
  BY DEF connect_handler
<1>2. /\ q \in Queues /\ q \in clients /\ EventsOK'
      /\ \A p \in Queues : queue'[p] \subseteq queue[p]
      /\ \A p \in Queues : \A e \in queue'[p] : e.id < next_event_id'[p]
  BY <1>1, AcceptedTypes
<1>3. /\ request' = [finished({q}, queue') EXCEPT ![h].phase = "waiting"]
      /\ current_handler_id' = [current_handler_id EXCEPT ![q] = h]
      /\ descriptors_by_handler_id' =
           [i \in Handlers |-> IF i = h THEN q
                               ELSE IF Forgets(i, {q}) THEN None
                               ELSE descriptors_by_handler_id[i]]
      /\ old' = old \ {q}
      /\ UNCHANGED <<handlers, next_handler_id, clients, user_clients,
                     realm_clients_all_streams, broken, cleaning, outside, effects>>
  BY DEF connect_handler
<1>4. next_event_id \in [Queues -> Int] /\ next_event_id' \in [Queues -> Int]
      /\ queue' \in [Queues -> SUBSET Events]
  BY <1>1, <1>2 DEF EventsOK
<1>0. request[h].phase = "django"
  BY <1>1 DEF Accepted, InDjango
<1> HIDE DEF q
<1>5. \A i \in Handlers : /\ Sound(finished({q}, queue')[i], next_event_id')
                          /\ i \in handlers => finished({q}, queue')[i].phase # "none"
  <2>1. {q} \in SUBSET Queues /\ ConnectionsOK /\ RequestInv
    BY <1>2
  <2>2. \A p \in Queues : next_event_id[p] <= next_event_id'[p]
    BY <1>1, <1>4
  <2> QED
    BY <1>2, <1>4, <2>1, <2>2, FinishedAnswers
<1>6. \A i \in Handlers : finished({q}, queue')[i] \in RequestType
  BY <1>2, <1>4, FinishedTypes
<1>7. finished({q}, queue') = [i \in Handlers |-> finished({q}, queue')[i]]
  BY DEF finished
<1> DEFINE F == finished({q}, queue')
           r == [F[h] EXCEPT !.phase = "waiting"]
<1>8. /\ F \in [Handlers -> RequestType]
      /\ request' = [F EXCEPT ![h] = r]
  BY <1>3, <1>6, <1>7
<1>9. \/ F[h].queue = q
      \/ F[h] = NoRequest /\ h \notin handlers
  <2>1. {q} \in SUBSET Queues /\ ConnectionsOK /\ RequestInv
    BY <1>2
  <2> QED
    BY <1>4, <2>1, FinishedTypes DEF q
<1>10. \A i \in Handlers : Sound(F[i], next_event_id') /\ (i \in handlers => F[i].phase # "none")
  BY <1>5
<1> HIDE DEF F
<1>11. r \in RequestType /\ r.phase = "waiting" /\ r.queue = F[h].queue /\ r.answer = F[h].answer
  BY <1>8 DEF RequestType
<1>12. F[h].queue = q
  <2>1. request[h].queue = q
    BY DEF q
  <2>2. ~ Waiting(h, {q})
    BY <1>0, <1>2, ConstantTypes DEF Waiting, WaiterInv
  <2> QED
    BY <2>1, <2>2 DEF finished, F
<1>13. request' \in [Handlers -> RequestType] /\ request'[h] = r
       /\ \A i \in Handlers \ {h} : request'[i] = F[i]
  <2> HIDE DEF r
  <2> QED
    BY <1>8, <1>11
<1>14. RequestInv'
  <2>1. Sound(r, next_event_id')
    <3> HIDE DEF r
    <3> QED
      BY <1>2, <1>10, <1>11, <1>12 DEF Sound
  <2> HIDE DEF r
  <2>2. ASSUME NEW i \in Handlers
        PROVE  Sound(request'[i], next_event_id') /\ (i \in handlers' => request'[i].phase # "none")
    <3>1. CASE i = h
      BY <1>11, <1>13, <2>1, <3>1
    <3>2. CASE i # h
      BY <1>3, <1>10, <1>13, <3>2
    <3> QED
      BY <3>1, <3>2
  <2> QED
    BY <2>2 DEF RequestInv
<1>15. ConnectionsOK'
  <2>1. /\ current_handler_id' \in [Queues -> Handlers \cup {None}]
        /\ descriptors_by_handler_id' \in [Handlers -> Queues \cup {None}]
    BY <1>2, <1>3 DEF ConnectionsOK
  <2> QED
    BY <1>3, <1>13, <2>1 DEF ConnectionsOK
<1>16. \A p \in Queues : current_handler_id'[p] # None => p \in clients
  BY <1>2, <1>3 DEF ConnectionsOK, QueueInv
<1>17. TablesOK' /\ TablesAgree' /\ OutsideOK' /\ EffectsOK' /\ cleaning' = cleaning
  BY <1>3 DEF TablesOK, TablesAgree, OutsideOK, EffectsOK, outside, effects
<1>18. QueueInv'
  BY <1>1, <1>2, <1>3, <1>16 DEF QueueInv, outside
<1> QED
  BY <1>2, <1>14, <1>15, <1>17, <1>18

\* an event in the queues S, and what goes with it
LEMMA AddEventInv ==
    ASSUME ServerInv, NEW S \in SUBSET clients,
           NEW body \in [Queues -> [message : Messages \cup {None},
                                    internal : {"none", "pending", "notified"}]],
           add_event(S, body), UNCHANGED <<tables, cleaning>>,
           OutsideOK', EffectsOK',
           sent \ notices \subseteq sent' \ notices',
           \A q \in S : body[q].message # None => body[q].message \in sent' \ notices'
    PROVE  ServerInv'
<1> USE DEF ServerInv
<1>1. /\ EventsOK' /\ ConnectionsOK' /\ RequestInv'
      /\ \A q \in Queues : current_handler_id'[q] # None =>
           current_handler_id'[q] = current_handler_id[q]
      /\ \A q \in clients : next_event_id'[q] \in Nat
      /\ \A q \in Queues : \A e \in queue'[q] :
           /\ e.id < next_event_id'[q]
           /\ e \in queue[q] \/ (q \in S /\ e.message = body[q].message
                                 /\ e.internal = body[q].internal)
      /\ \A q \in Queues \ S : queue'[q] = queue[q]
  BY AddEventTypes
<1>2. TablesOK' /\ TablesAgree'
  BY DEF TablesOK, TablesAgree, tables
<1>3. QueueInv'
  BY <1>1 DEF QueueInv, tables
<1> QED
  BY <1>1, <1>2, <1>3

LEMMA TimeoutInv ==
    ASSUME ServerInv, NEW q \in Queues, timeout_callback(q)
    PROVE  ServerInv'
<1> USE DEF ServerInv, timeout_callback
<1>1. {q} \in SUBSET clients
  BY DEF QueueInv
<1>2. OutsideOK' /\ EffectsOK' /\ sent \ notices \subseteq sent' \ notices'
  BY DEF OutsideOK, EffectsOK, outside, effects
<1>3. Heartbeat[q].message = None
  BY DEF Heartbeat
<1> QED
  BY <1>1, <1>2, <1>3, ConstantTypes, AddEventInv

LEMMA FinishInv ==
    ASSUME ServerInv, NEW h \in Handlers, zulip_finish(h)
    PROVE  ServerInv'
<1> USE DEF ServerInv, zulip_finish
<1>1. ConnectionsOK' /\ RequestInv'
  BY ConstantTypes DEF ConnectionsOK, RequestInv, Sound, Over, NoRequest, events
<1>2. /\ request[h].queue \in Queues /\ request[h].answer \in SUBSET Events
      /\ \A e \in request[h].answer : e.id < next_event_id[request[h].queue]
  BY DEF ConnectionsOK, RequestInv, Sound, RequestType
<1>3. got' \in [Queues -> Int] /\ seen' \in [Users -> SUBSET Messages]
  BY <1>2, ReceiveTypes
<1>4. TablesOK' /\ TablesAgree' /\ OutsideOK' /\ EffectsOK'
  BY <1>3 DEF TablesOK, TablesAgree, OutsideOK, EffectsOK, tables, effects, retries
<1> QED
  BY <1>1, <1>4, KeptInv DEF QueueInv, tables

LEMMA CloseInv ==
    ASSUME ServerInv, NEW h \in Handlers, on_connection_close(h)
    PROVE  ServerInv'
<1> USE DEF ServerInv, on_connection_close
<1>1. request' \in [Handlers -> RequestType] /\ RequestInv'
  BY ConstantTypes DEF ConnectionsOK, RequestInv, Sound, Over, NoRequest, events
<1>2. ConnectionsOK' /\ \A q \in Queues : current_handler_id'[q] # None =>
                          current_handler_id'[q] = current_handler_id[q]
  BY <1>1, DisconnectTypes DEF ConnectionsOK
<1>3. TablesOK' /\ TablesAgree' /\ OutsideOK' /\ EffectsOK'
  BY DEF TablesOK, TablesAgree, OutsideOK, EffectsOK, tables, outside, effects
<1> QED
  BY <1>1, <1>2, <1>3, KeptInv DEF QueueInv, tables, outside

LEMMA GcInv ==
    ASSUME ServerInv, gc_event_queues
    PROVE  ServerInv'
<1> USE DEF ServerInv
<1> DEFINE S == {q \in clients : expired(q)}
<1>1. /\ do_gc_event_queues(S)
      /\ UNCHANGED <<next_event_id, connections, cleaning, outside>>
  BY DEF gc_event_queues
<1>2. ConnectionsOK' /\ RequestInv'
  BY <1>1 DEF ConnectionsOK, RequestInv, connections
<1>3. \A q \in Queues : current_handler_id'[q] # None =>
        current_handler_id[q] # None /\ q \notin S
  BY <1>1 DEF expired, connections
<1>4. S \in SUBSET clients
  OBVIOUS
<1> HIDE DEF S
<1> QED
  BY <1>1, <1>2, <1>3, <1>4, CollectInv

LEMMA CleanupInv ==
    ASSUME ServerInv, cleanup
    PROVE  ServerInv'
<1> USE DEF ServerInv
<1>1. CASE cleaning \in clients
  <2>1. /\ finish_current_handler({cleaning}, queue)
        /\ do_gc_event_queues({cleaning})
        /\ UNCHANGED <<next_event_id, outside>> /\ cleaning' = None
    BY <1>1 DEF cleanup
  <2>2. /\ {cleaning} \in SUBSET clients /\ {cleaning} \in SUBSET Queues
        /\ queue \in [Queues -> SUBSET Events] /\ next_event_id \in [Queues -> Int]
    BY <1>1 DEF TablesOK, EventsOK
  <2>3. \A q \in Queues : \A e \in queue[q] : e.id < next_event_id'[q]
    BY <2>1 DEF QueueInv
  <2>4. \A q \in Queues : next_event_id[q] <= next_event_id'[q]
    BY <2>1, <2>2
  <2>5. /\ ConnectionsOK' /\ RequestInv'
        /\ \A q \in Queues : current_handler_id'[q] # None =>
             current_handler_id'[q] = current_handler_id[q]
    BY <2>1, <2>2, <2>3, <2>4, FinishTypes
  <2>6. \A q \in Queues : current_handler_id'[q] # None =>
          current_handler_id[q] # None /\ q \notin {cleaning}
    BY <2>1, <2>5 DEF finish_current_handler, disconnect_handler
  <2> QED
    BY <2>1, <2>2, <2>5, <2>6, CollectInv
<1>2. CASE cleaning \notin clients
  <2>1. ConnectionsOK' /\ RequestInv' /\ cleaning' = None
    BY <1>2 DEF cleanup, ConnectionsOK, RequestInv, connections, events
  <2>2. TablesOK' /\ TablesAgree' /\ OutsideOK' /\ EffectsOK'
    BY <1>2 DEF cleanup, TablesOK, TablesAgree, OutsideOK, EffectsOK, tables, outside, effects
  <2> QED
    BY <1>2, <2>1, <2>2, KeptInv DEF cleanup, QueueInv, tables, outside, connections
<1> QED
  BY <1>1, <1>2

LEMMA ElsewhereInv ==
    ASSUME ServerInv, UNCHANGED <<clients, user_clients, realm_clients_all_streams, broken>>,
           UNCHANGED <<events, connections>>, OutsideOK', EffectsOK',
           old' \subseteq clients, cleaning' \in Queues \cup {None},
           sent \ notices \subseteq sent' \ notices'
    PROVE  ServerInv'
BY DEF ServerInv, TablesOK, TablesAgree, EventsOK, ConnectionsOK, QueueInv, RequestInv,
       events, connections

LEMMA ProcessInv ==
    ASSUME ServerInv, NEW m \in Messages, NEW idle \in SUBSET Users,
           process_message_event(m, idle)
    PROVE  ServerInv'
<1> USE DEF ServerInv
<1> DEFINE N == {u \in Recipients[m] : receiver_is_off_zulip(u) \/ u \in idle}
           S == Receivers(m)
           body == Body(m, N)
<1>1. /\ m \in notices /\ Notify(Once(m, N)) /\ notices' = notices \ {m}
      /\ add_event(S, body)
      /\ UNCHANGED <<tables, cleaning, sent, told, got, seen, failures, retries>>
  BY DEF process_message_event
<1>2. S \in SUBSET clients
  BY DEF Receivers, get_client_info_for_message_event, TablesAgree
<1>3. body \in [Queues -> [message : Messages \cup {None},
                           internal : {"none", "pending", "notified"}]]
  BY DEF Body
<1>4. \A q \in Queues : body[q].message = m
  BY DEF Body
<1>5. \A u \in Users, i \in Messages : Once(m, N)[u][i] \in Nat
  BY DEF Once
<1>6. EffectsOK'
  BY <1>1, <1>5, NotifyTypes DEF EffectsOK
<1>7. OutsideOK' /\ sent \ notices \subseteq sent' \ notices' /\ m \in sent' \ notices'
  BY <1>1 DEF OutsideOK, retries
<1>8. \A q \in S : body[q].message # None => body[q].message \in sent' \ notices'
  BY <1>2, <1>4, <1>7 DEF TablesOK
<1> HIDE DEF N, S, body
<1> QED
  BY <1>1, <1>2, <1>3, <1>6, <1>7, <1>8, AddEventInv

\* a notice that failed comes again, or is dropped
LEMMA RetryTypes ==
    ASSUME OutsideOK, NEW m \in notices, retry_event(m), UNCHANGED <<sent, told, got, seen>>
    PROVE  /\ OutsideOK' /\ sent \ notices \subseteq sent' \ notices'
           /\ sent' \ (notices' \cup dropped') \subseteq sent \ (notices \cup dropped)
<1>1. failed_tries' \in [Messages -> 0 .. MAX_REQUEST_RETRIES]
  <2>1. failed_tries[m] \in 0 .. MAX_REQUEST_RETRIES
    BY DEF OutsideOK
  <2>2. CASE failed_tries[m] < MAX_REQUEST_RETRIES
    <3>1. failed_tries[m] + 1 \in 0 .. MAX_REQUEST_RETRIES
      BY <2>1, <2>2
    <3>2. failed_tries' \in {failed_tries,
                            [failed_tries EXCEPT ![m] = failed_tries[m] + 1]}
      BY <2>2 DEF retry_event
    <3> QED
      BY <3>1, <3>2 DEF OutsideOK
  <2>3. CASE ~ (failed_tries[m] < MAX_REQUEST_RETRIES)
    BY <2>3 DEF retry_event, OutsideOK
  <2> QED
    BY <2>2, <2>3
<1>2. \/ UNCHANGED <<notices, dropped>>
      \/ notices' = notices \ {m} /\ dropped' = dropped \cup {m}
  BY DEF retry_event
<1> QED
  BY <1>1, <1>2 DEF OutsideOK

LEMMA ProcessFailsInv ==
    ASSUME ServerInv, NEW m \in Messages, NEW idle \in SUBSET Users,
           process_message_fails(m, idle)
    PROVE  ServerInv'
<1> DEFINE N == {u \in Recipients[m] : receiver_is_off_zulip(u) \/ u \in idle}
<1>1. PICK done \in SUBSET N : Notify(Once(m, done))
  BY DEF process_message_fails
<1>2. \A u \in Users, i \in Messages : Once(m, done)[u][i] \in Nat
  BY DEF Once
<1>3. EffectsOK'
  BY <1>1, <1>2, NotifyTypes DEF process_message_fails, ServerInv, EffectsOK
<1>4. OutsideOK' /\ sent \ notices \subseteq sent' \ notices'
  BY RetryTypes DEF process_message_fails, ServerInv
<1> QED
  BY <1>3, <1>4, ElsewhereInv DEF process_message_fails, ServerInv, TablesOK, tables

(***************************************************************************)
(* Every step, and what follows.                                           *)
(***************************************************************************)
LEMMA WaiterKnown ==
    ASSUME WaiterInv, NEW h \in Handlers,
           request[h].phase # "none" \/ (\E q \in Queues : current_handler_id[q] = h)
    PROVE  h < next_handler_id
<1>1. h # None
  BY ConstantTypes
<1> QED
  BY <1>1 DEF WaiterInv

LEMMA WaiterKept ==
    ASSUME ServerInv, WaiterInv, next_handler_id' = next_handler_id,
           \A h \in Handlers :
             /\ request'[h].phase = "none" \/ request[h].phase # "none"
                  \/ \E q \in Queues : current_handler_id[q] = h
             /\ request'[h].phase = "django" => request[h].phase = "django",
           \A q \in Queues : current_handler_id'[q] # None =>
             current_handler_id'[q] = current_handler_id[q]
    PROVE  WaiterInv'
<1>1. \A q \in Queues : current_handler_id[q] # None => current_handler_id[q] \in Handlers
  BY DEF ServerInv, ConnectionsOK
<1>2. \A h \in Handlers : request'[h].phase # "none" => h < next_handler_id'
  BY WaiterKnown
<1>3. ASSUME NEW q \in Queues, current_handler_id'[q] # None
      PROVE  /\ current_handler_id'[q] < next_handler_id'
             /\ request'[current_handler_id'[q]].phase # "django"
  BY <1>1, <1>3 DEF WaiterInv
<1> QED
  BY <1>2, <1>3 DEF WaiterInv

LEMMA FinishWaiter ==
    ASSUME ServerInv, WaiterInv, NEW S \in SUBSET Queues, NEW held,
           held \in [Queues -> SUBSET Events], finish_current_handler(S, held)
    PROVE  WaiterInv'
<1>1. request' = finished(S, held) /\ disconnect_handler(S)
      /\ next_handler_id' = next_handler_id
  BY DEF finish_current_handler
<1>2. \A h \in Handlers :
        /\ request'[h].phase = "none" \/ request[h].phase # "none"
             \/ \E q \in Queues : current_handler_id[q] = h
        /\ request'[h].phase = "django" => request[h].phase = "django"
  <2> TAKE h \in Handlers
  <2>1. CASE request'[h] = request[h]
    BY <2>1
  <2>2. CASE request'[h] = NoRequest
    BY <2>2 DEF NoRequest
  <2>3. CASE h \in handlers /\ request'[h].phase = "finishing"
    BY <2>3 DEF ServerInv, RequestInv
  <2> QED
    BY <1>1, <2>1, <2>2, <2>3, FinishedTypes DEF ServerInv
<1> QED
  BY <1>1, <1>2, WaiterKept, DisconnectTypes DEF ServerInv

LEMMA WaiterStep == ServerInv /\ WaiterInv /\ [Next]_vars => WaiterInv'
<1> SUFFICES ASSUME ServerInv, WaiterInv, [Next]_vars PROVE WaiterInv'
  OBVIOUS
<1> USE DEF ServerInv
<1>0. UNCHANGED connections => WaiterInv'
  BY DEF WaiterInv, connections
<1>1. CASE gc_event_queues
  BY <1>0, <1>1 DEF gc_event_queues
<1>2. CASE cleanup
  <2>1. CASE cleaning \in clients
    <3>1. {cleaning} \in SUBSET Queues /\ queue \in [Queues -> SUBSET Events]
      BY <2>1 DEF TablesOK, EventsOK
    <3> QED
      BY <1>2, <2>1, <3>1, FinishWaiter DEF cleanup
  <2>2. CASE cleaning \notin clients
    BY <1>0, <1>2, <2>2 DEF cleanup
  <2> QED
    BY <2>1, <2>2
<1>3. ASSUME NEW h \in Handlers, fetch_error(h) PROVE WaiterInv'
  BY <1>3, WaiterKept DEF fetch_error, Over, NoRequest, ConnectionsOK
<1>4. ASSUME NEW h \in Handlers, fetch_response(h) PROVE WaiterInv'
  <2> DEFINE q == request[h].queue
  <2>1. /\ request' = Over(h, finished({q}, queue')) /\ disconnect_handler({q})
        /\ next_handler_id' = next_handler_id
    BY <1>4 DEF fetch_response
  <2>2. q \in Queues /\ queue' \in [Queues -> SUBSET Events]
    BY <1>4, AcceptedTypes DEF fetch_response, EventsOK
  <2> HIDE DEF q
  <2>3. ASSUME NEW i \in Handlers
        PROVE  /\ request'[i].phase = "none" \/ request[i].phase # "none"
                    \/ \E p \in Queues : current_handler_id[p] = i
               /\ request'[i].phase = "django" => request[i].phase = "django"
    <3>1. CASE i = h
      BY <2>1, <3>1 DEF Over, NoRequest, finished
    <3>2. CASE i # h
      <4>1. request'[i] = finished({q}, queue')[i]
        BY <2>1, <3>2 DEF Over
      <4>2. CASE request'[i] = request[i]
        BY <4>2
      <4>3. CASE request'[i] = NoRequest
        BY <4>3 DEF NoRequest
      <4>4. CASE i \in handlers /\ request'[i].phase = "finishing"
        BY <4>4 DEF RequestInv
      <4>5. {q} \in SUBSET Queues
        BY <2>2
      <4> QED
        BY <2>2, <4>1, <4>2, <4>3, <4>4, <4>5, FinishedTypes
    <3> QED
      BY <3>1, <3>2
  <2> QED
    BY <2>1, <2>3, WaiterKept, DisconnectTypes
<1>5. ASSUME NEW h \in Handlers, connect_handler(h) PROVE WaiterInv'
  <2> DEFINE q == request[h].queue
  <2>1. /\ request' = [finished({q}, queue') EXCEPT ![h].phase = "waiting"]
        /\ current_handler_id' = [current_handler_id EXCEPT ![q] = h]
        /\ next_handler_id' = next_handler_id
        /\ request[h].phase = "django"
    BY <1>5 DEF connect_handler, Accepted, InDjango
  <2>2. q \in Queues /\ queue' \in [Queues -> SUBSET Events]
    BY <1>5, AcceptedTypes DEF connect_handler, EventsOK
  <2> HIDE DEF q
  <2> DEFINE F == finished({q}, queue')
             r == [F[h] EXCEPT !.phase = "waiting"]
  <2>3. {q} \in SUBSET Queues
    BY <2>2
  <2>4. /\ F \in [Handlers -> RequestType]
        /\ request' = [F EXCEPT ![h] = r]
    <3>1. F = [i \in Handlers |-> F[i]]
      BY DEF finished
    <3> QED
      BY <2>1, <2>2, <2>3, <3>1, FinishedTypes
  <2>5. ASSUME NEW i \in Handlers
        PROVE  /\ F[i].phase = "none" \/ request[i].phase # "none"
                    \/ \E p \in Queues : current_handler_id[p] = i
               /\ F[i].phase = "django" => request[i].phase = "django"
    <3> HIDE DEF F
    <3>1. CASE F[i] = request[i]
      BY <3>1
    <3>2. CASE F[i] = NoRequest
      BY <3>2 DEF NoRequest
    <3>3. CASE i \in handlers /\ F[i].phase = "finishing"
      BY <3>3 DEF RequestInv
    <3> QED
      BY <2>2, <2>3, <3>1, <3>2, <3>3, FinishedTypes DEF F
  <2> HIDE DEF F
  <2>6. F[h] \in RequestType
    BY <2>4
  <2>7. r \in RequestType /\ r.phase = "waiting"
    BY <2>6 DEF RequestType
  <2> HIDE DEF r
  <2>8. /\ request'[h].phase = "waiting"
        /\ \A i \in Handlers \ {h} : request'[i] = F[i]
    BY <2>4, <2>7
  <2>9. \A i \in Handlers : request'[i].phase # "none" => i < next_handler_id'
    <3>1. \A i \in Handlers : F[i].phase # "none" => i < next_handler_id
      BY <2>5, WaiterKnown
    <3>2. h < next_handler_id
      BY <2>1, WaiterKnown
    <3> QED
      BY <2>1, <2>8, <3>1, <3>2
  <2>10. ASSUME NEW p \in Queues, current_handler_id'[p] # None
         PROVE  /\ current_handler_id'[p] < next_handler_id'
                /\ request'[current_handler_id'[p]].phase # "django"
    <3>1. CASE p = q
      BY <2>1, <2>2, <2>8, <3>1 DEF WaiterInv, ConnectionsOK
    <3>2. CASE p # q
      <4>1. current_handler_id'[p] = current_handler_id[p] /\ current_handler_id[p] \in Handlers
        BY <2>1, <2>10, <3>2 DEF ConnectionsOK
      <4>2. current_handler_id[p] # h
        BY <2>1, <2>10, <4>1 DEF WaiterInv
      <4> QED
        <5> DEFINE i == current_handler_id[p]
        <5>1. i \in Handlers \ {h} /\ i < next_handler_id /\ request[i].phase # "django"
          BY <2>10, <4>1, <4>2 DEF WaiterInv
        <5>2. request'[i].phase # "django"
          <6> HIDE DEF i
          <6> QED
            BY <2>5, <2>8, <5>1
        <5> QED
          BY <2>1, <4>1, <5>1, <5>2
    <3> QED
      BY <3>1, <3>2
  <2> QED
    BY <2>9, <2>10 DEF WaiterInv
<1>6. ASSUME NEW h \in Handlers, zulip_finish(h) PROVE WaiterInv'
  BY <1>6, WaiterKept DEF zulip_finish, Over, NoRequest, ConnectionsOK
<1>7. ASSUME NEW h \in Handlers, on_connection_close(h) PROVE WaiterInv'
  BY <1>7, WaiterKept, DisconnectTypes DEF on_connection_close, Over, NoRequest, ConnectionsOK
<1>8. ASSUME NEW q \in Queues, timeout_callback(q) PROVE WaiterInv'
  <2>1. {q} \in SUBSET clients /\ {q} \in SUBSET Queues
    BY <1>8 DEF timeout_callback, QueueInv
  <2>2. queue' \in [Queues -> SUBSET Events]
    BY <1>8, <2>1, ConstantTypes, AddEventTypes DEF timeout_callback, EventsOK
  <2> QED
    BY <1>8, <2>1, <2>2, FinishWaiter DEF timeout_callback, add_event
<1>9. ASSUME NEW m \in Messages, NEW idle \in SUBSET Users, process_message_event(m, idle)
      PROVE  WaiterInv'
  <2> DEFINE N == {u \in Recipients[m] : receiver_is_off_zulip(u) \/ u \in idle}
             S == Receivers(m)
             body == Body(m, N)
  <2>1. add_event(S, body)
    BY <1>9 DEF process_message_event
  <2>2. S \in SUBSET clients /\ S \in SUBSET Queues
    BY DEF Receivers, get_client_info_for_message_event, TablesAgree, TablesOK
  <2>3. body \in [Queues -> [message : Messages \cup {None},
                             internal : {"none", "pending", "notified"}]]
    BY DEF Body
  <2> HIDE DEF N, S, body
  <2>4. queue' \in [Queues -> SUBSET Events]
    BY <2>1, <2>2, <2>3, AddEventTypes DEF EventsOK
  <2> QED
    BY <2>1, <2>2, <2>4, FinishWaiter DEF add_event
<1>10. ASSUME NEW m \in Messages, NEW idle \in SUBSET Users, process_message_fails(m, idle)
       PROVE  WaiterInv'
  BY <1>0, <1>10 DEF process_message_fails
<1>11. ASSUME NEW q \in Queues, initialize(q) PROVE WaiterInv'
  <2> DEFINE r == [phase |-> "django", queue |-> q, last |-> got[q], answer |-> {}]
  <2>1. /\ request' = [request EXCEPT ![next_handler_id] = r]
        /\ next_handler_id' = next_handler_id + 1 /\ next_handler_id < MaxHandlers
        /\ UNCHANGED current_handler_id
    BY <1>11 DEF initialize
  <2>2. next_handler_id \in Handlers
    BY <2>1 DEF Handlers, ConnectionsOK
  <2> HIDE DEF r
  <2>3. \A h \in Handlers : h # next_handler_id => request'[h] = request[h]
    BY <2>1 DEF ConnectionsOK
  <2>4. \A q1 \in Queues : current_handler_id[q1] # None => current_handler_id[q1] \in Handlers
    BY DEF ConnectionsOK
  <2> QED
    <3>1. \A h \in Handlers : request'[h].phase # "none" => h < next_handler_id'
      <4> TAKE h \in Handlers
      <4>1. CASE h = next_handler_id
        BY <2>1, <2>2, <4>1, ConstantTypes
      <4>2. CASE h # next_handler_id
        <5>1. h \in Nat /\ next_handler_id \in Nat
          BY <2>2, ConstantTypes
        <5>2. request[h].phase # "none" => h < next_handler_id
          BY DEF WaiterInv
        <5> QED
          BY <2>1, <2>3, <4>2, <5>1, <5>2
      <4> QED
        BY <4>1, <4>2
    <3>2. ASSUME NEW q1 \in Queues, current_handler_id'[q1] # None
          PROVE  /\ current_handler_id'[q1] < next_handler_id'
                 /\ request'[current_handler_id'[q1]].phase # "django"
      <4>1. /\ current_handler_id[q1] \in Handlers
            /\ current_handler_id[q1] < next_handler_id
            /\ request[current_handler_id[q1]].phase # "django"
        BY <2>1, <2>4, <3>2 DEF WaiterInv
      <4>2. current_handler_id[q1] \in Nat /\ next_handler_id \in Nat
        BY <2>2, <4>1, ConstantTypes
      <4> QED
        BY <2>1, <2>3, <4>1, <4>2
    <3> QED
      BY <3>1, <3>2 DEF WaiterInv
<1>12. ASSUME NEW q \in Queues, cleanup_event_queue(q) \/ TimePasses(q) PROVE WaiterInv'
  BY <1>0, <1>12 DEF cleanup_event_queue, TimePasses
<1>13. ASSUME NEW q \in Queues, NEW heard \in BOOLEAN, allocate_client_descriptor(q, heard)
       PROVE  WaiterInv'
  BY <1>0, <1>13 DEF allocate_client_descriptor
<1>14. ASSUME NEW m \in Messages, send_event(m) PROVE WaiterInv'
  BY <1>0, <1>14 DEF send_event
<1>15. CASE UNCHANGED vars
  BY <1>0, <1>15 DEF vars
<1> QED
  BY <1>1, <1>2, <1>3, <1>4, <1>5, <1>6, <1>7, <1>8, <1>9, <1>10, <1>11, <1>12, <1>13,
     <1>14, <1>15 DEF Next, Loop, Others, fetch_events

LEMMA ServerStep == ServerInv /\ WaiterInv /\ [Next]_vars => ServerInv'
<1> SUFFICES ASSUME ServerInv, WaiterInv, [Next]_vars PROVE ServerInv'
  OBVIOUS
<1>1. ASSUME NEW q \in Queues, cleanup_event_queue(q) PROVE ServerInv'
  BY <1>1, ElsewhereInv
     DEF cleanup_event_queue, ServerInv, TablesOK, OutsideOK, EffectsOK, tables, outside, effects
<1>2. ASSUME NEW q \in Queues, TimePasses(q) PROVE ServerInv'
  BY <1>2, ElsewhereInv
     DEF TimePasses, ServerInv, TablesOK, OutsideOK, EffectsOK, outside, effects
<1>3. ASSUME NEW m \in Messages, send_event(m) PROVE ServerInv'
  BY <1>3, ElsewhereInv
     DEF send_event, ServerInv, TablesOK, OutsideOK, EffectsOK, tables, effects, retries
<1>4. CASE UNCHANGED vars
  BY <1>4, ElsewhereInv
     DEF vars, ServerInv, TablesOK, OutsideOK, EffectsOK, tables, outside, effects
<1> QED
  BY <1>1, <1>2, <1>3, <1>4, GcInv, CleanupInv, FetchErrorInv, FetchResponseInv, ConnectInv,
     FinishInv, CloseInv, TimeoutInv, ProcessInv, ProcessFailsInv, InitializeInv, AllocateInv
     DEF Next, Loop, Others, fetch_events

LEMMA ServerInit == Init => ServerInv /\ WaiterInv
<1> SUFFICES ASSUME Init PROVE ServerInv /\ WaiterInv
  OBVIOUS
<1> USE DEF Init
<1>1. TablesOK /\ EventsOK /\ ConnectionsOK /\ OutsideOK /\ EffectsOK
  BY ConstantTypes DEF TablesOK, EventsOK, ConnectionsOK, OutsideOK, EffectsOK
<1>2. RequestInv /\ WaiterInv
  BY DEF RequestInv, WaiterInv, Sound, NoRequest
<1>3. QueueInv /\ TablesAgree
  BY FS_EmptySet DEF QueueInv, TablesAgree
<1> QED
  BY <1>1, <1>2, <1>3 DEF ServerInv

(***************************************************************************)
(* Every variable keeps its type, whatever the loop, the Django thread and *)
(* the clients do: no lookup in a table of the server fails.               *)
(***************************************************************************)
THEOREM TypeCorrect == Spec => []TypeOK
<1>1. Init => ServerInv /\ WaiterInv
  BY ServerInit
<1>2. ServerInv /\ WaiterInv /\ [Next]_vars => ServerInv' /\ WaiterInv'
  BY ServerStep, WaiterStep
<1>3. ServerInv => TypeOK
  BY TypesFollow
<1> QED
  BY <1>1, <1>2, <1>3, PTL DEF Spec

(***************************************************************************)
(* The lists of a user and of the realm, which get events, and the table   *)
(* of queues, which clients fetch from, agree in every state: only a hook  *)
(* that raises parts them, and only for the queues of its round.           *)
(***************************************************************************)
THEOREM TablesAlwaysAgree == Spec => []TablesAgree
<1>1. Init => ServerInv /\ WaiterInv
  BY ServerInit
<1>2. ServerInv /\ WaiterInv /\ [Next]_vars => ServerInv' /\ WaiterInv'
  BY ServerStep, WaiterStep
<1>3. ServerInv => TablesAgree
  BY DEF ServerInv
<1> QED
  BY <1>1, <1>2, <1>3, PTL DEF Spec

(***************************************************************************)
(* As long as every publish succeeds, the notice of a notified user is     *)
(* processed, and no queue holds it as pending.                            *)
(***************************************************************************)
Settled(u, m) ==
    /\ m \in sent \ notices
    /\ \A q \in Queues : Owner[q] = u =>
         \A e \in queue[q] : e.message = m => e.internal # "pending"

Recorded ==
    failures = 0 => /\ broken = {}
                    /\ \A u \in Users, m \in Messages : notified[u][m] > 0 => Settled(u, m)

NotAgain ==
    \A u \in Users, m \in Messages :
      notified[u][m] > 0 /\ failures' = 0 => notified'[u][m] = notified[u][m]

\* what the queues hold after an event was added
LEMMA AddedEvents ==
    ASSUME NEW S, NEW body, add_event(S, body), NEW q \in Queues, NEW e \in queue'[q]
    PROVE  \/ e \in queue[q]
           \/ e.message = body[q].message /\ e.internal = body[q].internal
<1> DEFINE event == [id |-> next_event_id[q], message |-> body[q].message,
                     internal |-> body[q].internal]
<1>1. queue'[q] = IF q \in S THEN queue[q] \cup {event} ELSE queue[q]
  BY DEF add_event, Pushed
<1>2. event.message = body[q].message /\ event.internal = body[q].internal
  OBVIOUS
<1> HIDE DEF event
<1>3. CASE q \in S
  BY <1>1, <1>2, <1>3
<1>4. CASE q \notin S
  BY <1>1, <1>4
<1> QED
  BY <1>3, <1>4

LEMMA RecordedKept ==
    ASSUME ServerInv, Recorded, UNCHANGED <<effects, broken>>,
           sent \ notices \subseteq sent' \ notices',
           \A q \in Queues : \A e \in queue'[q] : e \in queue[q] \/ e.message = None
    PROVE  Recorded' /\ NotAgain
BY DEF Recorded, Settled, NotAgain, effects

LEMMA RecordedFails ==
    ASSUME ServerInv, failures' = failures + 1
    PROVE  Recorded' /\ NotAgain
<1>1. failures' # 0
  BY DEF ServerInv, EffectsOK
<1> QED
  BY <1>1 DEF Recorded, NotAgain

LEMMA CollectRecords ==
    ASSUME ServerInv, Recorded, NEW S \in SUBSET clients, do_gc_event_queues(S),
           UNCHANGED <<sent, notices>>
    PROVE  Recorded' /\ NotAgain
<1> USE DEF ServerInv
<1>1. CASE failures' = failures + 1
  BY <1>1, RecordedFails
<1>2. CASE failures' = failures
  <2> SUFFICES ASSUME failures = 0 PROVE Recorded' /\ NotAgain
    BY <1>2, NotifyTypes DEF Recorded, NotAgain
  <2>1. /\ broken = {}
        /\ \A u \in Users, m \in Messages : notified[u][m] > 0 => Settled(u, m)
    BY DEF Recorded
  <2>2. /\ Remove(S) /\ broken' = broken \ S
        /\ Notify([u \in Users |-> [m \in Messages |-> MissedBy(u, m, S, S)]])
    BY <1>2 DEF do_gc_event_queues
  <2>3. /\ clients' = clients \ S
        /\ \A q \in Queues : queue'[q] \subseteq queue[q] /\ (q \in S => queue'[q] = {})
    BY <2>2 DEF Remove
  <2> DEFINE count == [u \in Users |-> [m \in Messages |-> MissedBy(u, m, S, S)]]
  <2>4. \A u \in Users, m \in Messages : count[u][m] = MissedBy(u, m, S, S)
    OBVIOUS
  <2>5. \A u \in Users, m \in Messages : count[u][m] \in Nat
    BY MissedCount
  <2> HIDE DEF count
  <2>6. \A u \in Users, m \in Messages :
          count[u][m] = 0 => notified'[u][m] = notified[u][m]
    BY <2>2, <2>5, NotifyTypes DEF count
  <2>7. ASSUME NEW u \in Users, NEW m \in Messages, count[u][m] # 0
        PROVE  ~ (notified[u][m] > 0) /\ Settled(u, m)'
    <3>1. PICK q \in S : Owner[q] = u /\ m \in Missed(q, S)
      BY <2>4, <2>7, MissedCount
    <3>2. PICK e \in queue[q] : e.internal = "pending" /\ e.message = m
      BY <3>1 DEF Missed
    <3>3. q \in Queues /\ m # None
      BY <3>1 DEF TablesOK
    <3>4. m \in sent \ notices
      BY <3>2, <3>3 DEF QueueInv
    <3>5. ~ Settled(u, m)
      BY <3>1, <3>2, <3>3 DEF Settled
    <3>6. user_clients[u] \ S = {}
      BY <3>1 DEF Missed, Left
    <3>7. user_clients[u] = {p \in clients : Owner[p] = u}
      BY <2>1 DEF TablesAgree
    <3>8. \A p \in Queues : Owner[p] = u => queue'[p] = {}
      BY <2>3, <3>6, <3>7 DEF QueueInv
    <3> QED
      BY <2>1, <3>4, <3>5, <3>8 DEF Settled
  <2>8. ASSUME NEW u \in Users, NEW m \in Messages, Settled(u, m)
        PROVE  Settled(u, m)'
    BY <2>3, <2>8 DEF Settled
  <2>9. broken' = {}
    BY <2>1, <2>2
  <2>10. \A u \in Users, m \in Messages : notified'[u][m] > 0 => Settled(u, m)'
    BY <2>1, <2>6, <2>7, <2>8
  <2>11. NotAgain
    BY <2>6, <2>7 DEF NotAgain
  <2> QED
    BY <2>9, <2>10, <2>11 DEF Recorded
<1> QED
  BY <1>1, <1>2 DEF do_gc_event_queues

LEMMA ProcessRecords ==
    ASSUME ServerInv, Recorded, NEW m \in Messages, NEW idle \in SUBSET Users,
           process_message_event(m, idle)
    PROVE  Recorded' /\ NotAgain
<1> USE DEF ServerInv
<1>1. PICK N \in SUBSET Users, S \in SUBSET clients,
           body \in [Queues -> [message : Messages \cup {None},
                                internal : {"none", "pending", "notified"}]] :
        /\ Notify(Once(m, N)) /\ add_event(S, body)
        /\ \A q \in Queues : /\ body[q].message = m
                             /\ body[q].internal = "pending" => Owner[q] \notin N
  <2> DEFINE N == {u \in Recipients[m] : receiver_is_off_zulip(u) \/ u \in idle}
             S == Receivers(m)
             body == Body(m, N)
  <2>1. Notify(Once(m, N)) /\ add_event(S, body)
    BY DEF process_message_event
  <2>2. N \in SUBSET Users /\ S \in SUBSET clients
    BY DEF Receivers, get_client_info_for_message_event, TablesAgree
  <2>3. body \in [Queues -> [message : Messages \cup {None},
                             internal : {"none", "pending", "notified"}]]
    BY DEF Body
  <2>4. \A q \in Queues : /\ body[q].message = m
                          /\ body[q].internal = "pending" => Owner[q] \notin N
    BY DEF Body
  <2> HIDE DEF N, S, body
  <2> QED
    BY <2>1, <2>2, <2>3, <2>4
<1>2. /\ m \in notices /\ notices' = notices \ {m}
      /\ UNCHANGED <<tables, cleaning, sent, told, got, seen, failures, retries>>
  BY DEF process_message_event
<1>3. \A u \in Users, i \in Messages :
        /\ Once(m, N)[u][i] \in Nat
        /\ Once(m, N)[u][i] # 0 => i = m /\ u \in N
  BY DEF Once
<1>4. ASSUME NEW q \in Queues, NEW e \in queue'[q], e \notin queue[q]
      PROVE  e.message = m /\ (e.internal = "pending" => Owner[q] \notin N)
  <2>0. /\ S \in SUBSET clients /\ add_event(S, body)
        /\ body \in [Queues -> [message : Messages \cup {None},
                                internal : {"none", "pending", "notified"}]]
    BY <1>1
  <2>1. \/ e \in queue[q]
        \/ e.message = body[q].message /\ e.internal = body[q].internal
    BY <2>0, AddedEvents
  <2>2. e.message = body[q].message /\ e.internal = body[q].internal
    BY <1>4, <2>1
  <2> QED
    BY <1>1, <2>2
<1>5. \A u \in Users, i \in Messages :
        ~ (i = m /\ u \in N) => notified'[u][i] = notified[u][i]
  BY <1>1, <1>3, NotifyTypes
<1> SUFFICES ASSUME failures = 0 PROVE Recorded' /\ NotAgain
  BY <1>2 DEF Recorded, NotAgain
<1>6. /\ broken = {}
      /\ \A u \in Users, i \in Messages : notified[u][i] > 0 => Settled(u, i)
  BY DEF Recorded
<1>7. NotAgain
  <2>1. \A u \in Users : ~ (notified[u][m] > 0)
    BY <1>2, <1>6 DEF Settled
  <2> QED
    BY <1>5, <2>1 DEF NotAgain
<1>8. ASSUME NEW u \in Users, NEW i \in Messages, i # m, Settled(u, i)
       PROVE  Settled(u, i)'
  <2>1. i \in sent' \ notices'
    BY <1>2, <1>8 DEF Settled
  <2>2. ASSUME NEW q \in Queues, Owner[q] = u, NEW e \in queue'[q], e.message = i
        PROVE  e.internal # "pending"
    <3>1. e \in queue[q]
      BY <1>4, <1>8, <2>2
    <3> QED
      BY <1>8, <2>2, <3>1 DEF Settled
  <2> QED
    BY <2>1, <2>2 DEF Settled
<1>9. ASSUME NEW u \in N PROVE Settled(u, m)'
  <2>1. m \in sent' \ notices'
    BY <1>2 DEF OutsideOK
  <2>2. ASSUME NEW q \in Queues, Owner[q] = u, NEW e \in queue'[q], e.message = m
        PROVE  e.internal # "pending"
    <3>1. e \notin queue[q]
      BY <1>2, <2>2 DEF QueueInv
    <3> QED
      BY <1>4, <1>9, <2>2, <3>1
  <2> QED
    BY <2>1, <2>2 DEF Settled
<1>10. ASSUME NEW u \in Users, NEW i \in Messages, notified'[u][i] > 0
       PROVE  Settled(u, i)'
  <2>1. CASE i = m /\ u \in N
    BY <1>9, <2>1
  <2>2. CASE ~ (i = m /\ u \in N)
    <3>1. Settled(u, i)
      BY <1>5, <1>6, <1>10, <2>2
    <3>2. i # m
      BY <1>2, <3>1 DEF Settled
    <3> QED
      BY <1>8, <3>1, <3>2
  <2> QED
    BY <2>1, <2>2
<1> QED
  BY <1>2, <1>6, <1>7, <1>10 DEF Recorded, tables

LEMMA RecordedStep == ServerInv /\ Recorded /\ [Next]_vars => Recorded' /\ NotAgain
<1> SUFFICES ASSUME ServerInv, Recorded, [Next]_vars PROVE Recorded' /\ NotAgain
  OBVIOUS
<1>0. UNCHANGED <<queue, sent, notices, broken, effects>> => Recorded' /\ NotAgain
  BY RecordedKept
<1>1. CASE gc_event_queues
  <2> DEFINE S == {q \in clients : expired(q)}
  <2>1. do_gc_event_queues(S) /\ UNCHANGED <<sent, notices>>
    BY <1>1 DEF gc_event_queues, outside
  <2>2. S \in SUBSET clients
    OBVIOUS
  <2> HIDE DEF S
  <2> QED
    BY <2>1, <2>2, CollectRecords
<1>2. CASE cleanup
  <2>1. CASE cleaning \in clients
    <3>1. do_gc_event_queues({cleaning}) /\ UNCHANGED <<sent, notices>>
      BY <1>2, <2>1 DEF cleanup, outside
    <3>2. {cleaning} \in SUBSET clients
      BY <2>1
    <3> QED
      BY <3>1, <3>2, CollectRecords
  <2>2. CASE cleaning \notin clients
    BY <1>0, <1>2, <2>2 DEF cleanup, tables, events, outside
  <2> QED
    BY <2>1, <2>2
<1>3. ASSUME NEW h \in Handlers, fetch_error(h) PROVE Recorded' /\ NotAgain
  BY <1>0, <1>3 DEF fetch_error, tables, events, outside
<1>4. ASSUME NEW h \in Handlers, fetch_response(h) \/ connect_handler(h)
      PROVE  Recorded' /\ NotAgain
  <2>1. Accepted(h) /\ UNCHANGED next_event_id
        /\ UNCHANGED <<sent, notices, broken, effects>>
    BY <1>4 DEF fetch_response, connect_handler, tables, outside
  <2>2. \A q \in Queues : queue'[q] \subseteq queue[q]
    BY <2>1, AcceptedTypes
  <2> QED
    BY <2>1, <2>2, RecordedKept
<1>5. ASSUME NEW h \in Handlers, zulip_finish(h) \/ on_connection_close(h)
      PROVE  Recorded' /\ NotAgain
  BY <1>0, <1>5 DEF zulip_finish, on_connection_close, tables, events, outside
<1>6. ASSUME NEW q \in Queues, timeout_callback(q) PROVE Recorded' /\ NotAgain
  <2>1. {q} \in SUBSET clients /\ add_event({q}, Heartbeat)
        /\ UNCHANGED <<sent, notices, broken, effects>>
    BY <1>6 DEF timeout_callback, ServerInv, QueueInv, tables, outside
  <2>2. Heartbeat[q].message = None
    BY DEF Heartbeat
  <2>3. PICK S \in SUBSET clients,
             body \in [Queues -> [message : Messages \cup {None},
                                 internal : {"none", "pending", "notified"}]] :
          body[q].message = None /\ add_event(S, body)
    BY <2>1, <2>2, ConstantTypes
  <2>4. ASSUME NEW p \in Queues, NEW e \in queue'[p]
        PROVE  e \in queue[p] \/ e.message = None
    <3>1. p # q => queue'[p] = queue[p]
      BY <2>1 DEF add_event, Pushed
    <3>2. \/ e \in queue[p]
          \/ e.message = body[p].message /\ e.internal = body[p].internal
      BY <2>3, AddedEvents
    <3>3. CASE p = q
      BY <2>3, <3>2, <3>3
    <3>4. CASE p # q
      BY <3>1, <3>4
    <3> QED
      BY <3>3, <3>4
  <2> QED
    BY <2>1, <2>4, RecordedKept
<1>7. ASSUME NEW m \in Messages, NEW idle \in SUBSET Users, process_message_fails(m, idle)
      PROVE  Recorded' /\ NotAgain
  BY <1>7, RecordedFails DEF process_message_fails
<1>8. ASSUME NEW q \in Queues, initialize(q) \/ cleanup_event_queue(q) \/ TimePasses(q)
      PROVE  Recorded' /\ NotAgain
  BY <1>0, <1>8 DEF initialize, cleanup_event_queue, TimePasses, tables, events, outside
<1>9. ASSUME NEW q \in Queues, NEW heard \in BOOLEAN, allocate_client_descriptor(q, heard)
      PROVE  Recorded' /\ NotAgain
  BY <1>0, <1>9 DEF allocate_client_descriptor
<1>10. ASSUME NEW m \in Messages, send_event(m) PROVE Recorded' /\ NotAgain
  <2>1. UNCHANGED <<effects, broken, queue>> /\ sent \ notices \subseteq sent' \ notices'
    BY <1>10 DEF send_event, tables, events
  <2> QED
    BY <2>1, RecordedKept
<1>11. CASE UNCHANGED vars
  BY <1>0, <1>11 DEF vars, tables, events, outside
<1> QED
  BY <1>1, <1>2, <1>3, <1>4, <1>5, <1>6, <1>7, <1>8, <1>9, <1>10, <1>11, ProcessRecords
     DEF Next, Loop, Others, fetch_events

(***************************************************************************)
(* Nobody is notified of a message again as long as every publish          *)
(* succeeds: neither by another queue's last rites, nor by a cleanup after *)
(* the collection, nor by the notice after the hook.                       *)
(***************************************************************************)
THEOREM NobodyIsNotifiedAgain == Spec => NotifiedBefore
<1>1. Init => ServerInv /\ WaiterInv /\ Recorded
  <2>1. Init => Recorded
    BY DEF Init, Recorded
  <2> QED
    BY <2>1, ServerInit
<1>2. ServerInv /\ WaiterInv /\ Recorded /\ [Next]_vars
        => ServerInv' /\ WaiterInv' /\ Recorded'
  BY ServerStep, WaiterStep, RecordedStep
<1>3. ServerInv /\ Recorded /\ [Next]_vars
        => [\A u \in Users, m \in Messages :
              notified[u][m] > 0 /\ failures' = 0 => notified'[u][m] = notified[u][m]]_vars
  BY RecordedStep DEF NotAgain
<1> QED
  BY <1>1, <1>2, <1>3, PTL DEF Spec, NotifiedBefore

(***************************************************************************)
(* The two directions between queues and handlers.  Only handler 0 can     *)
(* have a descriptor whose handler it is not.                              *)
(***************************************************************************)
Known(h) ==
    \/ current_handler_id[request[h].queue] = h
    \/ h # 0 /\ descriptors_by_handler_id[0] = request[h].queue

ConnInv ==
    /\ \A q \in Queues : current_handler_id[q] # None =>
         descriptors_by_handler_id[current_handler_id[q]] = q
    /\ \A h \in Handlers : descriptors_by_handler_id[h] # None =>
         /\ h < next_handler_id /\ request[h].phase # "django"
         /\ h # 0 => current_handler_id[descriptors_by_handler_id[h]] = h
    /\ \A h \in handlers : request[h].phase = "waiting" => Known(h)

\* a queue that waits with h is the queue h polls, or handler 0 did damage
LEMMA ConnQueue ==
    ASSUME ServerInv, ConnInv, NEW h \in handlers, request[h].phase = "waiting",
           NEW q \in Queues, current_handler_id[q] = h
    PROVE  request[h].queue = q \/ (h # 0 /\ descriptors_by_handler_id[0] = request[h].queue)
<1>1. h \in Handlers /\ h # None /\ request[h].queue \in Queues
  BY ConstantTypes DEF ServerInv, ConnectionsOK, RequestInv, Sound
<1>2. descriptors_by_handler_id[h] = q /\ Known(h)
  BY <1>1 DEF ConnInv
<1> QED
  BY <1>1, <1>2 DEF ConnInv, Known

LEMMA ConnDisconnect ==
    ASSUME ServerInv, ConnInv, NEW S \in SUBSET Queues, disconnect_handler(S),
           next_handler_id' = next_handler_id, handlers' \subseteq handlers,
           \A h \in Handlers : request'[h].phase = "django" => request[h].phase = "django",
           \A h \in handlers' : request'[h].phase = "waiting" =>
             /\ request[h].phase = "waiting" /\ request'[h].queue = request[h].queue
             /\ Waiting(h, S) => h # 0 /\ descriptors_by_handler_id[0] = request[h].queue
    PROVE  ConnInv'
<1> USE DEF ServerInv
<1>1. /\ current_handler_id \in [Queues -> Handlers \cup {None}]
      /\ descriptors_by_handler_id \in [Handlers -> Queues \cup {None}]
      /\ handlers \subseteq Handlers
  BY DEF ConnectionsOK
<1>2. \A h \in Handlers : descriptors_by_handler_id'[h] =
                            IF Forgets(h, S) THEN None ELSE descriptors_by_handler_id[h]
  BY DEF disconnect_handler
<1>3. \A q \in Queues : current_handler_id'[q] = IF q \in S THEN None ELSE current_handler_id[q]
  BY DEF disconnect_handler
<1>4. ASSUME NEW q \in Queues, current_handler_id'[q] # None
      PROVE  descriptors_by_handler_id'[current_handler_id'[q]] = q
  <2> DEFINE h == current_handler_id[q]
  <2>1. q \notin S /\ current_handler_id'[q] = h /\ h # None
    BY <1>3, <1>4
  <2>2. h \in Handlers /\ descriptors_by_handler_id[h] = q
    BY <1>1, <2>1 DEF ConnInv
  <2>3. ~ Waiting(h, S)
    BY <2>1, <2>2, ConstantTypes DEF Waiting, ConnInv
  <2> QED
    BY <1>2, <2>1, <2>2, <2>3 DEF Forgets
<1>5. ASSUME NEW h \in Handlers, descriptors_by_handler_id'[h] # None
      PROVE  /\ h < next_handler_id' /\ request'[h].phase # "django"
             /\ h # 0 => current_handler_id'[descriptors_by_handler_id'[h]] = h
  <2>1. descriptors_by_handler_id'[h] = descriptors_by_handler_id[h] /\ ~ Forgets(h, S)
    BY <1>2, <1>5
  <2>2. descriptors_by_handler_id[h] \in Queues
    BY <1>1, <1>5, <2>1
  <2>3. /\ h < next_handler_id /\ request[h].phase # "django"
        /\ h # 0 => current_handler_id[descriptors_by_handler_id[h]] = h
    BY <1>5, <2>1 DEF ConnInv
  <2>4. h # 0 => descriptors_by_handler_id[h] \notin S
    BY <2>1, <2>3 DEF Forgets, Waiting
  <2> QED
    BY <1>3, <2>1, <2>2, <2>3, <2>4
<1>6. ASSUME NEW h \in handlers', request'[h].phase = "waiting" PROVE Known(h)'
  <2>1. /\ h \in handlers /\ h \in Handlers /\ request[h].phase = "waiting"
        /\ request'[h].queue = request[h].queue
        /\ Waiting(h, S) => h # 0 /\ descriptors_by_handler_id[0] = request[h].queue
    BY <1>1, <1>6
  <2>2. request[h].queue \in Queues
    BY <2>1 DEF RequestInv, Sound
  <2>3. 0 \in Handlers /\ descriptors_by_handler_id'[0] = descriptors_by_handler_id[0]
    <3>1. 0 \in Handlers
      BY <2>1 DEF Handlers
    <3> QED
      BY <1>2, <3>1 DEF Forgets
  <2>4. CASE h # 0 /\ descriptors_by_handler_id[0] = request[h].queue
    BY <2>1, <2>3, <2>4 DEF Known
  <2>5. CASE current_handler_id[request[h].queue] = h /\ ~ Waiting(h, S)
    BY <1>3, <2>1, <2>2, <2>5 DEF Known, Waiting
  <2> QED
    BY <2>1, <2>4, <2>5 DEF ConnInv, Known
<1> QED
  BY <1>4, <1>5, <1>6 DEF ConnInv

LEMMA ConnFinish ==
    ASSUME ServerInv, ConnInv, NEW S \in SUBSET Queues, NEW held,
           held \in [Queues -> SUBSET Events], finish_current_handler(S, held)
    PROVE  ConnInv'
<1>1. /\ request' = finished(S, held) /\ disconnect_handler(S)
      /\ next_handler_id' = next_handler_id /\ handlers' = handlers
  BY DEF finish_current_handler
<1>2. ASSUME NEW h \in Handlers
      PROVE  /\ request'[h].phase = "django" => request[h].phase = "django"
             /\ request'[h].phase = "waiting" => request'[h] = request[h]
  <2>1. CASE request'[h] = request[h]
    BY <2>1
  <2>2. CASE request'[h] = NoRequest
    BY <2>2 DEF NoRequest
  <2>3. CASE request'[h].phase = "finishing"
    BY <2>3
  <2> QED
    BY <1>1, <2>1, <2>2, <2>3, FinishedTypes DEF ServerInv
<1>3. ASSUME NEW h \in handlers', request'[h].phase = "waiting"
      PROVE  /\ request[h].phase = "waiting" /\ request'[h].queue = request[h].queue
             /\ ~ Waiting(h, S)
  <2>1. h \in Handlers /\ h \in handlers
    BY <1>1, <1>3 DEF ServerInv, ConnectionsOK
  <2>2. request'[h] = request[h]
    BY <1>2, <1>3, <2>1
  <2>3. ASSUME Waiting(h, S) PROVE FALSE
    <3> DEFINE r == [request[h] EXCEPT !.phase = "finishing",
                                       !.answer = held[request[h].queue]]
    <3>1. request'[h] = r
      BY <1>1, <2>1, <2>3 DEF finished
    <3>2. r.phase = "finishing"
      BY <2>1 DEF ServerInv, ConnectionsOK, RequestType
    <3> QED
      BY <1>3, <3>1, <3>2
  <2> QED
    BY <1>3, <2>2, <2>3
<1> QED
  BY <1>1, <1>2, <1>3, ConnDisconnect

LEMMA ConnConnect ==
    ASSUME ServerInv, WaiterInv, ConnInv, NEW h \in Handlers, connect_handler(h)
    PROVE  ConnInv'
<1> USE DEF ServerInv
<1>1. PICK q \in Queues :
        /\ q = request[h].queue /\ queue' \in [Queues -> SUBSET Events]
        /\ request' = [finished({q}, queue') EXCEPT ![h].phase = "waiting"]
        /\ current_handler_id' = [current_handler_id EXCEPT ![q] = h]
        /\ descriptors_by_handler_id' =
             [i \in Handlers |-> IF i = h THEN q
                                 ELSE IF Forgets(i, {q}) THEN None
                                 ELSE descriptors_by_handler_id[i]]
        /\ request[h].phase = "django"
        /\ UNCHANGED <<handlers, next_handler_id>>
  BY AcceptedTypes DEF connect_handler, Accepted, InDjango, EventsOK
<1>2. /\ current_handler_id \in [Queues -> Handlers \cup {None}]
      /\ descriptors_by_handler_id \in [Handlers -> Queues \cup {None}]
      /\ handlers \subseteq Handlers
  BY DEF ConnectionsOK
<1>3. /\ \A p \in Queues : current_handler_id[p] # h
      /\ descriptors_by_handler_id[h] = None
      /\ h < next_handler_id /\ h # None
  BY <1>1, <1>2, ConstantTypes DEF WaiterInv, ConnInv
<1>4. /\ request'[h].phase = "waiting" /\ request'[h].queue = q
      /\ \A i \in Handlers \ {h} :
           /\ request'[i].phase = "django" => request[i].phase = "django"
           /\ request'[i].phase = "waiting" /\ i \in handlers =>
                request'[i] = request[i] /\ ~ Waiting(i, {q})
  <2> DEFINE F == finished({q}, queue')
             r == [F[h] EXCEPT !.phase = "waiting"]
  <2>1. {q} \in SUBSET Queues
    OBVIOUS
  <2>2. F = [i \in Handlers |-> F[i]]
    BY DEF finished
  <2>3. F \in [Handlers -> RequestType]
    BY <1>1, <2>1, <2>2, FinishedTypes
  <2>4. F[h] = request[h]
    BY <1>3 DEF finished, Waiting
  <2>5. ASSUME NEW i \in Handlers
        PROVE  /\ F[i].phase = "django" => request[i].phase = "django"
               /\ F[i].phase = "waiting" /\ i \in handlers =>
                    F[i] = request[i] /\ ~ Waiting(i, {q})
    <3>1. CASE ~ Waiting(i, {q})
      BY <3>1 DEF finished
    <3>2. CASE Waiting(i, {q}) /\ i \notin handlers
      BY <3>2 DEF finished, NoRequest
    <3>3. CASE Waiting(i, {q}) /\ i \in handlers
      <4> DEFINE f == [request[i] EXCEPT !.phase = "finishing",
                                         !.answer = queue'[request[i].queue]]
      <4>1. F[i] = f
        BY <3>3 DEF finished
      <4>2. f.phase = "finishing"
        BY DEF ConnectionsOK, RequestType
      <4> HIDE DEF f, F
      <4> QED
        BY <4>1, <4>2
    <3> QED
      BY <3>1, <3>2, <3>3
  <2>6. request' = [F EXCEPT ![h] = r]
    BY <1>1
  <2> HIDE DEF F
  <2>7. r.phase = "waiting" /\ r.queue = q
    BY <1>1, <2>3, <2>4 DEF RequestType
  <2> HIDE DEF r
  <2>8. request'[h] = r /\ \A i \in Handlers \ {h} : request'[i] = F[i]
    BY <2>3, <2>6
  <2> QED
    BY <2>5, <2>7, <2>8
<1>5. ASSUME NEW p \in Queues, current_handler_id'[p] # None
      PROVE  descriptors_by_handler_id'[current_handler_id'[p]] = p
  <2>1. CASE p = q
    BY <1>1, <1>2, <2>1
  <2>2. CASE p # q
    <3> DEFINE i == current_handler_id[p]
    <3>1. current_handler_id'[p] = i /\ i # None
      BY <1>1, <1>2, <1>5, <2>2
    <3>2. i \in Handlers \ {h} /\ descriptors_by_handler_id[i] = p
      BY <1>2, <1>3, <3>1 DEF ConnInv
    <3>3. ~ Waiting(i, {q})
      BY <2>2, <3>1, <3>2, ConstantTypes DEF Waiting, ConnInv
    <3> HIDE DEF i
    <3> QED
      BY <1>1, <3>1, <3>2, <3>3 DEF Forgets
  <2> QED
    BY <2>1, <2>2
<1>6. ASSUME NEW i \in Handlers, descriptors_by_handler_id'[i] # None
      PROVE  /\ i < next_handler_id' /\ request'[i].phase # "django"
             /\ i # 0 => current_handler_id'[descriptors_by_handler_id'[i]] = i
  <2>1. CASE i = h
    BY <1>1, <1>2, <1>3, <1>4, <2>1
  <2>2. CASE i # h
    <3>1. descriptors_by_handler_id'[i] = descriptors_by_handler_id[i] /\ ~ Forgets(i, {q})
      BY <1>1, <1>6, <2>2
    <3>2. descriptors_by_handler_id[i] \in Queues
      BY <1>2, <1>6, <3>1
    <3>3. /\ i < next_handler_id /\ request[i].phase # "django"
          /\ i # 0 => current_handler_id[descriptors_by_handler_id[i]] = i
      BY <1>6, <3>1 DEF ConnInv
    <3>4. i # 0 => descriptors_by_handler_id[i] # q
      BY <3>1, <3>3 DEF Forgets, Waiting
    <3> QED
      BY <1>1, <1>2, <1>4, <2>2, <3>1, <3>2, <3>3, <3>4
  <2> QED
    BY <2>1, <2>2
<1>7. ASSUME NEW i \in handlers', request'[i].phase = "waiting" PROVE Known(i)'
  <2>1. i \in handlers /\ i \in Handlers
    BY <1>1, <1>2, <1>7
  <2>2. CASE i = h
    BY <1>1, <1>2, <1>4, <2>2 DEF Known
  <2>3. CASE i # h
    <3>1. request'[i] = request[i] /\ ~ Waiting(i, {q})
      BY <1>4, <1>7, <2>1, <2>3
    <3>2. request[i].queue \in Queues /\ Known(i)
      BY <1>7, <2>1, <3>1 DEF RequestInv, Sound, ConnInv
    <3>3. CASE current_handler_id[request[i].queue] = i
      BY <1>1, <1>2, <3>1, <3>2, <3>3 DEF Known, Waiting
    <3>4. CASE i # 0 /\ descriptors_by_handler_id[0] = request[i].queue
      <4>1. 0 \in Handlers /\ None \notin Queues
        BY <2>1 DEF Handlers
      <4>2. h # 0
        BY <1>3, <3>2, <3>4, <4>1
      <4>3. descriptors_by_handler_id'[0] = descriptors_by_handler_id[0]
        BY <1>1, <4>1, <4>2 DEF Forgets
      <4> QED
        BY <3>1, <3>4, <4>3 DEF Known
    <3> QED
      BY <3>2, <3>3, <3>4 DEF Known
  <2> QED
    BY <2>2, <2>3
<1> QED
  BY <1>5, <1>6, <1>7 DEF ConnInv

LEMMA ConnStep == ServerInv /\ WaiterInv /\ ConnInv /\ [Next]_vars => ConnInv'
<1> SUFFICES ASSUME ServerInv, WaiterInv, ConnInv, [Next]_vars PROVE ConnInv'
  OBVIOUS
<1> USE DEF ServerInv
<1>0. UNCHANGED connections => ConnInv'
  BY DEF ConnInv, Known, connections
<1>1. CASE gc_event_queues
  BY <1>0, <1>1 DEF gc_event_queues
<1>2. CASE cleanup
  <2>1. CASE cleaning \in clients
    <3>1. {cleaning} \in SUBSET Queues /\ queue \in [Queues -> SUBSET Events]
      BY <2>1 DEF TablesOK, EventsOK
    <3> QED
      BY <1>2, <2>1, <3>1, ConnFinish DEF cleanup
  <2>2. CASE cleaning \notin clients
    BY <1>0, <1>2, <2>2 DEF cleanup
  <2> QED
    BY <2>1, <2>2
\* a request that ends, and disconnects nobody
<1>3. ASSUME NEW h \in Handlers, request' = Over(h, request), handlers' = handlers \ {h},
             UNCHANGED <<current_handler_id, descriptors_by_handler_id, next_handler_id>>
      PROVE  ConnInv'
  <2>1. request'[h] = NoRequest /\ \A i \in Handlers \ {h} : request'[i] = request[i]
    BY <1>3 DEF Over, ConnectionsOK
  <2>2. \A i \in Handlers : request'[i].phase = "django" => request[i].phase = "django"
    BY <2>1 DEF NoRequest
  <2>3. \A i \in handlers' : i \in handlers /\ request'[i] = request[i]
    BY <1>3, <2>1 DEF ConnectionsOK
  <2> QED
    BY <1>3, <2>2, <2>3 DEF ConnInv, Known
<1>4. ASSUME NEW h \in Handlers, fetch_error(h) \/ zulip_finish(h) PROVE ConnInv'
  BY <1>3, <1>4 DEF fetch_error, zulip_finish
<1>5. ASSUME NEW h \in Handlers, fetch_response(h) PROVE ConnInv'
  <2>1. PICK q \in Queues :
          /\ q = request[h].queue /\ queue' \in [Queues -> SUBSET Events]
          /\ request' = Over(h, finished({q}, queue')) /\ disconnect_handler({q})
          /\ next_handler_id' = next_handler_id /\ handlers' = handlers \ {h}
    BY <1>5, AcceptedTypes DEF fetch_response, EventsOK
  <2>2. {q} \in SUBSET Queues
    OBVIOUS
  <2>3. ASSUME NEW i \in Handlers
        PROVE  /\ request'[i].phase = "django" => request[i].phase = "django"
               /\ i \in handlers' /\ request'[i].phase = "waiting" =>
                    request'[i] = request[i] /\ ~ Waiting(i, {q})
    <3>1. CASE i = h
      BY <2>1, <3>1 DEF Over, finished, NoRequest
    <3>2. CASE i # h
      <4>1. request'[i] = finished({q}, queue')[i]
        BY <2>1, <3>2 DEF Over
      <4>2. CASE ~ Waiting(i, {q})
        BY <4>1, <4>2 DEF finished
      <4>3. CASE Waiting(i, {q}) /\ i \notin handlers
        <5>1. request'[i] = NoRequest
          BY <4>1, <4>3 DEF finished
        <5> QED
          BY <5>1 DEF NoRequest
      <4>4. CASE Waiting(i, {q}) /\ i \in handlers
        <5> DEFINE f == [request[i] EXCEPT !.phase = "finishing",
                                           !.answer = queue'[request[i].queue]]
        <5>1. request'[i] = f
          BY <4>1, <4>4 DEF finished
        <5>2. f.phase = "finishing"
          BY DEF ConnectionsOK, RequestType
        <5> HIDE DEF f
        <5> QED
          BY <5>1, <5>2
      <4> QED
        BY <4>2, <4>3, <4>4
    <3> QED
      BY <3>1, <3>2
  <2>4. handlers' \subseteq handlers /\ handlers' \subseteq Handlers
    BY <2>1 DEF ConnectionsOK
  <2>5. \A i \in handlers' : request'[i].phase = "waiting" =>
          /\ request[i].phase = "waiting" /\ request'[i].queue = request[i].queue
          /\ ~ Waiting(i, {q})
    BY <2>3, <2>4
  <2> QED
    BY <2>1, <2>2, <2>3, <2>4, <2>5, ConnDisconnect
<1>6. ASSUME NEW h \in Handlers, on_connection_close(h) PROVE ConnInv'
  <2> DEFINE S == {descriptors_by_handler_id[h]} \cap Queues
  <2>1. /\ disconnect_handler(S) /\ handlers' = handlers \ {h}
        /\ next_handler_id' = next_handler_id
        /\ request' = request \/ request' = Over(h, request)
    BY <1>6 DEF on_connection_close
  <2>2. \A i \in Handlers : /\ request'[i].phase = "django" => request[i].phase = "django"
                            /\ i # h => request'[i] = request[i]
    BY <2>1 DEF Over, NoRequest, ConnectionsOK
  <2>3. ASSUME NEW i \in handlers', request[i].phase = "waiting", Waiting(i, S)
        PROVE  i # 0 /\ descriptors_by_handler_id[0] = request[i].queue
    <3>1. i \in handlers /\ i # h /\ i # None
      BY <2>1, ConstantTypes DEF ConnectionsOK
    <3>2. PICK q \in Queues : q = descriptors_by_handler_id[h] /\ current_handler_id[q] = i
      BY <2>3 DEF Waiting
    <3>3. h = 0
      BY <3>1, <3>2 DEF ConnInv
    <3>4. \/ request[i].queue = q
          \/ i # 0 /\ descriptors_by_handler_id[0] = request[i].queue
      BY <2>3, <3>1, <3>2, ConnQueue
    <3> QED
      BY <3>1, <3>2, <3>3, <3>4
  <2>4. handlers' \subseteq handlers /\ S \in SUBSET Queues
    BY <2>1
  <2>5. \A i \in handlers' : request'[i].phase = "waiting" =>
          /\ request[i].phase = "waiting" /\ request'[i].queue = request[i].queue
          /\ Waiting(i, S) => i # 0 /\ descriptors_by_handler_id[0] = request[i].queue
    BY <2>1, <2>2, <2>3 DEF ConnectionsOK
  <2> HIDE DEF S
  <2> QED
    BY <2>1, <2>2, <2>4, <2>5, ConnDisconnect
<1>7. ASSUME NEW q \in Queues, timeout_callback(q) PROVE ConnInv'
  <2>1. {q} \in SUBSET clients /\ {q} \in SUBSET Queues
    BY <1>7 DEF timeout_callback, QueueInv
  <2>2. queue' \in [Queues -> SUBSET Events]
    BY <1>7, <2>1, ConstantTypes, AddEventTypes DEF timeout_callback, EventsOK
  <2> QED
    BY <1>7, <2>1, <2>2, ConnFinish DEF timeout_callback, add_event
<1>8. ASSUME NEW m \in Messages, NEW idle \in SUBSET Users, process_message_event(m, idle)
      PROVE  ConnInv'
  <2> DEFINE N == {u \in Recipients[m] : receiver_is_off_zulip(u) \/ u \in idle}
             S == Receivers(m)
             body == Body(m, N)
  <2>1. add_event(S, body)
    BY <1>8 DEF process_message_event
  <2>2. S \in SUBSET clients /\ S \in SUBSET Queues
    BY DEF Receivers, get_client_info_for_message_event, TablesAgree, TablesOK
  <2>3. body \in [Queues -> [message : Messages \cup {None},
                             internal : {"none", "pending", "notified"}]]
    BY DEF Body
  <2> HIDE DEF N, S, body
  <2>4. queue' \in [Queues -> SUBSET Events]
    BY <2>1, <2>2, <2>3, AddEventTypes DEF EventsOK
  <2> QED
    BY <2>1, <2>2, <2>4, ConnFinish DEF add_event
<1>9. ASSUME NEW q \in Queues, initialize(q) PROVE ConnInv'
  <2> DEFINE r == [phase |-> "django", queue |-> q, last |-> got[q], answer |-> {}]
  <2>1. /\ request' = [request EXCEPT ![next_handler_id] = r]
        /\ handlers' = handlers \cup {next_handler_id}
        /\ next_handler_id' = next_handler_id + 1 /\ next_handler_id < MaxHandlers
        /\ UNCHANGED <<current_handler_id, descriptors_by_handler_id>>
    BY <1>9 DEF initialize
  <2>2. next_handler_id \in Handlers /\ next_handler_id \in Nat /\ r.phase = "django"
    BY <2>1 DEF Handlers, ConnectionsOK
  <2> HIDE DEF r
  <2>3. /\ request'[next_handler_id].phase = "django"
        /\ \A i \in Handlers : i # next_handler_id => request'[i] = request[i]
    BY <2>1, <2>2 DEF ConnectionsOK
  <2>4. ASSUME NEW i \in Handlers, descriptors_by_handler_id'[i] # None
        PROVE  /\ i < next_handler_id' /\ request'[i].phase # "django"
               /\ i # 0 => current_handler_id'[descriptors_by_handler_id'[i]] = i
    <3>1. /\ i < next_handler_id /\ request[i].phase # "django"
          /\ i # 0 => current_handler_id[descriptors_by_handler_id[i]] = i
      BY <2>1, <2>4 DEF ConnInv
    <3>2. i \in Nat
      BY ConstantTypes
    <3> QED
      BY <2>1, <2>2, <2>3, <3>1, <3>2
  <2>5. ASSUME NEW i \in handlers', request'[i].phase = "waiting" PROVE Known(i)'
    <3>1. i # next_handler_id /\ i \in handlers /\ i \in Handlers
      BY <2>1, <2>3, <2>5 DEF ConnectionsOK
    <3> QED
      BY <2>1, <2>3, <2>5, <3>1 DEF ConnInv, Known
  <2> QED
    BY <2>1, <2>4, <2>5 DEF ConnInv
<1>10. ASSUME NEW m \in Messages, NEW idle \in SUBSET Users, process_message_fails(m, idle)
       PROVE  ConnInv'
  BY <1>0, <1>10 DEF process_message_fails
<1>11. ASSUME NEW q \in Queues, cleanup_event_queue(q) \/ TimePasses(q) PROVE ConnInv'
  BY <1>0, <1>11 DEF cleanup_event_queue, TimePasses
<1>12. ASSUME NEW q \in Queues, NEW heard \in BOOLEAN, allocate_client_descriptor(q, heard)
       PROVE  ConnInv'
  BY <1>0, <1>12 DEF allocate_client_descriptor
<1>13. ASSUME NEW m \in Messages, send_event(m) PROVE ConnInv'
  BY <1>0, <1>13 DEF send_event
<1>14. CASE UNCHANGED vars
  BY <1>0, <1>14 DEF vars
<1> QED
  BY <1>1, <1>2, <1>4, <1>5, <1>6, <1>7, <1>8, <1>9, <1>10, <1>11, <1>12, <1>13, <1>14,
     ConnConnect DEF Next, Loop, Others, fetch_events

(***************************************************************************)
(* A connection that waits is known to the queue it polls, in both         *)
(* directions - except for the damage done through handler 0, whose        *)
(* descriptor disconnect_handler does not forget.                          *)
(***************************************************************************)
THEOREM WaitingConnectionsAreKnown == Spec => []WaitingIsKnown
<1>1. Init => ServerInv /\ WaiterInv /\ ConnInv
  <2>1. Init => ConnInv
    BY DEF Init, ConnInv
  <2> QED
    BY <2>1, ServerInit
<1>2. ServerInv /\ WaiterInv /\ ConnInv /\ [Next]_vars => ServerInv' /\ WaiterInv' /\ ConnInv'
  BY ServerStep, WaiterStep, ConnStep
<1>3. ServerInv /\ ConnInv => WaitingIsKnown
  <2> SUFFICES ASSUME ServerInv, ConnInv, NEW h \in handlers, request[h].phase = "waiting"
               PROVE  \/ /\ current_handler_id[request[h].queue] = h
                         /\ descriptors_by_handler_id[h] = request[h].queue
                      \/ h # 0 /\ descriptors_by_handler_id[0] = request[h].queue
    BY DEF WaitingIsKnown
  <2>1. /\ h \in Handlers /\ h # None /\ request[h].queue \in Queues /\ Known(h)
    BY ConstantTypes DEF ServerInv, ConnectionsOK, RequestInv, Sound, ConnInv
  <2> QED
    BY <2>1 DEF ConnInv, Known
<1> QED
  BY <1>1, <1>2, <1>3, PTL DEF Spec

(***************************************************************************)
(* What a client has read.  Ids grow, so the last event it names covers    *)
(* every event of the queue up to it; an answer that is on its way holds   *)
(* every event of the queue up to its last.                                *)
(***************************************************************************)
ReadInv ==
    /\ \A q \in Queues :
         /\ got[q] < next_event_id[q] \/ (got[q] = -1 /\ next_event_id[q] = -1)
         /\ q \in told => next_event_id[q] >= 0
         /\ \A e \in queue[q] :
              e.id <= got[q] => e.message = None \/ e.message \in seen[Owner[q]]
    /\ \A h \in Handlers :
         request[h].phase = "django" => request[h].last <= got[request[h].queue]
    /\ \A h \in handlers : request[h].phase = "finishing" =>
         \A e \in queue[request[h].queue] : \A a \in request[h].answer :
           e.id <= a.id => e \in request[h].answer

LEMMA ReceiveReads ==
    ASSUME OutsideOK, EventsOK, NEW h \in Handlers, request[h].queue \in Queues,
           NEW held \in SUBSET Events,
           \A e \in held : e.id < next_event_id[request[h].queue],
           Receive(h, held)
    PROVE  /\ \A q \in Queues :
                /\ got[q] <= got'[q]
                /\ \/ got'[q] = got[q]
                   \/ /\ q = request[h].queue /\ h \in handlers
                      /\ \E a \in held : got'[q] = a.id
           /\ \A u \in Users : seen[u] \subseteq seen'[u]
           /\ h \in handlers =>
                \A e \in held : e.message # None => e.message \in seen'[Owner[request[h].queue]]
           /\ h \notin handlers => UNCHANGED <<got, seen>>
<1> DEFINE q == request[h].queue
           last == {e.id : e \in held} \cup {got[q]}
           top == CHOOSE i \in last : \A j \in last : j <= i
           b == IF got[q] <= next_event_id[q] THEN next_event_id[q] ELSE got[q]
<1>1. got \in [Queues -> Int] /\ got[q] \in Int /\ next_event_id[q] \in Int
  BY DEF OutsideOK, EventsOK
<1>2. last \in SUBSET Int /\ last # {} /\ b \in Int /\ \A i \in last : i <= b
  BY <1>1 DEF Events
<1>3. \E m \in last : \A k \in last : k <= m
  <2> HIDE DEF last, b
  <2> QED
    BY <1>2, GreatestOf
<1>4. top \in last /\ \A k \in last : k <= top
  <2> HIDE DEF last
  <2> QED
    BY <1>3
<1>5. top \in Int /\ got[q] <= top /\ (top = got[q] \/ \E a \in held : top = a.id)
  <2>1. got[q] \in last /\ top \in last => (top = got[q] \/ \E a \in held : top = a.id)
    <3> HIDE DEF top
    <3> QED
      OBVIOUS
  <2> HIDE DEF top
  <2> QED
    BY <1>2, <1>4, <2>1
<1>6. CASE h \in handlers
  <2>1. /\ got' = [got EXCEPT ![q] = top]
        /\ seen' = [seen EXCEPT ![Owner[q]] =
                      seen[Owner[q]] \cup ({e.message : e \in held} \ {None})]
    BY <1>6 DEF Receive
  <2> HIDE DEF top, last, b
  <2>2. \A p \in Queues : /\ got[p] <= got'[p]
                          /\ got'[p] = got[p] \/ (p = q /\ \E a \in held : got'[p] = a.id)
    BY <1>1, <1>5, <2>1
  <2>3. Owner[q] \in Users /\ seen \in [Users -> SUBSET Messages]
    BY DEF OutsideOK
  <2>4. /\ \A u \in Users : seen[u] \subseteq seen'[u]
        /\ \A e \in held : e.message # None => e.message \in seen'[Owner[q]]
    BY <2>1, <2>3
  <2> QED
    BY <1>6, <2>2, <2>4
<1>7. CASE h \notin handlers
  BY <1>1, <1>7 DEF Receive
<1> QED
  BY <1>6, <1>7

\* the steps in which no client reads
LEMMA ReadKept ==
    ASSUME ServerInv, ReadInv, ServerInv', got' = got,
           \A u \in Users : seen[u] \subseteq seen'[u],
           \A q \in Queues : q \in told' => next_event_id'[q] >= 0,
           \A q \in Queues : next_event_id[q] <= next_event_id'[q],
           \A q \in Queues : \A e \in queue'[q] : e \in queue[q] \/ e.id >= next_event_id[q],
           \A h \in Handlers :
             request'[h].phase = "django" =>
               \/ request'[h] = request[h]
               \/ request'[h].last <= got[request'[h].queue],
           \A h \in handlers' :
             request'[h].phase = "finishing" =>
               \/ request'[h] = request[h] /\ h \in handlers
               \/ request'[h].answer = queue'[request'[h].queue]
    PROVE  ReadInv'
<1> USE DEF ServerInv
<1>1. /\ got \in [Queues -> Int] /\ next_event_id \in [Queues -> Int]
      /\ next_event_id' \in [Queues -> Int] /\ handlers \subseteq Handlers
      /\ handlers' \subseteq Handlers /\ queue' \in [Queues -> SUBSET Events]
      /\ \A q \in Queues : next_event_id'[q] >= -1
  BY DEF OutsideOK, EventsOK, ConnectionsOK
<1>2. ASSUME NEW q \in Queues
      PROVE  got[q] < next_event_id'[q] \/ (got[q] = -1 /\ next_event_id'[q] = -1)
  <2>1. got[q] < next_event_id[q] \/ (got[q] = -1 /\ next_event_id[q] = -1)
    BY DEF ReadInv
  <2>2. next_event_id[q] <= next_event_id'[q] /\ next_event_id'[q] >= -1
    BY <1>1
  <2>3. got[q] \in Int /\ next_event_id[q] \in Int /\ next_event_id'[q] \in Int
    BY <1>1
  <2> QED
    BY <2>1, <2>2, <2>3
<1>3. ASSUME NEW q \in Queues, NEW e \in queue'[q], e.id <= got[q]
      PROVE  e.message = None \/ e.message \in seen'[Owner[q]]
  <2>1. e.id \in Nat /\ got[q] \in Int /\ next_event_id[q] \in Int
    BY <1>1 DEF Events
  <2>2. ~ (e.id >= next_event_id[q])
    <3>1. got[q] < next_event_id[q] \/ (got[q] = -1 /\ next_event_id[q] = -1)
      BY DEF ReadInv
    <3> QED
      BY <1>3, <2>1, <3>1
  <2>3. e \in queue[q]
    BY <2>2
  <2> QED
    BY <1>3, <2>3 DEF ReadInv
<1>4. ASSUME NEW h \in Handlers, request'[h].phase = "django"
      PROVE  request'[h].last <= got[request'[h].queue]
  BY <1>4 DEF ReadInv
<1>5. ASSUME NEW h \in handlers', request'[h].phase = "finishing",
             NEW e \in queue'[request'[h].queue], NEW a \in request'[h].answer, e.id <= a.id
      PROVE  e \in request'[h].answer
  <2>1. CASE request'[h] = request[h] /\ h \in handlers
    <3> DEFINE q == request[h].queue
    <3>1. h \in Handlers /\ q \in Queues /\ a \in request[h].answer /\ a.id < next_event_id[q]
      BY <1>1, <1>5, <2>1 DEF RequestInv, Sound
    <3>2. a.id \in Nat /\ e.id \in Nat /\ next_event_id[q] \in Int
      BY <1>1, <2>1, <3>1 DEF ConnectionsOK, RequestType, Events
    <3>3. e \in queue'[q] /\ ~ (e.id >= next_event_id[q])
      BY <1>5, <2>1, <3>1, <3>2
    <3>4. e \in queue[q]
      BY <3>1, <3>3
    <3> QED
      BY <1>5, <2>1, <3>4 DEF ReadInv
  <2>2. CASE request'[h].answer = queue'[request'[h].queue]
    BY <2>2
  <2> QED
    BY <1>5, <2>1, <2>2
<1> QED
  BY <1>2, <1>3, <1>4, <1>5 DEF ReadInv

LEMMA FinishRequests ==
    ASSUME ServerInv, NEW S \in SUBSET Queues, NEW held,
           held \in [Queues -> SUBSET Events], NEW h \in Handlers
    PROVE  LET r == finished(S, held)[h]
           IN  /\ r.phase = "django" => r = request[h]
               /\ r.phase = "finishing" /\ h \in handlers =>
                    r = request[h] \/ r.answer = held[r.queue]
<1> DEFINE r == finished(S, held)[h]
<1>1. CASE r = request[h]
  BY <1>1
<1>2. CASE r = NoRequest /\ h \notin handlers
  BY <1>2 DEF NoRequest
<1>3. CASE /\ h \in handlers /\ r.phase = "finishing" /\ r.queue = request[h].queue
           /\ r.answer = held[request[h].queue]
  BY <1>3
<1> QED
  BY <1>1, <1>2, <1>3, FinishedTypes DEF ServerInv

LEMMA ReadFinish ==
    ASSUME ServerInv, ServerInv', ReadInv, NEW h \in Handlers, zulip_finish(h)
    PROVE  ReadInv'
<1> USE DEF ServerInv
<1>1. /\ request[h].phase = "finishing" /\ h \in handlers
      /\ Receive(h, request[h].answer)
      /\ request' = Over(h, request) /\ handlers' = handlers \ {h}
      /\ UNCHANGED <<queue, next_event_id, told>>
  BY DEF zulip_finish, events
<1>2. PICK q \in Queues : q = request[h].queue
  BY <1>1 DEF RequestInv, Sound
<1>3. PICK answer \in SUBSET Events : answer = request[h].answer
  BY DEF ConnectionsOK, RequestType
<1>4. \A e \in answer : e.id < next_event_id[q]
  BY <1>2, <1>3 DEF RequestInv, Sound
<1>5. /\ \A p \in Queues : /\ got[p] <= got'[p]
                           /\ got'[p] = got[p] \/ (p = q /\ \E a \in answer : got'[p] = a.id)
      /\ \A u \in Users : seen[u] \subseteq seen'[u]
      /\ \A e \in answer : e.message # None => e.message \in seen'[Owner[q]]
  BY <1>1, <1>2, <1>3, <1>4, ReceiveReads
<1>6. /\ got \in [Queues -> Int] /\ got' \in [Queues -> Int]
      /\ next_event_id \in [Queues -> Int] /\ queue \in [Queues -> SUBSET Events]
  BY DEF OutsideOK, EventsOK
<1>7. ASSUME NEW p \in Queues
      PROVE  got'[p] < next_event_id'[p] \/ (got'[p] = -1 /\ next_event_id'[p] = -1)
  <2>1. CASE got'[p] = got[p]
    BY <1>1, <2>1 DEF ReadInv
  <2>2. CASE p = q /\ \E a \in answer : got'[p] = a.id
    BY <1>1, <1>4, <2>2
  <2> QED
    BY <1>5, <2>1, <2>2
<1>8. ASSUME NEW p \in Queues, NEW e \in queue'[p], e.id <= got'[p]
      PROVE  e.message = None \/ e.message \in seen'[Owner[p]]
  <2>1. e \in queue[p] /\ Owner[p] \in Users
    BY <1>1
  <2>2. CASE got'[p] = got[p]
    BY <1>5, <1>8, <2>1, <2>2 DEF ReadInv
  <2>3. CASE p = q /\ \E a \in answer : got'[p] = a.id
    <3>1. PICK a \in answer : e.id <= a.id
      BY <1>8, <2>3
    <3>2. e \in answer
      BY <1>1, <1>2, <1>3, <2>1, <2>3, <3>1 DEF ReadInv
    <3> QED
      BY <1>5, <2>3, <3>2
  <2> QED
    BY <1>5, <2>2, <2>3
<1>9. ASSUME NEW i \in Handlers, request'[i].phase = "django"
      PROVE  request'[i].last <= got'[request'[i].queue]
  <2>1. request'[i] = request[i]
    BY <1>1, <1>9 DEF Over, NoRequest, ConnectionsOK
  <2>2. request[i].queue \in Queues /\ request[i].last \in Int
        /\ request[i].last <= got[request[i].queue]
    BY <1>9, <2>1 DEF RequestInv, Sound, ConnectionsOK, RequestType, ReadInv
  <2>3. PICK p \in Queues : p = request[i].queue
    BY <2>2
  <2>4. got[p] <= got'[p]
    BY <1>5
  <2>5. request[i].last <= got[p] /\ request[i].last \in Int
    BY <2>2, <2>3
  <2> QED
    BY <1>6, <2>1, <2>3, <2>4, <2>5
<1>10. ASSUME NEW i \in handlers', request'[i].phase = "finishing"
       PROVE  \A e \in queue'[request'[i].queue] : \A a \in request'[i].answer :
                e.id <= a.id => e \in request'[i].answer
  <2>1. i \in handlers /\ request'[i] = request[i]
    BY <1>1 DEF Over, ConnectionsOK
  <2> QED
    BY <1>1, <1>10, <2>1 DEF ReadInv
<1> QED
  BY <1>1, <1>7, <1>8, <1>9, <1>10 DEF ReadInv

LEMMA ReadFetch ==
    ASSUME ServerInv, ServerInv', ReadInv, NEW h \in Handlers, fetch_response(h)
    PROVE  ReadInv'
<1> USE DEF ServerInv
<1>1. PICK q \in Queues :
        /\ q = request[h].queue
        /\ queue' = [queue EXCEPT ![q] = Kept(h)]
        /\ request[h].phase = "django"
        /\ Receive(h, Kept(h))
        /\ request' = Over(h, finished({q}, queue')) /\ handlers' = handlers \ {h}
        /\ UNCHANGED <<next_event_id, told>>
  BY AcceptedTypes DEF fetch_response, Accepted, InDjango
<1>2. /\ Kept(h) \in SUBSET Events /\ \A e \in Kept(h) : e.id < next_event_id[q]
      /\ \A p \in Queues : queue'[p] \subseteq queue[p]
  BY <1>1, AcceptedTypes DEF fetch_response
<1>3. PICK kept \in SUBSET Events : kept = Kept(h)
  BY <1>2
<1>4. /\ \A p \in Queues : /\ got[p] <= got'[p]
                           /\ \/ got'[p] = got[p]
                              \/ p = q /\ h \in handlers /\ \E a \in kept : got'[p] = a.id
      /\ \A u \in Users : seen[u] \subseteq seen'[u]
      /\ h \in handlers =>
           \A e \in kept : e.message # None => e.message \in seen'[Owner[q]]
  BY <1>1, <1>2, <1>3, ReceiveReads
<1>5. /\ got \in [Queues -> Int] /\ got' \in [Queues -> Int]
      /\ next_event_id \in [Queues -> Int] /\ queue \in [Queues -> SUBSET Events]
      /\ queue' \in [Queues -> SUBSET Events] /\ handlers \subseteq Handlers
  BY DEF OutsideOK, EventsOK, ConnectionsOK
<1>6. ASSUME NEW p \in Queues
      PROVE  got'[p] < next_event_id'[p] \/ (got'[p] = -1 /\ next_event_id'[p] = -1)
  <2>1. CASE got'[p] = got[p]
    BY <1>1, <2>1 DEF ReadInv
  <2>2. CASE p = q /\ \E a \in kept : got'[p] = a.id
    BY <1>1, <1>2, <1>3, <2>2
  <2> QED
    BY <1>4, <2>1, <2>2
<1>7. ASSUME NEW p \in Queues, NEW e \in queue'[p], e.id <= got'[p]
      PROVE  e.message = None \/ e.message \in seen'[Owner[p]]
  <2>1. e \in queue[p] /\ Owner[p] \in Users
    BY <1>2
  <2>2. CASE got'[p] = got[p]
    BY <1>4, <1>7, <2>1, <2>2 DEF ReadInv
  <2>3. CASE p = q /\ h \in handlers
    <3>1. e \in kept
      BY <1>1, <1>3, <1>5, <2>3
    <3> QED
      BY <1>4, <2>3, <3>1
  <2> QED
    BY <1>4, <2>2, <2>3
<1>8. ASSUME NEW i \in Handlers
      PROVE  /\ request'[i].phase = "django" => request'[i] = request[i]
             /\ request'[i].phase = "finishing" /\ i \in handlers =>
                  request'[i] = request[i] \/ request'[i].answer = queue'[request'[i].queue]
  <2>1. CASE i = h
    <3>1. request'[i] = NoRequest
      BY <1>1, <2>1 DEF Over, finished
    <3> QED
      BY <3>1 DEF NoRequest
  <2>2. CASE i # h
    <3>1. request'[i] = finished({q}, queue')[i] /\ {q} \in SUBSET Queues
      BY <1>1, <2>2 DEF Over
    <3> QED
      BY <1>5, <3>1, FinishRequests
  <2> QED
    BY <2>1, <2>2
<1>9. ASSUME NEW i \in Handlers, request'[i].phase = "django"
      PROVE  request'[i].last <= got'[request'[i].queue]
  <2>1. request'[i] = request[i]
    BY <1>8, <1>9
  <2>2. request[i].queue \in Queues /\ request[i].last \in Int
        /\ request[i].last <= got[request[i].queue]
    BY <1>9, <2>1 DEF RequestInv, Sound, ConnectionsOK, RequestType, ReadInv
  <2>3. got[request[i].queue] <= got'[request[i].queue]
    BY <1>4, <2>2
  <2> QED
    BY <1>5, <2>1, <2>2, <2>3
<1>10. ASSUME NEW i \in handlers', request'[i].phase = "finishing"
       PROVE  \A e \in queue'[request'[i].queue] : \A a \in request'[i].answer :
                e.id <= a.id => e \in request'[i].answer
  <2>1. i \in handlers /\ i \in Handlers
    BY <1>1, <1>5
  <2>2. CASE request'[i].answer = queue'[request'[i].queue]
    BY <2>2
  <2>3. CASE request'[i] = request[i]
    <3>1. request[i].queue \in Queues
      BY <1>10, <2>1, <2>3 DEF RequestInv, Sound
    <3> QED
      BY <1>2, <1>10, <2>1, <2>3, <3>1 DEF ReadInv
  <2> QED
    BY <1>8, <1>10, <2>1, <2>2, <2>3
<1> QED
  BY <1>1, <1>6, <1>7, <1>9, <1>10 DEF ReadInv

LEMMA ReadStep == ServerInv /\ ServerInv' /\ ReadInv /\ [Next]_vars => ReadInv'
<1> SUFFICES ASSUME ServerInv, ServerInv', ReadInv, [Next]_vars PROVE ReadInv'
  OBVIOUS
<1> USE DEF ServerInv
\* nothing new is read, answered or asked
<1>0. ASSUME UNCHANGED <<got, told>>, \A u \in Users : seen[u] \subseteq seen'[u],
             \A q \in Queues : next_event_id[q] <= next_event_id'[q],
             \A q \in Queues : \A e \in queue'[q] : e \in queue[q] \/ e.id >= next_event_id[q],
             \A h \in Handlers : request'[h].phase = "django" => request'[h] = request[h],
             \A h \in handlers' : request'[h].phase = "finishing" =>
               \/ request'[h] = request[h] /\ h \in handlers
               \/ request'[h].answer = queue'[request'[h].queue]
      PROVE  ReadInv'
  <2>1. next_event_id \in [Queues -> Int] /\ next_event_id' \in [Queues -> Int]
    BY DEF EventsOK
  <2>2. \A q \in Queues : q \in told' => next_event_id'[q] >= 0
    BY <1>0, <2>1 DEF ReadInv
  <2> QED
    BY <1>0, <2>2, ReadKept
\* queues lose events
<1>1. ASSUME UNCHANGED <<got, told, next_event_id, seen>>,
             \A q \in Queues : queue'[q] \subseteq queue[q],
             \A h \in Handlers : request'[h].phase = "django" => request'[h] = request[h],
             \A h \in handlers' : request'[h].phase = "finishing" =>
               \/ request'[h] = request[h] /\ h \in handlers
               \/ request'[h].answer = queue'[request'[h].queue]
      PROVE  ReadInv'
  <2>1. \A q \in Queues : next_event_id[q] <= next_event_id'[q]
    BY <1>1 DEF EventsOK
  <2> QED
    BY <1>0, <1>1, <2>1
\* requests do not change
<1>2. ASSUME UNCHANGED <<got, told, next_event_id, seen, request>>, handlers' \subseteq handlers,
             \A q \in Queues : queue'[q] \subseteq queue[q]
      PROVE  ReadInv'
  BY <1>1, <1>2
\* an event is added
<1>3. ASSUME NEW S \in SUBSET clients, NEW body, add_event(S, body),
             UNCHANGED <<got, told, seen>>
      PROVE  ReadInv'
  <2>1. /\ next_event_id \in [Queues -> Int] /\ S \in SUBSET Queues
        /\ queue' \in [Queues -> SUBSET Events]
    BY DEF EventsOK, TablesOK
  <2>2. \A q \in Queues : next_event_id[q] <= next_event_id'[q]
    BY <1>3, <2>1 DEF add_event
  <2>3. ASSUME NEW q \in Queues, NEW e \in queue'[q]
        PROVE  e \in queue[q] \/ e.id >= next_event_id[q]
    <3> DEFINE event == [id |-> next_event_id[q], message |-> body[q].message,
                         internal |-> body[q].internal]
    <3>1. queue'[q] = IF q \in S THEN queue[q] \cup {event} ELSE queue[q]
      BY <1>3 DEF add_event, Pushed
    <3>2. event.id = next_event_id[q] /\ next_event_id[q] \in Int
      BY <2>1
    <3> HIDE DEF event
    <3>3. e \in queue[q] \/ e = event
      BY <3>1
    <3> QED
      BY <3>2, <3>3
  <2>4. request' = finished(S, queue') /\ handlers' = handlers
    BY <1>3 DEF add_event, finish_current_handler
  <2>5. /\ \A h \in Handlers : request'[h].phase = "django" => request'[h] = request[h]
        /\ \A h \in handlers' : request'[h].phase = "finishing" =>
             \/ request'[h] = request[h] /\ h \in handlers
             \/ request'[h].answer = queue'[request'[h].queue]
    BY <2>1, <2>4, FinishRequests DEF ConnectionsOK
  <2> QED
    BY <1>0, <1>3, <2>2, <2>3, <2>5
<1>4. CASE gc_event_queues
  <2> DEFINE S == {q \in clients : expired(q)}
  <2>1. do_gc_event_queues(S) /\ S \in SUBSET clients
        /\ UNCHANGED <<got, told, next_event_id, seen, request, handlers>>
    BY <1>4 DEF gc_event_queues, connections, outside
  <2> HIDE DEF S
  <2>2. \A q \in Queues : queue'[q] \subseteq queue[q]
    BY <2>1, CollectTypes
  <2> QED
    BY <1>2, <2>1, <2>2
<1>5. CASE cleanup
  <2>1. CASE cleaning \in clients
    <3>1. /\ do_gc_event_queues({cleaning}) /\ {cleaning} \in SUBSET clients
          /\ {cleaning} \in SUBSET Queues /\ queue \in [Queues -> SUBSET Events]
          /\ UNCHANGED <<got, told, next_event_id, seen>>
          /\ request' = finished({cleaning}, queue) /\ handlers' = handlers
      BY <1>5, <2>1 DEF cleanup, outside, finish_current_handler, TablesOK, EventsOK
    <3>2. \A q \in Queues : queue'[q] \subseteq queue[q]
      BY <3>1, CollectTypes
    <3>3. ASSUME NEW h \in Handlers
          PROVE  /\ request'[h].phase = "django" => request'[h] = request[h]
                 /\ request'[h].phase = "finishing" /\ h \in handlers =>
                      request'[h] = request[h] \/ request'[h].answer = queue[request'[h].queue]
      BY <3>1, FinishRequests
    <3>4. ASSUME NEW q \in Queues PROVE got'[q] < next_event_id'[q] \/ (got'[q] = -1 /\ next_event_id'[q] = -1)
      BY <3>1 DEF ReadInv
    <3>5. ASSUME NEW h \in handlers', request'[h].phase = "finishing"
          PROVE  \A e \in queue'[request'[h].queue] : \A a \in request'[h].answer :
                   e.id <= a.id => e \in request'[h].answer
      <4>1. h \in handlers /\ h \in Handlers /\ request'[h].queue \in Queues
        BY <3>1, <3>5 DEF ConnectionsOK, RequestInv, Sound
      <4>2. queue'[request'[h].queue] \subseteq queue[request'[h].queue]
        BY <3>2, <4>1
      <4>3. CASE request'[h] = request[h]
        BY <3>5, <4>1, <4>2, <4>3 DEF ReadInv
      <4>4. CASE request'[h].answer = queue[request'[h].queue]
        BY <4>2, <4>4
      <4> QED
        BY <3>3, <3>5, <4>1, <4>3, <4>4
    <3>6. \A h \in Handlers :
            request'[h].phase = "django" => request'[h].last <= got'[request'[h].queue]
      BY <3>1, <3>3 DEF ReadInv
    <3> QED
      BY <3>1, <3>2, <3>4, <3>5, <3>6 DEF ReadInv
  <2>2. CASE cleaning \notin clients
    BY <1>2, <1>5, <2>2 DEF cleanup, events, connections, outside
  <2> QED
    BY <2>1, <2>2
<1>6. ASSUME NEW h \in Handlers, fetch_error(h) \/ on_connection_close(h) PROVE ReadInv'
  <2>1. /\ request' = request \/ request' = Over(h, request)
        /\ handlers' = handlers \ {h}
        /\ UNCHANGED <<got, told, next_event_id, seen, queue>>
    BY <1>6 DEF fetch_error, on_connection_close, events, outside
  <2>2. ASSUME NEW i \in Handlers
        PROVE  request'[i] = request[i] \/ request'[i] = NoRequest
    BY <2>1 DEF Over, ConnectionsOK
  <2>3. NoRequest.phase = "none" /\ handlers' \subseteq Handlers
    BY <2>1 DEF NoRequest, ConnectionsOK
  <2> QED
    BY <1>1, <2>1, <2>2, <2>3
<1>7. ASSUME NEW h \in Handlers, connect_handler(h) PROVE ReadInv'
  <2>1. PICK q \in Queues :
          /\ request' = [finished({q}, queue') EXCEPT ![h].phase = "waiting"]
          /\ {q} \in SUBSET Queues /\ UNCHANGED <<got, told, next_event_id, seen, handlers>>
    <3>1. request[h].queue \in Queues
      BY <1>7, AcceptedTypes DEF connect_handler
    <3> QED
      BY <1>7, <3>1 DEF connect_handler, outside
  <2>2. queue' \in [Queues -> SUBSET Events] /\ \A p \in Queues : queue'[p] \subseteq queue[p]
    BY <1>7, AcceptedTypes DEF connect_handler, EventsOK
  <2> DEFINE F == finished({q}, queue')
             r == [F[h] EXCEPT !.phase = "waiting"]
  <2>3. F \in [Handlers -> RequestType]
    <3>1. F = [i \in Handlers |-> F[i]]
      BY DEF finished
    <3> QED
      BY <2>1, <2>2, <3>1, FinishedTypes
  <2>4. request' = [F EXCEPT ![h] = r]
    BY <2>1
  <2>5. ASSUME NEW i \in Handlers
        PROVE  /\ F[i].phase = "django" => F[i] = request[i]
               /\ F[i].phase = "finishing" /\ i \in handlers =>
                    F[i] = request[i] \/ F[i].answer = queue'[F[i].queue]
    BY <2>1, <2>2, FinishRequests
  <2> HIDE DEF F
  <2>6. r.phase = "waiting"
    BY <2>3 DEF RequestType
  <2> HIDE DEF r
  <2>7. request'[h] = r /\ \A i \in Handlers \ {h} : request'[i] = F[i]
    BY <2>3, <2>4
  <2>8. \A i \in Handlers : request'[i].phase = "django" => request'[i] = request[i]
    BY <2>5, <2>6, <2>7
  <2>9. ASSUME NEW i \in handlers', request'[i].phase = "finishing"
        PROVE  \/ request'[i] = request[i] /\ i \in handlers
               \/ request'[i].answer = queue'[request'[i].queue]
    <3>1. i \in handlers /\ i \in Handlers
      BY <2>1 DEF ConnectionsOK
    <3>2. i # h /\ request'[i] = F[i]
      BY <2>6, <2>7, <2>9, <3>1
    <3> QED
      BY <2>5, <2>9, <3>1, <3>2
  <2> QED
    BY <1>1, <2>1, <2>2, <2>8, <2>9
<1>8. ASSUME NEW q \in Queues, timeout_callback(q) PROVE ReadInv'
  <2>1. {q} \in SUBSET clients /\ add_event({q}, Heartbeat) /\ UNCHANGED <<got, told, seen>>
    BY <1>8 DEF timeout_callback, QueueInv, outside
  <2> QED
    BY <1>3, <2>1
<1>9. ASSUME NEW m \in Messages, NEW idle \in SUBSET Users, process_message_event(m, idle)
      PROVE  ReadInv'
  <2> DEFINE S == Receivers(m)
             body == Body(m, {u \in Recipients[m] : receiver_is_off_zulip(u) \/ u \in idle})
  <2>1. add_event(S, body) /\ S \in SUBSET clients /\ UNCHANGED <<got, told, seen>>
    BY <1>9
       DEF process_message_event, Receivers, get_client_info_for_message_event, TablesAgree
  <2> HIDE DEF S, body
  <2> QED
    BY <1>3, <2>1
<1>10. ASSUME NEW m \in Messages, NEW idle \in SUBSET Users, process_message_fails(m, idle)
       PROVE  ReadInv'
  BY <1>2, <1>10 DEF process_message_fails, events, connections, outside
<1>11. ASSUME NEW q \in Queues, initialize(q) PROVE ReadInv'
  <2> DEFINE r == [phase |-> "django", queue |-> q, last |-> got[q], answer |-> {}]
  <2>1. /\ request' = [request EXCEPT ![next_handler_id] = r]
        /\ handlers' = handlers \cup {next_handler_id} /\ next_handler_id < MaxHandlers
        /\ UNCHANGED <<got, told, seen, queue, next_event_id>>
    BY <1>11 DEF initialize, events, outside
  <2>2. next_handler_id \in Handlers /\ got[q] \in Int
    BY <2>1 DEF Handlers, ConnectionsOK, OutsideOK
  <2>3. r.phase = "django" /\ r.last <= got[r.queue]
    BY <2>2
  <2> HIDE DEF r
  <2>4. request'[next_handler_id] = r /\ \A h \in Handlers \ {next_handler_id} : request'[h] = request[h]
    BY <2>1, <2>2 DEF ConnectionsOK
  <2>5. \A h \in Handlers : request'[h].phase = "django" =>
          request'[h] = request[h] \/ request'[h].last <= got[request'[h].queue]
    BY <2>3, <2>4
  <2>6. \A h \in handlers' : request'[h].phase = "finishing" =>
          request'[h] = request[h] /\ h \in handlers
    BY <2>1, <2>3, <2>4 DEF ConnectionsOK
  <2>7. \A p \in Queues : /\ p \in told' => next_event_id'[p] >= 0
                          /\ next_event_id[p] <= next_event_id'[p]
    BY <2>1 DEF ReadInv, EventsOK
  <2> QED
    BY <2>1, <2>5, <2>6, <2>7, ReadKept
<1>12. ASSUME NEW q \in Queues, cleanup_event_queue(q) \/ TimePasses(q) PROVE ReadInv'
  BY <1>2, <1>12 DEF cleanup_event_queue, TimePasses, events, connections, outside
<1>13. ASSUME NEW q \in Queues, NEW heard \in BOOLEAN, allocate_client_descriptor(q, heard)
       PROVE  ReadInv'
  <2>1. /\ next_event_id[q] = -1 /\ next_event_id' = [next_event_id EXCEPT ![q] = 0]
        /\ told' = told \cup {q} \/ told' = told
        /\ UNCHANGED <<queue, got, handlers, request>>
        /\ \A u \in Users : seen[u] \subseteq seen'[u]
    BY <1>13 DEF allocate_client_descriptor, connections, OutsideOK, EventsOK, Used
  <2>2. next_event_id \in [Queues -> Int]
    BY DEF EventsOK
  <2>3. \A p \in Queues : /\ p \in told' => next_event_id'[p] >= 0
                          /\ next_event_id[p] <= next_event_id'[p]
    BY <2>1, <2>2 DEF ReadInv
  <2> QED
    BY <2>1, <2>3, ReadKept
<1>14. ASSUME NEW m \in Messages, send_event(m) PROVE ReadInv'
  BY <1>2, <1>14 DEF send_event, events, connections
<1>15. CASE UNCHANGED vars
  BY <1>2, <1>15 DEF vars, events, connections, outside
<1> QED
  BY <1>4, <1>5, <1>6, <1>7, <1>8, <1>9, <1>10, <1>11, <1>12, <1>13, <1>14, <1>15,
     ReadFinish, ReadFetch DEF Next, Loop, Others, fetch_events

(***************************************************************************)
(* A queue that is listed, takes a message of its user and has a client    *)
(* covers it: the queue holds it, or the user has seen it or was notified. *)
(***************************************************************************)
Holds(q, m) == \E e \in queue[q] : e.message = m /\ e.internal = "pending"

Processed == sent \ (notices \cup dropped)

Covered ==
    \A m \in Processed : \A u \in Recipients[m] : \A p \in user_clients[u] \cap told :
      accepts_event(p, m) => m \in seen[u] \/ notified[u][m] > 0 \/ Holds(p, m)

LEMMA CoveredStep ==
    ASSUME ServerInv, ServerInv', Covered, NeverForgotten,
           \A u \in Users : seen[u] \subseteq seen'[u],
           \A u \in Users, m \in Messages : notified[u][m] > 0 => notified'[u][m] > 0,
           \A q \in Queues, i \in Messages : Deaf(q, i) => Deaf(q, i)',
           \A u \in Users : \A p \in user_clients'[u] \cap told' :
             p \in user_clients[u] \cap told \/ sent' \subseteq seen'[u],
           \A q \in clients : \A e \in queue[q] : \A m \in Messages :
             e.message = m /\ e.internal = "pending" =>
               \/ e \in queue'[q]
               \/ m \in seen'[Owner[q]]
               \/ notified'[Owner[q]][m] > 0
               \/ q \notin clients' /\ user_clients'[Owner[q]] # {},
           \A m \in Processed' \ Processed : \A u \in Recipients[m] :
             \/ notified'[u][m] > 0
             \/ /\ user_clients'[u] # {}
                /\ \A p \in user_clients'[u] : accepts_event(p, m) => Holds(p, m)'
    PROVE  Covered' /\ NeverForgotten'
<1> USE DEF ServerInv
<1>1. \A m \in Messages : Recipients[m] \subseteq Users
  OBVIOUS
<1>2. \A u \in Users : /\ user_clients[u] \subseteq clients /\ clients \subseteq Queues
                       /\ \A q \in user_clients[u] : Owner[q] = u
  BY DEF TablesAgree, TablesOK
<1>3. \A u \in Users : /\ user_clients'[u] \subseteq clients' /\ clients' \subseteq Queues
                       /\ \A q \in user_clients'[u] : Owner[q] = u
  BY DEF TablesAgree, TablesOK
<1>4. sent \subseteq Messages /\ sent' \subseteq Messages
  BY DEF OutsideOK
\* what a queue held is held, seen, notified, or the user's other queues are there
<1>5. ASSUME NEW m \in Messages, NEW q \in clients, Holds(q, m)
      PROVE  \/ Holds(q, m)' \/ m \in seen'[Owner[q]] \/ notified'[Owner[q]][m] > 0
             \/ q \notin clients' /\ user_clients'[Owner[q]] # {}
  BY <1>5 DEF Holds
<1>6. ASSUME NEW m \in Processed', NEW u \in Recipients[m],
             NEW p \in user_clients'[u] \cap told'
      PROVE  accepts_event(p, m) =>
               m \in seen'[u] \/ notified'[u][m] > 0 \/ Holds(p, m)'
  <2> SUFFICES ASSUME accepts_event(p, m)
               PROVE  m \in seen'[u] \/ notified'[u][m] > 0 \/ Holds(p, m)'
    OBVIOUS
  <2>1. m \in Messages /\ u \in Users /\ p \in clients' /\ Owner[p] = u
    BY <1>1, <1>3, <1>4 DEF Processed
  <2>2. CASE m \notin Processed
    BY <2>1, <2>2
  <2>3. CASE m \in Processed /\ p \notin user_clients[u] \cap told
    BY <1>6, <2>1, <2>3 DEF Processed
  <2>4. CASE m \in Processed /\ p \in user_clients[u] \cap told
    <3>1. m \in seen[u] \/ notified[u][m] > 0 \/ Holds(p, m)
      BY <2>4 DEF Covered
    <3>2. CASE m \in seen[u] \/ notified[u][m] > 0
      BY <2>1, <3>2
    <3>3. CASE Holds(p, m)
      <4>1. p \in clients
        BY <1>2, <2>1, <2>4
      <4> QED
        BY <1>5, <2>1, <3>3, <4>1
    <3> QED
      BY <3>1, <3>2, <3>3
  <2> QED
    BY <2>2, <2>3, <2>4
<1>7. Covered'
  BY <1>6 DEF Covered
<1>8. ASSUME NEW m \in Processed', NEW u \in Recipients[m]
      PROVE  \/ \E q \in Queues : Owner[q] = u /\ Deaf(q, m)'
             \/ m \in seen'[u] \/ notified'[u][m] > 0
             \/ \E q \in clients' : Owner[q] = u /\ Holds(q, m)'
  <2>1. m \in Messages /\ u \in Users
    BY <1>1, <1>4 DEF Processed
  \* a listed queue is deaf, or covers the message
  <2>2. ASSUME NEW p \in user_clients'[u]
        PROVE  \/ \E q \in Queues : Owner[q] = u /\ Deaf(q, m)'
               \/ m \in seen'[u] \/ notified'[u][m] > 0
               \/ \E q \in clients' : Owner[q] = u /\ Holds(q, m)'
    <3>1. p \in clients' /\ p \in Queues /\ Owner[p] = u
      BY <1>3, <2>1
    <3>2. next_event_id'[p] \in Nat
      BY <3>1 DEF QueueInv
    <3>3. CASE accepts_event(p, m) /\ p \in told'
      BY <1>6, <3>1, <3>3
    <3>4. CASE ~ (accepts_event(p, m) /\ p \in told')
      <4>1. Deaf(p, m)'
        BY <3>2, <3>4 DEF Deaf
      <4> QED
        BY <3>1, <4>1
    <3> QED
      BY <3>3, <3>4
  <2>3. CASE m \notin Processed
    BY <2>2, <2>3
  <2>4. CASE m \in Processed
    <3>1. \/ \E q \in Queues : Owner[q] = u /\ Deaf(q, m)
          \/ m \in seen[u] \/ notified[u][m] > 0
          \/ \E q \in clients : Owner[q] = u /\ Holds(q, m)
      BY <2>4 DEF NeverForgotten, Holds, Processed
    <3>2. CASE \E q \in Queues : Owner[q] = u /\ Deaf(q, m)
      BY <2>1, <3>2
    <3>3. CASE m \in seen[u] \/ notified[u][m] > 0
      BY <2>1, <3>3
    <3>4. CASE \E q \in clients : Owner[q] = u /\ Holds(q, m)
      <4>1. PICK q \in clients : Owner[q] = u /\ Holds(q, m)
        BY <3>4
      <4>2. CASE Holds(q, m)'
        <5>1. q \in Queues
          BY <4>1 DEF TablesOK
        <5>2. q \in clients'
          BY <4>2, <5>1 DEF QueueInv, Holds
        <5> QED
          BY <4>1, <4>2, <5>2
      <4>3. CASE m \in seen'[u] \/ notified'[u][m] > 0
        BY <4>3
      <4>4. CASE user_clients'[u] # {}
        BY <2>2, <4>4
      <4> QED
        BY <1>5, <2>1, <4>1, <4>2, <4>3, <4>4
    <3> QED
      BY <3>1, <3>2, <3>3, <3>4
  <2> QED
    BY <2>3, <2>4
<1>9. NeverForgotten'
  BY <1>8 DEF NeverForgotten, Holds, Processed
<1> QED
  BY <1>7, <1>9

\* the steps in which clients, lists and notices do not change
LEMMA CoveredKept ==
    ASSUME ServerInv, ServerInv', Covered, NeverForgotten,
           UNCHANGED <<clients, user_clients, notified, told>>,
           Processed' \subseteq Processed,
           \A u \in Users : seen[u] \subseteq seen'[u],
           \A q \in Queues : next_event_id[q] >= 0 => next_event_id'[q] >= 0,
           \A q \in Queues : \A e \in queue[q] :
             e.message \in Messages => e \in queue'[q] \/ e.message \in seen'[Owner[q]]
    PROVE  Covered' /\ NeverForgotten'
<1>1. \A q \in Queues, i \in Messages : Deaf(q, i) => Deaf(q, i)'
  BY DEF Deaf
<1>2. \A q \in clients : q \in Queues
  BY DEF ServerInv, TablesOK
<1> QED
  BY <1>1, <1>2, CoveredStep

LEMMA CoveredCollect ==
    ASSUME ServerInv, ServerInv', Covered, NeverForgotten,
           NEW S \in SUBSET clients, do_gc_event_queues(S),
           UNCHANGED <<sent, notices, dropped, told, seen, next_event_id>>
    PROVE  Covered' /\ NeverForgotten'
<1> USE DEF ServerInv
<1>1. user_clients' = [u \in Users |-> user_clients[u] \ S]
  BY DEF do_gc_event_queues, RemoveFromLists
<1>2. \A q \in Queues, i \in Messages : Deaf(q, i) => Deaf(q, i)'
  BY DEF Deaf
<1>3. clients \subseteq Queues
  BY DEF TablesOK
\* the hook of a removed queue notifies, unless the user has another queue
<1>4. ASSUME NEW R \in SUBSET S, Remove(R), NEW count,
             \A u \in Users, m \in Messages : count[u][m] \in Nat,
             \A u \in Users, m \in Messages : count[u][m] >= MissedBy(u, m, R, S),
             Notify(count)
      PROVE  Covered' /\ NeverForgotten'
  <2>1. /\ clients' = clients \ R
        /\ \A q \in Queues : queue'[q] = IF q \in R THEN {} ELSE queue[q]
    BY <1>4 DEF Remove
  <2>2. \A u \in Users, m \in Messages :
          /\ count[u][m] = 0 => notified'[u][m] = notified[u][m]
          /\ count[u][m] # 0 => notified'[u][m] > 0
    BY <1>4, NotifyTypes
  <2>3. \A u \in Users, m \in Messages : notified[u][m] > 0 => notified'[u][m] > 0
    BY <2>2
  <2>4. ASSUME NEW q \in clients, NEW e \in queue[q], NEW m \in Messages,
               e.message = m, e.internal = "pending"
        PROVE  \/ e \in queue'[q]
               \/ notified'[Owner[q]][m] > 0
               \/ q \notin clients' /\ user_clients'[Owner[q]] # {}
    <3>1. q \in Queues /\ Owner[q] \in Users
      BY <1>3
    <3>2. CASE q \notin R
      BY <2>1, <2>4, <3>1, <3>2
    <3>3. CASE q \in R /\ Left(Owner[q], S) # {}
      BY <1>1, <2>1, <3>1, <3>3 DEF Left
    <3>4. CASE q \in R /\ Left(Owner[q], S) = {}
      <4> DEFINE u == Owner[q]
                 Q == {p \in R : Owner[p] = u /\ m \in Missed(p, S)}
      <4>1. m \in Missed(q, S)
        BY <2>4, <3>4 DEF Missed
      <4>2. q \in Q /\ Q \subseteq clients
        BY <3>4, <4>1
      <4>3. MissedBy(u, m, R, S) = Cardinality(Q)
        BY DEF MissedBy
      <4> HIDE DEF Q
      <4>4. IsFiniteSet(Q) /\ Cardinality(Q) \in Nat /\ Cardinality(Q) # 0
        BY <4>2, FS_Subset, FS_CardinalityType, FS_EmptySet DEF QueueInv
      <4>5. count[u][m] \in Nat /\ count[u][m] >= MissedBy(u, m, R, S)
        BY <1>4, <3>1
      <4>6. count[u][m] # 0
        BY <4>3, <4>4, <4>5
      <4> QED
        BY <2>2, <3>1, <4>6
    <3> QED
      BY <3>2, <3>3, <3>4
  <2> QED
    BY <1>1, <1>2, <2>3, <2>4, CoveredStep DEF Processed
<1>5. CASE /\ Remove(S)
           /\ Notify([u \in Users |-> [m \in Messages |-> MissedBy(u, m, S, S)]])
  <2> DEFINE count == [u \in Users |-> [m \in Messages |-> MissedBy(u, m, S, S)]]
  <2>1. \A u \in Users, m \in Messages :
          count[u][m] \in Nat /\ count[u][m] >= MissedBy(u, m, S, S)
    BY MissedCount
  <2> HIDE DEF count
  <2> QED
    BY <1>4, <1>5, <2>1 DEF count
<1>6. ASSUME NEW R \in SUBSET S, NEW failing \in S \ R,
             NEW sentBefore \in SUBSET Missed(failing, S), Remove(R),
             Notify([u \in Users |-> [m \in Messages |->
                       MissedBy(u, m, R, S)
                         + IF u = Owner[failing] /\ m \in sentBefore THEN 1 ELSE 0]])
      PROVE  Covered' /\ NeverForgotten'
  <2> DEFINE count == [u \in Users |-> [m \in Messages |->
                         MissedBy(u, m, R, S)
                           + IF u = Owner[failing] /\ m \in sentBefore THEN 1 ELSE 0]]
  <2>1. \A u \in Users, m \in Messages :
          count[u][m] \in Nat /\ count[u][m] >= MissedBy(u, m, R, S)
    BY MissedCount
  <2> HIDE DEF count
  <2> QED
    BY <1>4, <1>6, <2>1 DEF count
<1> QED
  BY <1>5, <1>6 DEF do_gc_event_queues

LEMMA CoveredFetch ==
    ASSUME ServerInv, ServerInv', ReadInv, Covered, NeverForgotten, NEW h \in Handlers,
           fetch_response(h) \/ connect_handler(h)
    PROVE  Covered' /\ NeverForgotten'
<1> USE DEF ServerInv
<1>1. PICK q \in Queues :
        /\ q = request[h].queue /\ request[h].phase = "django"
        /\ queue' = [queue EXCEPT ![q] = Kept(h)]
        /\ UNCHANGED <<clients, user_clients, notified, told, sent, notices, dropped, next_event_id>>
  BY AcceptedTypes
     DEF fetch_response, connect_handler, Accepted, InDjango, tables, outside, effects, retries
<1>2. /\ Kept(h) \in SUBSET Events /\ \A e \in Kept(h) : e.id < next_event_id[q]
      /\ q \in Queues
  BY <1>1, AcceptedTypes DEF fetch_response, connect_handler
<1>3. \A u \in Users : seen[u] \subseteq seen'[u]
  <2>1. CASE fetch_response(h)
    <3>1. Receive(h, Kept(h))
      BY <2>1 DEF fetch_response
    <3>2. PICK kept \in SUBSET Events : kept = Kept(h)
      BY <1>2
    <3> QED
      BY <1>1, <1>2, <3>1, <3>2, ReceiveReads
  <2>2. CASE connect_handler(h)
    BY <2>2 DEF connect_handler, outside
  <2> QED
    BY <2>1, <2>2
<1>4. ASSUME NEW p \in Queues, NEW e \in queue[p], e.message \in Messages
      PROVE  e \in queue'[p] \/ e.message \in seen'[Owner[p]]
  <2>1. CASE p # q
    BY <1>1, <2>1 DEF EventsOK
  <2>2. CASE p = q /\ e.id > request[h].last
    BY <1>1, <2>2 DEF EventsOK, Kept
  <2>3. CASE p = q /\ ~ (e.id > request[h].last)
    <3>1. e.id \in Nat /\ request[h].last \in Int /\ got[q] \in Int
      BY DEF EventsOK, Events, ConnectionsOK, RequestType, OutsideOK
    <3>2. request[h].last <= got[q]
      BY <1>1 DEF ReadInv
    <3>3. e.id <= got[q]
      BY <2>3, <3>1, <3>2
    <3>4. e.message \in seen[Owner[q]]
      BY <1>4, <2>3, <3>3 DEF ReadInv
    <3> QED
      BY <1>3, <2>3, <3>4
  <2> QED
    BY <2>1, <2>2, <2>3
<1> QED
  BY <1>1, <1>3, <1>4, CoveredKept DEF Processed

LEMMA CoveredProcess ==
    ASSUME ServerInv, ServerInv', Covered, NeverForgotten,
           NEW m \in Messages, NEW idle \in SUBSET Users, process_message_event(m, idle)
    PROVE  Covered' /\ NeverForgotten'
<1> USE DEF ServerInv
<1> DEFINE N == {u \in Recipients[m] : receiver_is_off_zulip(u) \/ u \in idle}
           S == Receivers(m)
           body == Body(m, N)
<1>0. /\ N \in SUBSET Users /\ S \in SUBSET clients
      /\ body \in [Queues -> [message : Messages \cup {None},
                              internal : {"none", "pending", "notified"}]]
  <2>1. N \in SUBSET Users
    OBVIOUS
  <2>2. S \in SUBSET clients
    BY DEF Receivers, get_client_info_for_message_event, TablesAgree
  <2>3. body \in [Queues -> [message : Messages \cup {None},
                             internal : {"none", "pending", "notified"}]]
    BY DEF Body
  <2> QED
    BY <2>1, <2>2, <2>3
<1>1. /\ Notify(Once(m, N)) /\ add_event(S, body)
      /\ \A u \in Recipients[m] \ N : user_clients[u] # {}
      /\ \A u \in Recipients[m] : \A p \in user_clients[u] : accepts_event(p, m) => p \in S
      /\ \A q \in Queues : /\ body[q].message = m
                           /\ Owner[q] \in Recipients[m] \ N => body[q].internal = "pending"
  <2>1. Notify(Once(m, N)) /\ add_event(S, body)
    BY DEF process_message_event
  <2>2. \A u \in Recipients[m] \ N : user_clients[u] # {}
    BY DEF receiver_is_off_zulip
  <2>3. \A u \in Recipients[m] : \A p \in user_clients[u] : accepts_event(p, m) => p \in S
    BY DEF Receivers, get_client_info_for_message_event
  <2>4. \A q \in Queues : /\ body[q].message = m
                          /\ Owner[q] \in Recipients[m] \ N => body[q].internal = "pending"
    BY DEF Body
  <2> QED
    BY <2>1, <2>2, <2>3, <2>4
<1> HIDE DEF N, S, body
<1> USE <1>0
<1>2. /\ m \in notices /\ notices' = notices \ {m}
      /\ UNCHANGED <<clients, user_clients, sent, told, seen, dropped>>
  BY DEF process_message_event, tables, retries
<1>3. Recipients[m] \subseteq Users /\ S \subseteq Queues
  BY DEF TablesOK
<1>4. \A u \in Users, i \in Messages :
        /\ Once(m, N)[u][i] \in Nat
        /\ u \in N => Once(m, N)[u][m] = 1
  BY DEF Once
<1>5. \A u \in Users, i \in Messages :
        /\ notified[u][i] > 0 => notified'[u][i] > 0
        /\ u \in N => notified'[u][m] > 0
  BY <1>1, <1>4, NotifyTypes
<1>6. \A q \in Queues : queue[q] \subseteq queue'[q]
  BY <1>1 DEF add_event, Pushed
<1>7. ASSUME NEW q \in S, Owner[q] \in Recipients[m] \ N PROVE Holds(q, m)'
  <2> DEFINE event == [id |-> next_event_id[q], message |-> body[q].message,
                       internal |-> body[q].internal]
  <2>1. queue'[q] = queue[q] \cup {event}
    BY <1>1, <1>3 DEF add_event, Pushed
  <2>2. event.message = m /\ event.internal = "pending"
    BY <1>1, <1>3, <1>7
  <2> HIDE DEF event
  <2> QED
    BY <2>1, <2>2 DEF Holds
<1>8. \A q \in Queues : next_event_id[q] >= 0 => next_event_id'[q] >= 0
  BY <1>1 DEF add_event, EventsOK
<1>9. \A q \in Queues, i \in Messages : Deaf(q, i) => Deaf(q, i)'
  BY <1>2, <1>8 DEF Deaf
<1>10. ASSUME NEW i \in Processed' \ Processed, NEW u \in Recipients[i]
       PROVE  \/ notified'[u][i] > 0
              \/ /\ user_clients'[u] # {}
                 /\ \A p \in user_clients'[u] : accepts_event(p, i) => Holds(p, i)'
  <2>1. i = m
    BY <1>2, <1>10 DEF Processed
  <2>2. CASE u \in N
    BY <1>5, <2>1, <2>2
  <2>3. CASE u \notin N
    <3>1. /\ user_clients[u] # {}
          /\ \A p \in user_clients[u] : accepts_event(p, m) => p \in S
      BY <1>1, <1>10, <2>1, <2>3
    <3>2. \A p \in user_clients[u] : Owner[p] = u
      BY <1>3, <1>10, <2>1 DEF TablesAgree
    <3> QED
      BY <1>2, <1>7, <1>10, <2>1, <2>3, <3>1, <3>2
  <2> QED
    BY <2>2, <2>3
<1>11. \A q \in clients : \A e \in queue[q] : e \in queue'[q]
  BY <1>6 DEF TablesOK
<1>12. \A u \in Users : /\ seen[u] \subseteq seen'[u]
                        /\ \A p \in user_clients'[u] \cap told' :
                             p \in user_clients[u] \cap told
  BY <1>2
<1> QED
  BY <1>5, <1>9, <1>10, <1>11, <1>12, CoveredStep

LEMMA CoveredAllocate ==
    ASSUME ServerInv, ServerInv', ReadInv, Covered, NeverForgotten,
           NEW q \in Queues, NEW heard \in BOOLEAN, allocate_client_descriptor(q, heard)
    PROVE  Covered' /\ NeverForgotten'
<1> USE DEF ServerInv
<1>1. /\ q \notin clients /\ next_event_id[q] = -1
      /\ user_clients' = [user_clients EXCEPT ![Owner[q]] = user_clients[Owner[q]] \cup {q}]
      /\ next_event_id' = [next_event_id EXCEPT ![q] = 0]
      /\ told' = IF heard THEN told \cup {q} ELSE told
      /\ seen' = IF heard THEN [seen EXCEPT ![Owner[q]] = seen[Owner[q]] \cup sent] ELSE seen
      /\ UNCHANGED <<queue, sent, notices, dropped, notified>>
  BY DEF allocate_client_descriptor, effects, retries, EventsOK, Used
<1>2. q \notin told
  BY <1>1 DEF ReadInv
<1>3. /\ seen \in [Users -> SUBSET Messages] /\ next_event_id \in [Queues -> Int]
      /\ user_clients \in [Users -> SUBSET Queues] /\ Owner[q] \in Users
  BY DEF OutsideOK, EventsOK, TablesOK
<1>4. \A u \in Users : seen[u] \subseteq seen'[u]
  BY <1>1, <1>3
<1>5. \A p \in Queues, m \in Messages : Deaf(p, m) => Deaf(p, m)'
  BY <1>1, <1>2, <1>3 DEF Deaf
<1>6. ASSUME NEW u \in Users, NEW p \in user_clients'[u] \cap told'
      PROVE  p \in user_clients[u] \cap told \/ sent' \subseteq seen'[u]
  <2>1. CASE p = q
    <3>1. heard
      BY <1>1, <1>2, <1>6, <2>1
    <3>2. u = Owner[q]
      <4>1. q \notin user_clients[u]
        BY <1>1 DEF TablesAgree
      <4> QED
        BY <1>1, <1>3, <1>6, <2>1, <4>1
    <3> QED
      BY <1>1, <1>3, <3>1, <3>2
  <2>2. CASE p # q
    BY <1>1, <1>3, <1>6, <2>2
  <2> QED
    BY <2>1, <2>2
<1> QED
  BY <1>1, <1>4, <1>5, <1>6, CoveredStep DEF Processed

LEMMA CoveredNext ==
    ServerInv /\ ServerInv' /\ ReadInv /\ Covered /\ NeverForgotten /\ [Next]_vars
      => Covered' /\ NeverForgotten'
<1> SUFFICES ASSUME ServerInv, ServerInv', ReadInv, Covered, NeverForgotten, [Next]_vars
             PROVE  Covered' /\ NeverForgotten'
  OBVIOUS
<1> USE DEF ServerInv
\* queues only gain events
<1>0. ASSUME UNCHANGED <<clients, user_clients, notified, told>>,
             Processed' \subseteq Processed,
             \A u \in Users : seen[u] \subseteq seen'[u],
             \A q \in Queues : /\ next_event_id[q] >= 0 => next_event_id'[q] >= 0
                               /\ queue[q] \subseteq queue'[q]
      PROVE  Covered' /\ NeverForgotten'
  BY <1>0, CoveredKept
<1>1. CASE gc_event_queues
  <2> DEFINE S == {q \in clients : expired(q)}
  <2>1. do_gc_event_queues(S) /\ S \in SUBSET clients
        /\ UNCHANGED <<sent, notices, dropped, told, seen, next_event_id>>
    BY <1>1 DEF gc_event_queues, outside
  <2> HIDE DEF S
  <2> QED
    BY <2>1, CoveredCollect
<1>2. CASE cleanup
  <2>1. CASE cleaning \in clients
    <3>1. do_gc_event_queues({cleaning}) /\ {cleaning} \in SUBSET clients
          /\ UNCHANGED <<sent, notices, dropped, told, seen, next_event_id>>
      BY <1>2, <2>1 DEF cleanup, outside
    <3> QED
      BY <3>1, CoveredCollect
  <2>2. CASE cleaning \notin clients
    BY <1>0, <1>2, <2>2 DEF cleanup, tables, events, outside, effects, Processed
  <2> QED
    BY <2>1, <2>2
<1>3. ASSUME NEW h \in Handlers, fetch_error(h) \/ on_connection_close(h)
      PROVE  Covered' /\ NeverForgotten'
  BY <1>0, <1>3
     DEF fetch_error, on_connection_close, tables, events, outside, effects, Processed
<1>4. ASSUME NEW h \in Handlers, zulip_finish(h) PROVE Covered' /\ NeverForgotten'
  <2>1. PICK answer \in SUBSET Events : answer = request[h].answer
    BY DEF ConnectionsOK, RequestType
  <2>2. /\ request[h].queue \in Queues /\ Receive(h, answer)
        /\ \A e \in answer : e.id < next_event_id[request[h].queue]
    BY <1>4, <2>1 DEF zulip_finish, RequestInv, Sound
  <2>3. \A u \in Users : seen[u] \subseteq seen'[u]
    BY <2>1, <2>2, ReceiveReads
  <2>4. UNCHANGED <<clients, user_clients, notified, told, sent, notices, dropped, queue, next_event_id>>
    BY <1>4 DEF zulip_finish, tables, events, effects, retries
  <2> QED
    BY <1>0, <2>3, <2>4 DEF Processed
<1>5. ASSUME NEW q \in Queues, timeout_callback(q) PROVE Covered' /\ NeverForgotten'
  <2>1. add_event({q}, Heartbeat)
        /\ UNCHANGED <<clients, user_clients, notified, told, seen, Processed>>
    BY <1>5 DEF timeout_callback, tables, outside, effects, Processed, retries
  <2>2. \A p \in Queues : /\ next_event_id[p] >= 0 => next_event_id'[p] >= 0
                          /\ queue[p] \subseteq queue'[p]
    BY <2>1 DEF add_event, Pushed, EventsOK
  <2> QED
    BY <1>0, <2>1, <2>2
<1>6. ASSUME NEW m \in Messages, NEW idle \in SUBSET Users, process_message_fails(m, idle)
      PROVE  Covered' /\ NeverForgotten'
  <2>1. PICK done \in SUBSET {u \in Recipients[m] : receiver_is_off_zulip(u) \/ u \in idle} :
          Notify(Once(m, done))
    BY <1>6 DEF process_message_fails
  <2>2. \A u \in Users, i \in Messages : Once(m, done)[u][i] \in Nat
    BY DEF Once
  <2>3. \A u \in Users, i \in Messages : notified[u][i] > 0 => notified'[u][i] > 0
    BY <2>1, <2>2, NotifyTypes
  <2>4. /\ UNCHANGED <<clients, user_clients, told, sent, seen, queue, next_event_id>>
        /\ Processed' \subseteq Processed
    BY <1>6, RetryTypes DEF process_message_fails, tables, events, Processed
  <2>5. \A q \in Queues, i \in Messages : Deaf(q, i) => Deaf(q, i)'
    BY <2>4 DEF Deaf
  <2> QED
    BY <2>3, <2>4, <2>5, CoveredStep
<1>7. ASSUME NEW q \in Queues, initialize(q) \/ cleanup_event_queue(q) \/ TimePasses(q)
      PROVE  Covered' /\ NeverForgotten'
  BY <1>0, <1>7
     DEF initialize, cleanup_event_queue, TimePasses, tables, events, outside, effects,
         Processed
<1>8. ASSUME NEW m \in Messages, send_event(m) PROVE Covered' /\ NeverForgotten'
  BY <1>0, <1>8 DEF send_event, tables, events, effects, retries, Processed, OutsideOK
<1>9. CASE UNCHANGED vars
  BY <1>0, <1>9 DEF vars, tables, events, outside, effects, Processed
<1> QED
  BY <1>1, <1>2, <1>3, <1>4, <1>5, <1>6, <1>7, <1>8, <1>9, CoveredFetch, CoveredProcess,
     CoveredAllocate DEF Next, Loop, Others, fetch_events

(***************************************************************************)
(* No message is forgotten: once its notice has been processed, each of    *)
(* its recipients has seen it, or was notified, or has a queue that holds  *)
(* it for the hook - unless the user has a queue that does not take the    *)
(* message or whose id its client never got, or the notice was dropped     *)
(* after MAX_REQUEST_RETRIES failures.                                     *)
(***************************************************************************)
THEOREM NoMessageIsForgotten == Spec => []NeverForgotten
<1>1. Init => ServerInv /\ WaiterInv /\ ReadInv /\ Covered /\ NeverForgotten
  <2>1. Init => ReadInv
    BY DEF Init, ReadInv, NoRequest
  <2>2. Init => Covered /\ NeverForgotten
    BY DEF Init, Covered, NeverForgotten
  <2> QED
    BY <2>1, <2>2, ServerInit
<1>2. ServerInv /\ WaiterInv /\ ReadInv /\ Covered /\ NeverForgotten /\ [Next]_vars
        => ServerInv' /\ WaiterInv' /\ ReadInv' /\ Covered' /\ NeverForgotten'
  BY ServerStep, WaiterStep, ReadStep, CoveredNext
<1> QED
  BY <1>1, <1>2, PTL DEF Spec
=============================================================================
