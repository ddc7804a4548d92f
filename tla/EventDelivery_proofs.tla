------------------------ MODULE EventDelivery_proofs ------------------------
(***************************************************************************)
(* Proofs about EventDelivery, for any number of payloads, event ids,      *)
(* event types, delayed requests and restarts.                             *)
(***************************************************************************)
EXTENDS EventDelivery, WellFoundedInduction, TLAPS

(***************************************************************************)
(* The operations of EventSet keep the type of a queue, whatever is asked  *)
(* of them.                                                                *)
(***************************************************************************)

\* A bounded set of numbers has a greatest one.
LEMMA GreatestNumber ==
    ASSUME NEW n \in Nat, NEW S \in SUBSET (0 .. n), S # {}
    PROVE  \E m \in S : \A k \in S : k <= m
<1> DEFINE T == {n - i : i \in S}
<1>1. T \in SUBSET Nat /\ T # {}
  <2>1. \A i \in S : n - i \in Nat
    OBVIOUS
  <2>2. PICK i \in S : TRUE
    OBVIOUS
  <2>3. n - i \in T
    OBVIOUS
  <2> QED
    BY <2>1, <2>3
<1>2. PICK j \in T : \A k \in T : <<k, j>> \notin OpToRel(<, Nat)
  BY <1>1, NatLessThanWellFounded, WFMin
<1>3. \A k \in T : ~ (k < j)
  BY <1>1, <1>2 DEF OpToRel
<1>4. PICK m \in S : j = n - m
  OBVIOUS
<1>5. \A k \in S : n - k \in T /\ k \in Nat
  OBVIOUS
<1>6. \A k \in S : ~ (n - k < n - m)
  BY <1>3, <1>4, <1>5
<1> QED
  BY <1>5, <1>6

\* EventQueue.prune keeps the type, for any acknowledgement.
LEMMA PruneType ==
    ASSUME NEW q \in Queue, NEW i \in Nat \cup {-1}
    PROVE  prune(q, i) \in Queue
<1> DEFINE gone == {e \in q.queue : e.id <= i}
<1>1. CASE gone = {}
  BY <1>1 DEF prune
<1>2. CASE gone # {}
  <2>1. \A e \in gone : e.id \in 0 .. i /\ i \in Nat
    BY DEF Queue, Event
  <2>2. i \in Nat /\ Ids(gone) \in SUBSET (0 .. i) /\ Ids(gone) # {}
    BY <1>2, <2>1 DEF Ids
  <2>3. \E m \in Ids(gone) : \A k \in Ids(gone) : k <= m
    BY <2>2, GreatestNumber
  <2>4. MaxId(gone) \in Nat
    <3>1. Ids(gone) \subseteq Nat
      BY <2>2
    <3>2. MaxId(gone) \in Ids(gone)
      BY <2>3 DEF MaxId
    <3> HIDE DEF gone
    <3> QED
      BY <3>1, <3>2
  <2>5. prune(q, i) = [q EXCEPT !.queue = @ \ gone, !.newest_pruned_id = MaxId(gone)]
    BY <1>2 DEF prune
  <2> QED
    BY <2>4, <2>5 DEF Queue
<1> QED
  BY <1>1, <1>2

\* EventQueue.contents keeps the type.
LEMMA ResolveType ==
    ASSUME NEW q \in Queue
    PROVE  resolve(q) \in Queue
BY DEF resolve, Queue, events

(***************************************************************************)
(* What relates a copy q of the queue to its client, when n payloads have  *)
(* been published, those in D dropped by a shutdown, and the client,       *)
(* having processed proc, acknowledges last: this is the heart of the      *)
(* inductive invariant.                                                    *)
(***************************************************************************)
WellFormed(q, n) ==
    /\ q \in Queue
    /\ q.newest_pruned_id < q.next_event_id
    /\ q.queue \cap q.virtual_events = {}
    /\ \A e \in events(q) : q.newest_pruned_id < e.id /\ e.id < q.next_event_id
    /\ \A e, f \in events(q) : e.id = f.id => e = f
    /\ \A e, f \in events(q) : e # f => e.content \cap f.content = {}
    /\ \A e \in events(q) : e.content \subseteq 1 .. n

Covers(q, n, D, last, proc) ==
    \A p \in 1 .. n : \/ p \in proc \cup D
                      \/ \E e \in events(q) : last < e.id /\ p \in e.content

Agrees(q, n, D, last, proc) ==
    /\ q.newest_pruned_id <= last /\ last < q.next_event_id
    /\ last = q.newest_pruned_id \/ last \in Ids(q.queue)
    /\ \A v \in q.virtual_events : last < v.id
    /\ \A e \in events(q) : last < e.id => e.content \cap proc = {}
    /\ Covers(q, n, D, last, proc)

Sound(q, n, D, last, proc) == WellFormed(q, n) /\ Agrees(q, n, D, last, proc)

\* what was dropped is not in the copy that survives the shutdown
Clean(q, D) == \A e \in events(q) : e.content \cap D = {}

(***************************************************************************)
(* The operations of EventSet preserve it.                                 *)
(***************************************************************************)

\* What push does to each field (EventQueue.push).
LEMMA PushFields ==
    ASSUME NEW q \in Queue, NEW t \in Types, NEW c \in SUBSET Payloads
    PROVE  /\ numbered(q, t, c) \in Event
           /\ push(q, t, c) \in Queue
           /\ push(q, t, c).next_event_id = q.next_event_id + 1
           /\ push(q, t, c).newest_pruned_id = q.newest_pruned_id
           /\ q.queue \subseteq push(q, t, c).queue
           /\ push(q, t, c).queue \subseteq q.queue \cup {numbered(q, t, c)}
           /\ push(q, t, c).virtual_events \subseteq
                 q.virtual_events \cup {numbered(q, t, c)}
           /\ \/ push(q, t, c).queue = q.queue
              \/ push(q, t, c).virtual_events = q.virtual_events
           /\ events(push(q, t, c)) =
                 q.queue \cup (q.virtual_events \ merged(q, t)) \cup {numbered(q, t, c)}
<1>1. numbered(q, t, c) \in Event
  BY DEF Queue, Event, Contents, numbered, merged
<1>2. /\ q.queue \in SUBSET Event /\ q.virtual_events \in SUBSET Event
      /\ q.next_event_id \in Nat /\ q.newest_pruned_id \in Nat \cup {-1}
      /\ q = [queue |-> q.queue, virtual_events |-> q.virtual_events,
              next_event_id |-> q.next_event_id, newest_pruned_id |-> q.newest_pruned_id]
  BY DEF Queue
<1>3. CASE t \in VirtualTypes
  <2>1. push(q, t, c) = [queue |-> q.queue,
                         virtual_events |-> (q.virtual_events \ merged(q, t))
                                              \cup {numbered(q, t, c)},
                         next_event_id |-> q.next_event_id + 1,
                         newest_pruned_id |-> q.newest_pruned_id]
    BY <1>2, <1>3 DEF push
  <2>2. push(q, t, c) \in Queue
    BY <1>1, <1>2, <2>1 DEF Queue
  <2> QED
    BY <1>1, <2>1, <2>2 DEF events
<1>4. CASE t \notin VirtualTypes
  <2>1. merged(q, t) = {}
    BY <1>4 DEF merged
  <2>2. push(q, t, c) = [queue |-> q.queue \cup {numbered(q, t, c)},
                         virtual_events |-> q.virtual_events,
                         next_event_id |-> q.next_event_id + 1,
                         newest_pruned_id |-> q.newest_pruned_id]
    BY <1>2, <1>4 DEF push
  <2>3. push(q, t, c) \in Queue
    BY <1>1, <1>2, <2>2 DEF Queue
  <2> QED
    BY <1>1, <2>1, <2>2, <2>3 DEF events
<1> QED
  BY <1>3, <1>4

\* A push that carries c, of fresh payloads or none, keeps the queue well
\* formed; the new event has nothing in common with those it is put beside.
LEMMA WellFormedPush ==
    ASSUME NEW q, NEW n \in Nat, NEW m \in Nat, NEW t \in Types, NEW c \in SUBSET Payloads,
           WellFormed(q, n), n <= m, c = n + 1 .. m
    PROVE  WellFormed(push(q, t, c), m)
<1> DEFINE new == numbered(q, t, c)
           r == push(q, t, c)
<1>1. /\ q \in Queue /\ r \in Queue /\ new \in Event
      /\ r.next_event_id = q.next_event_id + 1
      /\ r.newest_pruned_id = q.newest_pruned_id
      /\ q.queue \subseteq r.queue
      /\ r.queue \subseteq q.queue \cup {new}
      /\ r.virtual_events \subseteq q.virtual_events \cup {new}
      /\ r.queue = q.queue \/ r.virtual_events = q.virtual_events
      /\ events(r) = q.queue \cup (q.virtual_events \ merged(q, t)) \cup {new}
  BY PushFields DEF WellFormed
<1>2. /\ new.id = q.next_event_id
      /\ new.content = c \cup Contents(merged(q, t))
  BY DEF numbered
<1>3. merged(q, t) \subseteq q.virtual_events
  BY DEF merged
<1> HIDE DEF r, new
<1>4. /\ q.next_event_id \in Nat /\ q.newest_pruned_id \in Nat \cup {-1}
      /\ q.newest_pruned_id < q.next_event_id
  BY <1>1 DEF Queue, WellFormed
<1>5. \A e \in events(q) : /\ e.id \in Nat /\ e.content \subseteq 1 .. n
                           /\ q.newest_pruned_id < e.id /\ e.id < q.next_event_id
  BY <1>1 DEF WellFormed, events, Queue, Event
<1>6. \A e \in events(r) : e = new \/ (e \in events(q) /\ (e \in q.queue \/ e \notin merged(q, t)))
  BY <1>1 DEF events
<1>7. \A e \in events(r) : r.newest_pruned_id < e.id /\ e.id < r.next_event_id
  BY <1>1, <1>2, <1>4, <1>5, <1>6
<1>8. \A e, f \in events(r) : e.id = f.id => e = f
  BY <1>1, <1>2, <1>4, <1>5, <1>6 DEF WellFormed
<1>9. \A e \in events(r) : e.content \subseteq 1 .. m
  <2>1. Contents(merged(q, t)) \subseteq 1 .. n
    BY <1>3, <1>5 DEF Contents, events
  <2> QED
    BY <1>2, <1>5, <1>6, <2>1
<1>10. \A e \in events(r) : e # new => e.content \cap new.content = {}
  <2> SUFFICES ASSUME NEW e \in events(r), e # new
               PROVE  e.content \cap new.content = {}
    OBVIOUS
  <2>1. e.content \cap c = {}
    BY <1>5, <1>6
  <2>2. e \in events(q) /\ e \notin merged(q, t)
    BY <1>3, <1>6 DEF WellFormed
  <2>3. \A v \in merged(q, t) : e.content \cap v.content = {}
    BY <1>3, <2>2 DEF WellFormed, events
  <2> QED
    BY <1>2, <2>1, <2>3 DEF Contents
<1>11. \A e, f \in events(r) : e # f => e.content \cap f.content = {}
  BY <1>6, <1>10 DEF WellFormed
<1>12. r.queue \cap r.virtual_events = {}
  <2>1. new \notin events(q)
    BY <1>2, <1>4, <1>5
  <2> QED
    BY <1>1, <2>1 DEF WellFormed, events
<1>13. r.newest_pruned_id < r.next_event_id
  BY <1>1, <1>4
<1> QED
  BY <1>1, <1>7, <1>8, <1>9, <1>11, <1>12, <1>13 DEF WellFormed, r

\* A push leaves every payload in an event the client does not have yet, if
\* the event it is merged with is one.
LEMMA CoversPush ==
    ASSUME NEW q \in Queue, NEW n \in Nat, NEW m \in Nat, NEW D, NEW last, NEW proc,
           NEW t \in Types, NEW c \in SUBSET Payloads,
           Covers(q, n, D, last, proc), last < q.next_event_id,
           n <= m, c = n + 1 .. m
    PROVE  Covers(push(q, t, c), m, D, last, proc)
<1> DEFINE new == numbered(q, t, c)
           r == push(q, t, c)
<1>1. events(r) = q.queue \cup (q.virtual_events \ merged(q, t)) \cup {new}
  BY PushFields
<1>2. /\ new.id = q.next_event_id
      /\ new.content = c \cup Contents(merged(q, t))
  BY DEF numbered
<1> HIDE DEF r, new
<1>3. new \in events(r) /\ last < new.id
  BY <1>1, <1>2
<1>4. ASSUME NEW p \in 1 .. m, p \notin proc \cup D
      PROVE  \E e \in events(r) : last < e.id /\ p \in e.content
  <2>1. CASE p \in c
    BY <1>2, <1>3, <2>1
  <2>2. CASE p \notin c
    <3>1. p \in 1 .. n
      BY <2>2
    <3>2. PICK e \in events(q) : last < e.id /\ p \in e.content
      BY <1>4, <3>1 DEF Covers
    <3>3. CASE e \in merged(q, t)
      BY <1>2, <1>3, <3>2, <3>3 DEF Contents
    <3>4. CASE e \notin merged(q, t)
      <4>1. e \in events(r)
        BY <1>1, <3>4 DEF events
      <4> QED
        BY <3>2, <4>1
    <3> QED
      BY <3>3, <3>4
  <2> QED
    BY <2>1, <2>2
<1> QED
  BY <1>4 DEF Covers, r

\* Such a push keeps the client in agreement.
LEMMA SoundPush ==
    ASSUME NEW q, NEW n \in Nat, NEW m \in Nat, NEW D, NEW last \in Nat \cup {-1}, NEW proc,
           NEW t \in Types, NEW c \in SUBSET Payloads,
           Sound(q, n, D, last, proc), proc \subseteq 1 .. n,
           n <= m, c = n + 1 .. m
    PROVE  Sound(push(q, t, c), m, D, last, proc)
<1> DEFINE new == numbered(q, t, c)
           r == push(q, t, c)
<1>1. /\ q \in Queue
      /\ r.next_event_id = q.next_event_id + 1
      /\ r.newest_pruned_id = q.newest_pruned_id
      /\ q.queue \subseteq r.queue
      /\ r.virtual_events \subseteq q.virtual_events \cup {new}
      /\ events(r) = q.queue \cup (q.virtual_events \ merged(q, t)) \cup {new}
  BY PushFields DEF Sound, WellFormed
<1>2. /\ new.id = q.next_event_id
      /\ new.content = c \cup Contents(merged(q, t))
  BY DEF numbered
<1>3. merged(q, t) \subseteq q.virtual_events
  BY DEF merged
<1>4. WellFormed(r, m) /\ Covers(r, m, D, last, proc)
  BY <1>1, WellFormedPush, CoversPush DEF Sound, Agrees
<1> HIDE DEF r, new
<1>5. q.next_event_id \in Nat /\ q.newest_pruned_id \in Nat \cup {-1}
  BY <1>1 DEF Queue
<1>6. /\ r.newest_pruned_id <= last /\ last < r.next_event_id
      /\ last = r.newest_pruned_id \/ last \in Ids(r.queue)
  BY <1>1, <1>5 DEF Sound, Agrees, Ids
<1>7. \A v \in r.virtual_events : last < v.id
  BY <1>1, <1>2 DEF Sound, Agrees
<1>8. \A v \in merged(q, t) : last < v.id /\ v.content \cap proc = {}
  BY <1>3 DEF Sound, Agrees, events
<1>9. \A e \in events(r) : last < e.id => e.content \cap proc = {}
  <2>1. new.content \cap proc = {}
    BY <1>2, <1>8 DEF Contents
  <2> QED
    BY <1>1, <2>1 DEF Sound, Agrees, events
<1> QED
  BY <1>4, <1>6, <1>7, <1>9 DEF Sound, Agrees, r

\* A copy on disk stays as it is while payloads are dropped.
LEMMA SoundLater ==
    ASSUME NEW q, NEW n \in Nat, NEW m \in Nat, NEW D, NEW G, NEW last, NEW proc,
           n <= m, D \subseteq G, n + 1 .. m \subseteq G
    PROVE  /\ WellFormed(q, n) => WellFormed(q, m)
           /\ Covers(q, n, D, last, proc) => Covers(q, m, G, last, proc)
           /\ Sound(q, n, D, last, proc) => Sound(q, m, G, last, proc)
<1>1. 1 .. n \subseteq 1 .. m /\ \A p \in 1 .. m : p \in 1 .. n \/ p \in G
  OBVIOUS
<1>2. WellFormed(q, n) => WellFormed(q, m)
  BY <1>1 DEF WellFormed
<1>3. Covers(q, n, D, last, proc) => Covers(q, m, G, last, proc)
  BY <1>1 DEF Covers
<1> QED
  BY <1>2, <1>3 DEF Sound, Agrees

\* Nothing changes when the virtual events become real (EventQueue.contents).
LEMMA SoundResolve ==
    ASSUME NEW q, NEW n, NEW D, NEW last, NEW proc, Sound(q, n, D, last, proc)
    PROVE  /\ Sound(resolve(q), n, D, last, proc)
           /\ events(resolve(q)) = events(q)
           /\ resolve(q).queue = events(q)
           /\ resolve(q).virtual_events = {}
           /\ resolve(q).newest_pruned_id = q.newest_pruned_id
           /\ resolve(q).next_event_id = q.next_event_id
<1>1. q \in Queue
  BY DEF Sound, WellFormed
<1>2. /\ resolve(q).queue = events(q)
      /\ resolve(q).virtual_events = {}
      /\ resolve(q).newest_pruned_id = q.newest_pruned_id
      /\ resolve(q).next_event_id = q.next_event_id
      /\ resolve(q) \in Queue
  BY <1>1 DEF resolve, Queue, events
<1>3. events(resolve(q)) = events(q)
  BY <1>2 DEF events
<1>4. q.queue \subseteq events(q)
  BY DEF events
<1>5. WellFormed(resolve(q), n)
  BY <1>2, <1>3 DEF Sound, WellFormed
<1>6. Agrees(resolve(q), n, D, last, proc)
  BY <1>2, <1>3, <1>4 DEF Sound, Agrees, Ids, Covers
<1> QED
  BY <1>2, <1>3, <1>5, <1>6 DEF Sound

\* Pruning up to an acknowledgement the client once gave removes exactly
\* the events it covers and leaves newest_pruned_id equal to it, unless
\* the queue was already pruned further (EventQueue.prune, fetch_events).
LEMMA SoundPrune ==
    ASSUME NEW q, NEW n, NEW D, NEW last \in Nat \cup {-1}, NEW proc,
           NEW i \in Nat \cup {-1},
           Sound(q, n, D, last, proc),
           q.newest_pruned_id <= i, i <= last,
           i = q.newest_pruned_id \/ i \in Ids(q.queue)
    PROVE  /\ Sound(prune(q, i), n, D, last, proc)
           /\ prune(q, i).newest_pruned_id = i
           /\ prune(q, i).next_event_id = q.next_event_id
           /\ prune(q, i).queue = {e \in q.queue : i < e.id}
           /\ prune(q, i).virtual_events = q.virtual_events
<1> DEFINE gone == {e \in q.queue : e.id <= i}
           r == prune(q, i)
<1>1. /\ q \in Queue
      /\ q.queue \in SUBSET Event /\ q.virtual_events \in SUBSET Event
      /\ q.next_event_id \in Nat /\ q.newest_pruned_id \in Nat \cup {-1}
  BY DEF Sound, WellFormed, Queue
<1>2. \A e \in events(q) : e \in Event /\ e.id \in Nat /\ q.newest_pruned_id < e.id
  BY <1>1 DEF events, Event, Sound, WellFormed
<1>3. /\ r.newest_pruned_id = i
      /\ r.next_event_id = q.next_event_id
      /\ r.queue = {e \in q.queue : i < e.id}
      /\ r.virtual_events = q.virtual_events
      /\ r \in Queue
  <2>1. CASE i = q.newest_pruned_id
    <3>1. gone = {}
      BY <1>1, <1>2, <2>1 DEF events
    <3>2. r = q
      BY <3>1 DEF prune
    <3> QED
      BY <1>1, <1>2, <2>1, <3>2 DEF events
  <2>2. CASE i # q.newest_pruned_id
    <3>1. PICK a \in q.queue : a.id = i
      BY <2>2 DEF Ids
    <3>2. a \in gone
      BY <3>1
    <3>3. MaxId(gone) = i
      <4>1. i \in Ids(gone) /\ \A j \in Ids(gone) : j <= i
        BY <3>1, <3>2 DEF Ids
      <4>2. Ids(gone) \subseteq Nat
        BY <1>2 DEF Ids, events
      <4>3. \A k \in Ids(gone) : (\A j \in Ids(gone) : j <= k) => k = i
        BY <4>1, <4>2
      <4> QED
        BY <4>1, <4>3 DEF MaxId
    <3>4. r = [q EXCEPT !.queue = @ \ gone, !.newest_pruned_id = i]
      BY <3>2, <3>3 DEF prune
    <3>5. r = [queue |-> q.queue \ gone, virtual_events |-> q.virtual_events,
               next_event_id |-> q.next_event_id, newest_pruned_id |-> i]
      BY <1>1, <3>4 DEF Queue
    <3>6. q.queue \ gone = {e \in q.queue : i < e.id}
      BY <1>2 DEF events
    <3> QED
      BY <1>1, <3>5, <3>6 DEF Queue
  <2> QED
    BY <2>1, <2>2
<1> HIDE DEF r
<1>4. \A e : e \in events(r) <=> e \in events(q) /\ (e \in q.virtual_events \/ i < e.id)
  BY <1>3 DEF events
<1>5. \A v \in q.virtual_events : i < v.id
  BY <1>1, <1>2 DEF Sound, Agrees, events
<1>6. WellFormed(r, n)
  <2>1. i < q.next_event_id
    BY <1>1 DEF Sound, Agrees
  <2> QED
    BY <1>1, <1>2, <1>3, <1>4, <1>5, <2>1 DEF Sound, WellFormed
<1>7. Agrees(r, n, D, last, proc)
  <2>1. last = i \/ last \in Ids(r.queue)
    BY <1>1, <1>3 DEF Sound, Agrees, Ids, Covers
  <2>2. \A e \in events(q) : last < e.id => e \in events(r)
    BY <1>2, <1>4 DEF events
  <2> QED
    BY <1>1, <1>3, <1>4, <2>1, <2>2 DEF Sound, Agrees, Covers
<1> QED
  BY <1>3, <1>6, <1>7 DEF Sound, r

\* The client processes a batch that is everything unacknowledged up to
\* the id it now acknowledges (get_events_success).
LEMMA SoundProcess ==
    ASSUME NEW q, NEW n, NEW D, NEW last \in Nat \cup {-1}, NEW proc, NEW E, NEW i,
           Sound(q, n, D, last, proc),
           E \subseteq q.queue,
           \A e \in E : last < e.id,
           \A e \in events(q), f \in E : last < e.id /\ e.id <= f.id => e \in E,
           i \in Ids(E) \cup {last},
           \A j \in Ids(E) \cup {last} : j <= i
    PROVE  Sound(q, n, D, i, proc \cup Contents(E))
<1>1. /\ q \in Queue
      /\ q.next_event_id \in Nat /\ q.newest_pruned_id \in Nat \cup {-1}
  BY DEF Sound, WellFormed, Queue
<1>2. \A e \in events(q) : e.id \in Nat /\ e.id < q.next_event_id
  BY <1>1 DEF Sound, WellFormed, events, Queue, Event
<1>3. E \subseteq events(q)
  BY DEF events
<1>4. i \in Nat \cup {-1} /\ last <= i /\ \A e \in E : e.id <= i
  BY <1>2, <1>3 DEF Ids
<1>5. i = last \/ \E f \in E : f.id = i
  BY DEF Ids
<1>6. \A e \in events(q) : last < e.id => (e \in E <=> e.id <= i)
  BY <1>2, <1>4, <1>5
<1>7. Agrees(q, n, D, i, proc \cup Contents(E))
  <2>1. /\ q.newest_pruned_id <= i /\ i < q.next_event_id
        /\ i = q.newest_pruned_id \/ i \in Ids(q.queue)
    BY <1>1, <1>2, <1>3, <1>4, <1>5 DEF Sound, Agrees, Ids, Covers
  <2>2. ASSUME NEW v \in q.virtual_events
        PROVE  i < v.id
    <3>1. v \in events(q) /\ v \notin E /\ last < v.id
      BY DEF Sound, WellFormed, Agrees, events
    <3> QED
      BY <1>2, <1>4, <1>6, <3>1
  <2>3. ASSUME NEW e \in events(q), i < e.id
        PROVE  e.content \cap (proc \cup Contents(E)) = {}
    <3>1. last < e.id /\ e \notin E
      BY <1>2, <1>4, <2>3
    <3>2. \A f \in E : e.content \cap f.content = {}
      BY <1>3, <3>1 DEF Sound, WellFormed
    <3>3. e.content \cap proc = {}
      BY <3>1 DEF Sound, Agrees, Covers
    <3> QED
      BY <3>2, <3>3 DEF Contents
  <2>4. ASSUME NEW p \in 1 .. n, p \notin proc \cup Contents(E) \cup D
        PROVE  \E e \in events(q) : i < e.id /\ p \in e.content
    <3>1. PICK e \in events(q) : last < e.id /\ p \in e.content
      BY <2>4 DEF Sound, Agrees, Covers
    <3>2. e \notin E
      BY <2>4, <3>1 DEF Contents
    <3> QED
      BY <1>2, <1>4, <1>6, <3>1, <3>2
  <2> QED
    BY <2>1, <2>2, <2>3, <2>4 DEF Agrees, Covers
<1> QED
  BY <1>7 DEF Sound

\* A client that has applied everything in a queue nothing was pruned from,
\* or has the state and an empty queue, agrees with it (do_events_register).
LEMMA SoundApplied ==
    ASSUME NEW q, NEW n, NEW D, NEW proc, NEW i,
           WellFormed(q, n), q.newest_pruned_id = -1, q.virtual_events = {},
           Covers(q, n, D, -1, proc),
           i \in Greatest(Ids(q.queue) \cup {-1})
    PROVE  Sound(q, n, D, i, proc \cup Contents(q.queue))
<1>1. q \in Queue /\ q.next_event_id \in Nat /\ events(q) = q.queue
  BY DEF WellFormed, Queue, events
<1>2. \A e \in q.queue : e.id \in Nat /\ e.id < q.next_event_id
  BY <1>1 DEF WellFormed, Queue, Event
<1>3. /\ i \in Nat \cup {-1} /\ i < q.next_event_id
      /\ i = -1 \/ i \in Ids(q.queue)
      /\ \A e \in q.queue : ~ (i < e.id)
  BY <1>1, <1>2 DEF Greatest, Ids
<1>4. Covers(q, n, D, i, proc \cup Contents(q.queue))
  BY <1>1 DEF Covers, Contents
<1>5. -1 <= i
  BY <1>3
<1> QED
  BY <1>1, <1>3, <1>4, <1>5 DEF Sound, Agrees

\* The queue of a registration is well formed.
LEMMA EmptyWellFormed ==
    ASSUME NEW n \in Nat
    PROVE  /\ WellFormed(EmptyQueue, n) /\ EmptyQueue.newest_pruned_id = -1
           /\ events(EmptyQueue) = {} /\ EmptyQueue.virtual_events = {}
BY DEF WellFormed, EmptyQueue, Queue, events

(***************************************************************************)
(* A batch E of events on its way to the client: nothing in it has been    *)
(* processed, processing it takes the client to a later moment, and each   *)
(* copy of the queue in C still holds it, with nothing unacknowledged      *)
(* between its events.                                                     *)
(***************************************************************************)
Batch(E, C, n, D, last, proc) ==
    /\ \A e \in E : last < e.id /\ e.content \cap proc = {}
    /\ \E k \in 0 .. n : proc \cup Contents(E) = (1 .. k) \ D
    /\ \A q \in C : /\ E \subseteq q.queue
                    /\ \A e \in events(q), f \in E :
                         last < e.id /\ e.id <= f.id => e \in E

\* A moment stays one while later payloads are published or dropped.
LEMMA LaterMoment ==
    ASSUME NEW n \in Nat, NEW m \in Nat, NEW D, NEW G, NEW P,
           n <= m, D \subseteq G, G \subseteq D \cup (n + 1 .. m),
           \E k \in 0 .. n : P = (1 .. k) \ D
    PROVE  \E k \in 0 .. m : P = (1 .. k) \ G
<1>1. PICK k \in 0 .. n : P = (1 .. k) \ D
  OBVIOUS
<1>2. k \in 0 .. m /\ (1 .. k) \cap (n + 1 .. m) = {}
  OBVIOUS
<1>3. (1 .. k) \ G = (1 .. k) \ D
  BY <1>2
<1> QED
  BY <1>1, <1>2, <1>3

\* An empty response is a batch.
LEMMA EmptyBatch ==
    ASSUME NEW C, NEW n, NEW D, NEW last, NEW proc,
           \E k \in 0 .. n : proc = (1 .. k) \ D
    PROVE  Batch({}, C, n, D, last, proc)
<1>1. proc \cup Contents({}) = proc
  BY DEF Contents
<1> QED
  BY <1>1 DEF Batch

\* Everything a queue covers is processed with it.
LEMMA AllProcessed ==
    ASSUME NEW q, NEW n, NEW D, NEW last, NEW proc,
           WellFormed(q, n), Covers(q, n, D, last, proc), Clean(q, D),
           q.virtual_events = {}, proc \subseteq 1 .. n, proc \cap D = {}
    PROVE  proc \cup Contents(q.queue) = (1 .. n) \ D
<1>1. events(q) = q.queue
  BY DEF events
<1>2. Contents(q.queue) \subseteq (1 .. n) \ D
  BY <1>1 DEF WellFormed, Contents, Clean
<1>3. \A p \in (1 .. n) \ D : p \in proc \/ p \in Contents(q.queue)
  BY <1>1 DEF Covers, Contents
<1> QED
  BY <1>2, <1>3

\* The whole of a queue whose events are all unacknowledged is a batch.
LEMMA FullBatch ==
    ASSUME NEW q, NEW n \in Nat, NEW D, NEW last, NEW proc \in SUBSET (1 .. n),
           Sound(q, n, D, last, proc), Clean(q, D), proc \cap D = {},
           q.virtual_events = {}, \A e \in q.queue : last < e.id
    PROVE  Batch(q.queue, {q}, n, D, last, proc)
<1>1. events(q) = q.queue
  BY DEF events
<1>2. proc \cup Contents(q.queue) = (1 .. n) \ D
  BY AllProcessed DEF Sound, Agrees
<1>3. n \in 0 .. n
  OBVIOUS
<1> QED
  BY <1>1, <1>2, <1>3 DEF Batch, Sound, Agrees

\* A batch stays one while a queue only loses acknowledged events and gains
\* later ones.
LEMMA BatchStays ==
    ASSUME NEW E, NEW C, NEW B, NEW n \in Nat, NEW m \in Nat, NEW D, NEW G,
           NEW last, NEW proc,
           Batch(E, C, n, D, last, proc),
           n <= m, D \subseteq G, G \subseteq D \cup (n + 1 .. m),
           \A r \in B : \E q \in C :
             /\ \A e \in q.queue : last < e.id => e \in r.queue
             /\ \A e \in events(r) : e \in events(q) \/ \A f \in E : ~ (e.id <= f.id)
    PROVE  Batch(E, B, m, G, last, proc)
<1>1. \E k \in 0 .. m : proc \cup Contents(E) = (1 .. k) \ G
  BY LaterMoment DEF Batch
<1>2. ASSUME NEW r \in B
      PROVE  /\ E \subseteq r.queue
             /\ \A e \in events(r), f \in E : last < e.id /\ e.id <= f.id => e \in E
  <2>1. PICK q \in C :
          /\ \A e \in q.queue : last < e.id => e \in r.queue
          /\ \A e \in events(r) : e \in events(q) \/ \A f \in E : ~ (e.id <= f.id)
    OBVIOUS
  <2> QED
    BY <2>1 DEF Batch
<1> QED
  BY <1>1, <1>2 DEF Batch

(***************************************************************************)
(* The inductive invariant.  Base is what holds whatever a shutdown does   *)
(* to the client; Core is about a client that is not ahead of its queue,   *)
(* and about a client that is loading a new one.                           *)
(***************************************************************************)

\* who may be answered: the client waits for one thing at a time
Connection ==
    /\ \A r \in requests : r.live => client = "waiting" /\ response = {} /\ handler # "live"
    /\ \A r, s \in requests : r.live /\ s.live => r = s
    /\ handler = "live" => client = "waiting" /\ response = {}
    /\ response # {} => client = "waiting"
    /\ \A a, b \in response : a = b

Loading == client \in {"fetching", "applying"}

\* where the queue is
Lifetime ==
    /\ tornado = "up" => dump = {}
    /\ tornado = "stopping" => stops < MaxStops
    /\ tornado = "down" => ~ known
    /\ handler # "none" => known /\ empty(eq)
    /\ Loading => requests = {} /\ last_event_id = -1 /\ handler = "none"

Base == TypeOK /\ Connection /\ Lifetime

\* the client polls a queue it is in step with
Attached == client \in {"idle", "waiting"} /\ ~ ahead

QueueOK ==
    Attached => \A q \in Copies : Sound(q, published, dropped, last_event_id, processed)

\* the copies the client is served from when Tornado has restarted
Surviving == IF dump = {} THEN Copies ELSE dump

CleanOK == HasState /\ ~ ahead => \A q \in Surviving : Clean(q, dropped)

RequestsOK ==
    Attached =>
        \A r \in requests :
            /\ r.last <= last_event_id
            /\ r.live => r.last = last_event_id
            /\ \A q \in Copies : r.last <= q.newest_pruned_id \/ r.last \in Ids(q.queue)

ResponseOK ==
    Attached =>
        \A a \in response :
            /\ a.result # "error"
            /\ a.result = "success" =>
                 Batch(a.events, Copies, published, dropped, last_event_id, processed)

\* nothing was taken out of the queue of a reload; if it is empty, so is
\* its copy on disk
LoadingOK ==
    Loading =>
        /\ \A q \in Copies : WellFormed(q, published) /\ q.newest_pruned_id = -1
        /\ known /\ empty(eq) => \A q \in dump : empty(q)

AppliedOK ==
    client = "applying" =>
        ~ ahead /\ \A q \in Copies : Covers(q, published, dropped, -1, processed)

DroppedOK == dropped \subseteq 1 .. published

Core ==
    /\ DroppedOK
    /\ Snapshot
    /\ ExactlyOnce
    /\ QueueOK
    /\ CleanOK
    /\ RequestsOK
    /\ ResponseOK
    /\ LoadingOK
    /\ AppliedOK

IInv == Base /\ Core

\* The initial state satisfies it.
LEMMA InitIInv == Init => IInv
<1> SUFFICES ASSUME Init PROVE IInv
  OBVIOUS
<1> USE DeliveryAssumption DEF Init
<1>1. /\ WellFormed(EmptyQueue, 0) /\ EmptyQueue.newest_pruned_id = -1
      /\ events(EmptyQueue) = {} /\ EmptyQueue.virtual_events = {}
  BY EmptyWellFormed
<1>2. EmptyQueue \in Queue
  BY <1>1 DEF WellFormed
<1>3. 1 .. 0 = {}
  OBVIOUS
<1>4. TypeOK
  <2>1. stops \in 0 .. MaxStops /\ published \in 0 .. MaxPayloads
    OBVIOUS
  <2>2. eq \in Queue /\ last_event_id \in Nat \cup {-1} /\ known \in BOOLEAN /\ ahead \in BOOLEAN
    BY <1>2
  <2> QED
    BY <2>1, <2>2 DEF TypeOK
<1>5. Copies = {EmptyQueue} /\ Surviving = {EmptyQueue}
  BY DEF Copies, Surviving
<1>6. Sound(EmptyQueue, 0, {}, -1, {})
  BY <1>1, <1>3 DEF Sound, Agrees, Covers, EmptyQueue
<1>7. Snapshot
  BY <1>3 DEF Snapshot
<1>8. QueueOK /\ CleanOK
  BY <1>1, <1>5, <1>6 DEF QueueOK, CleanOK, Clean
<1>9. Base
  BY <1>4 DEF Base, Connection, Lifetime, Loading
<1> QED
  BY <1>7, <1>8, <1>9 DEF IInv, Core, ExactlyOnce, RequestsOK, ResponseOK, LoadingOK,
     AppliedOK, DroppedOK, Loading

(***************************************************************************)
(* Base is preserved.                                                      *)
(***************************************************************************)

\* ClientDescriptor.add_event.
LEMMA BaseAddEvent ==
    ASSUME Base, known, Serving, NEW t \in Types, NEW c \in SUBSET Payloads,
           add_event(t, c), published' \in 0 .. MaxPayloads, dropped' \in SUBSET Payloads,
           UNCHANGED <<tornado, known, dump, browser, requests, stops>>
    PROVE  Base'
<1> USE DEF browser
<1>1. eq \in Queue /\ push(eq, t, c) \in Queue
  BY PushFields DEF Base, TypeOK
<1>2. resolve(push(eq, t, c)) \in Queue
  BY <1>1, ResolveType
<1>3. eq' \in Queue /\ eq'.queue \in SUBSET Event
  BY <1>1, <1>2 DEF add_event, Queue
<1>4. CASE handler = "none"
  <2>1. UNCHANGED <<handler, response, ahead>>
    BY <1>4 DEF add_event
  <2>2. TypeOK'
    BY <1>3, <2>1 DEF Base, TypeOK
  <2>3. Connection' /\ Lifetime'
    BY <1>4, <2>1 DEF Base, Connection, Lifetime, Loading
  <2> QED
    BY <2>2, <2>3 DEF Base
<1>5. CASE handler # "none"
  <2>1. /\ handler' = "none"
        /\ \/ handler = "live" /\ response' = {Success(eq'.queue)}
           \/ handler # "live" /\ response' = response
        /\ ahead' = ahead \/ ahead' \in BOOLEAN
    BY <1>5 DEF add_event, Answer, Base, TypeOK, Overtakes
  <2>2. TypeOK'
    <3>1. Success(eq'.queue) \in Response
      BY <1>3 DEF Success, Response
    <3> QED
      BY <1>3, <2>1, <3>1 DEF Base, TypeOK
  <2>3. Connection' /\ Lifetime'
    BY <2>1 DEF Base, Connection, Lifetime, Loading
  <2> QED
    BY <2>2, <2>3 DEF Base
<1> QED
  BY <1>4, <1>5

\* fetch_events.
LEMMA BaseFetch ==
    ASSUME Base, NEW r \in requests, fetch_events(r)
    PROVE  Base'
<1> USE DEF browser
<1>1. /\ Serving /\ requests' = requests \ {r}
      /\ Refuse(r) \/ Serve(r)
      /\ UNCHANGED <<tornado, known, dump, published, client, last_event_id, processed>>
      /\ UNCHANGED <<repeated, stops, dropped>>
  BY DEF fetch_events
<1>2. r \in Request /\ eq \in Queue
  BY DEF Base, TypeOK
<1>3. r.last \in Nat \cup {-1} /\ r.live \in BOOLEAN /\ r.dont_block \in BOOLEAN
  BY <1>2 DEF Request
<1>4. pruned(r) \in Queue
  BY <1>2, <1>3, PruneType DEF pruned
<1>5. supplanted(r) \in Queue /\ resolve(supplanted(r)) \in Queue
  BY <1>4, ResolveType DEF supplanted
<1>6. \A q \in Queue : Success(q.queue) \in Response
  BY DEF Queue, Success, Response
<1>7. Failure("error") \in Response /\ Failure("bad_queue") \in Response
  BY DEF Failure, Response
<1>8. ~ Loading
  BY DEF Base, Lifetime
<1>9. r.live => client = "waiting" /\ response = {} /\ handler # "live"
  BY DEF Base, Connection
<1>10. ASSUME NEW who \in {"none", "live", "abandoned"}, NEW a \in Response, Answer(who, a)
       PROVE  /\ response' = IF who = "live" THEN {a} ELSE response
              /\ ahead' \in BOOLEAN /\ response' \in SUBSET Response
  BY <1>10 DEF Answer, Base, TypeOK, Overtakes
<1>11. CASE Refuse(r)
  <2>1. \E a \in {Failure("error"), Failure("bad_queue")} : Answer(Who(r), a)
    BY <1>11 DEF Refuse
  <2>2. PICK a \in Response : Answer(Who(r), a)
    BY <1>7, <2>1
  <2>3. Who(r) = IF r.live THEN "live" ELSE "abandoned"
    BY DEF Who
  <2>4. /\ response' = IF r.live THEN {a} ELSE response
        /\ ahead' \in BOOLEAN /\ response' \in SUBSET Response
    BY <1>10, <2>2, <2>3
  <2>5. handler' = handler /\ (eq' = eq \/ (known /\ eq' = pruned(r)))
    BY <1>11 DEF Refuse, NotInQueue
  <2>6. eq' \in Queue
    BY <1>2, <1>4, <2>5
  <2>7. TypeOK'
    BY <1>1, <2>4, <2>5, <2>6 DEF Base, TypeOK
  <2>8. Connection'
    BY <1>1, <1>9, <2>4, <2>5 DEF Base, Connection
  <2>9. empty(eq) => empty(eq')
    BY <1>3, <2>5 DEF pruned, prune, empty, events
  <2>10. Lifetime'
    BY <1>1, <1>8, <2>5, <2>9 DEF Base, Lifetime, Loading
  <2> QED
    BY <2>7, <2>8, <2>10 DEF Base
<1>12. CASE Serve(r)
  <2> DEFINE pending == supplanted(r)
             immediate == ~ empty(pending) \/ r.dont_block
  <2>1. /\ known
        /\ eq' = IF immediate THEN resolve(pending) ELSE pending
        /\ handler' = IF immediate THEN "none" ELSE Who(r)
        /\ IF r.live /\ immediate THEN Answer("live", Success(eq'.queue))
           ELSE Answer(handler, Success(pending.queue))
    BY <1>12 DEF Serve, Accepted
  <2>2. eq' \in Queue
    BY <1>5, <2>1
  <2>3. Success(eq'.queue) \in Response /\ Success(pending.queue) \in Response
    BY <1>5, <1>6, <2>2
  <2> HIDE DEF pending
  <2>4. handler \in {"none", "live", "abandoned"}
    BY DEF Base, TypeOK
  <2>5. /\ response' = IF r.live /\ immediate THEN {Success(eq'.queue)}
                       ELSE IF handler = "live" THEN {Success(pending.queue)}
                       ELSE response
        /\ ahead' \in BOOLEAN /\ response' \in SUBSET Response
    <3>1. CASE r.live /\ immediate
      BY <1>10, <2>1, <2>3, <3>1
    <3>2. CASE ~ (r.live /\ immediate)
      BY <1>10, <2>1, <2>3, <2>4, <3>2
    <3> QED
      BY <3>1, <3>2
  <2>6. handler' \in {"none", "live", "abandoned"} /\ (handler' = "live" => r.live /\ ~ immediate)
    BY <2>1 DEF Who
  <2>7. TypeOK'
    BY <1>1, <2>2, <2>5, <2>6 DEF Base, TypeOK
  <2>8. handler = "live" => client = "waiting" /\ response = {} /\ \A s \in requests : ~ s.live
    BY DEF Base, Connection
  <2>9. \A s \in requests' : s.live => ~ r.live
    BY <1>1 DEF Base, Connection
  <2>10. Connection'
    BY <1>1, <1>9, <2>5, <2>6, <2>8, <2>9 DEF Base, Connection
  <2>11. handler' # "none" => empty(eq')
    BY <2>1
  <2>12. Lifetime'
    BY <1>1, <1>8, <2>1, <2>11 DEF Base, Lifetime, Loading
  <2> QED
    BY <2>7, <2>10, <2>12 DEF Base
<1> QED
  BY <1>1, <1>11, <1>12

\* Every step.
LEMMA BaseStep == Base /\ [Next]_vars => Base'
<1> SUFFICES ASSUME Base, [Next]_vars PROVE Base'
  OBVIOUS
<1> USE DeliveryAssumption DEF server, browser, history, Loading
<1>0. EmptyQueue \in Queue /\ empty(EmptyQueue)
  <2>1. WellFormed(EmptyQueue, 0) /\ events(EmptyQueue) = {}
    BY EmptyWellFormed
  <2> QED
    BY <2>1 DEF WellFormed, empty
<1>1. ASSUME NEW t \in Published, Publish(t) PROVE Base'
  <2>1. /\ Serving /\ published \in Nat /\ published < MaxPayloads
        /\ published' = published + 1
        /\ dropped' = IF dump = {} THEN dropped ELSE dropped \cup {published'}
        /\ UNCHANGED <<tornado, known, dump, browser, requests, stops>>
    BY <1>1 DEF Publish, Reserved, Base, TypeOK
  <2>2. published' \in 0 .. MaxPayloads /\ {published'} \in SUBSET Payloads
    BY <2>1
  <2>3. dropped' \in SUBSET Payloads
    BY <2>1, <2>2 DEF Base, TypeOK
  <2>4. CASE known /\ add_event(t, {published'})
    BY <2>1, <2>2, <2>3, <2>4, BaseAddEvent
  <2>5. CASE UNCHANGED <<eq, handler, response, ahead>>
    BY <2>1, <2>2, <2>3, <2>5 DEF Base, TypeOK, Connection, Lifetime
  <2> QED
    BY <1>1, <2>4, <2>5 DEF Publish
<1>2. CASE SendHeartbeat
  <2>1. /\ Serving /\ known /\ add_event(Heartbeat, {})
        /\ UNCHANGED <<tornado, known, dump, published, browser, requests, stops, dropped>>
    BY <1>2 DEF SendHeartbeat
  <2>2. published' \in 0 .. MaxPayloads /\ dropped' \in SUBSET Payloads
    BY <2>1 DEF Base, TypeOK
  <2> QED
    BY <2>1, <2>2, BaseAddEvent
<1>3. ASSUME NEW r \in requests, fetch_events(r) PROVE Base'
  BY <1>3, BaseFetch
<1>4. CASE ConnectionClose
  BY <1>4 DEF ConnectionClose, Base, TypeOK, Connection, Lifetime
<1>5. CASE GarbageCollect
  BY <1>0, <1>5 DEF GarbageCollect, Serving, Base, TypeOK, Connection, Lifetime
<1>6. CASE DumpQueues
  BY <1>6 DEF DumpQueues, Base, TypeOK, Connection, Lifetime
<1>7. CASE Exit \/ Crash
  <2>1. Gone /\ stops \in Nat /\ stops < MaxStops
    BY <1>7 DEF Exit, Crash, Base, TypeOK, Lifetime
  <2>2. stops' \in 0 .. MaxStops
    BY <2>1 DEF Gone
  <2> QED
    BY <1>0, <2>1, <2>2 DEF Gone, Base, TypeOK, Connection, Lifetime
<1>8. CASE Start
  <2>1. /\ tornado = "down" /\ tornado' = "up" /\ dump' = {}
        /\ UNCHANGED <<handler, browser, requests, response, stops, history>>
    BY <1>8 DEF Start
  <2>2. handler = "none"
    BY <2>1 DEF Base, Lifetime
  <2>3. CASE UNCHANGED <<known, eq, published>>
    BY <2>1, <2>2, <2>3 DEF Base, TypeOK, Connection, Lifetime
  <2>4. ASSUME NEW q \in dump, published < MaxPayloads, published' = published + 1,
               eq' = restarted(q, published'), known'
        PROVE  Base'
    <3>1. published' \in 0 .. MaxPayloads /\ {published'} \in SUBSET Payloads
      BY <2>4 DEF Base, TypeOK
    <3>2. eq' \in Queue
      <4>1. Restart \in Types /\ q \in Queue
        BY <2>4 DEF Base, TypeOK
      <4>2. push(q, Restart, {published'}) \in Queue
        BY <3>1, <4>1, PushFields
      <4> QED
        BY <2>4, <4>2 DEF restarted
    <3>3. known' \in BOOLEAN
      BY <1>8, <2>4 DEF Start, Base, TypeOK
    <3> QED
      BY <2>1, <2>2, <2>4, <3>1, <3>2, <3>3 DEF Base, TypeOK, Connection, Lifetime
  <2> QED
    BY <1>8, <2>3, <2>4 DEF Start
<1>9. ASSUME NEW b \in BOOLEAN, get_events(b) PROVE Base'
  <2> DEFINE new == [live |-> TRUE, last |-> last_event_id, dont_block |-> b]
  <2>1. /\ client = "idle" /\ client' = "waiting" /\ requests' = requests \cup {new}
        /\ UNCHANGED <<server, published, last_event_id, processed, repeated, response>>
        /\ UNCHANGED <<stops, history>>
    BY <1>9 DEF get_events
  <2>2. new \in Request /\ new.live
    BY DEF Base, TypeOK, Request
  <2> HIDE DEF new
  <2>3. TypeOK'
    BY <2>1, <2>2 DEF Base, TypeOK
  <2>4. response = {} /\ handler # "live" /\ \A s \in requests : ~ s.live
    BY <2>1 DEF Base, Connection
  <2> QED
    BY <2>1, <2>2, <2>3, <2>4 DEF Base, Connection, Lifetime
<1>10. CASE Abandon
  <2>1. \A s \in requests' : s \in Request /\ ~ s.live
    BY <1>10 DEF Abandon, abandoned, Base, TypeOK, Request
  <2> QED
    BY <1>10, <2>1 DEF Abandon, Base, TypeOK, Connection, Lifetime
<1>11. CASE Receive
  <2>1. PICK a \in response : get_events_success(a) \/ get_events_error(a)
    BY <1>11 DEF Receive
  <2>2. /\ client = "waiting" /\ response' = {}
        /\ UNCHANGED <<server, published, requests, stops, history>>
    BY <1>11 DEF Receive
  <2>3. handler # "live" /\ \A s \in requests : ~ s.live
    BY DEF Base, Connection
  <2>4. /\ client' \in {"idle", "reloading"}
        /\ last_event_id' \in Nat \cup {-1}
        /\ processed' \in SUBSET Payloads /\ repeated' \in SUBSET Payloads
    <3>1. CASE get_events_error(a)
      BY <3>1 DEF get_events_error, Base, TypeOK
    <3>2. CASE get_events_success(a)
      <4>1. Ids(a.events) \subseteq Nat /\ Contents(a.events) \subseteq Payloads
        BY DEF Base, TypeOK, Response, Event, Ids, Contents
      <4> QED
        BY <3>2, <4>1 DEF get_events_success, Greatest, Base, TypeOK
    <3> QED
      BY <2>1, <3>1, <3>2
  <2> QED
    BY <2>2, <2>3, <2>4 DEF Base, TypeOK, Connection, Lifetime
<1>12. CASE Register
  BY <1>0, <1>12 DEF Register, Serving, Base, TypeOK, Connection, Lifetime
<1>13. CASE FetchState
  <2>1. 1 .. published \in SUBSET Payloads
    BY DEF Base, TypeOK
  <2> QED
    BY <1>13, <2>1 DEF FetchState, Base, TypeOK, Connection, Lifetime
<1>14. CASE ApplyEvents
  <2>1. eq' = resolve(eq) /\ eq' \in Queue
    BY <1>14, ResolveType DEF ApplyEvents, Base, TypeOK
  <2>2. Ids(eq'.queue) \subseteq Nat /\ Contents(eq'.queue) \subseteq Payloads
    BY <2>1 DEF Queue, Event, Ids, Contents
  <2>3. last_event_id' \in Nat \cup {-1} /\ processed' \in SUBSET Payloads
    BY <1>14, <2>2 DEF ApplyEvents, Greatest, Base, TypeOK
  <2>4. handler = "none" /\ ahead' \in BOOLEAN
    BY <1>14 DEF ApplyEvents, Overtakes, Base, Lifetime
  <2> QED
    BY <1>14, <2>1, <2>3, <2>4 DEF ApplyEvents, Base, TypeOK, Connection, Lifetime
<1>15. CASE RegisterFails
  BY <1>0, <1>15 DEF RegisterFails, Base, TypeOK, Connection, Lifetime
<1>16. CASE UNCHANGED vars
  BY <1>16 DEF vars, Base, TypeOK, Connection, Lifetime
<1> QED
  BY <1>1, <1>2, <1>3, <1>4, <1>5, <1>6, <1>7, <1>8, <1>9, <1>10, <1>11, <1>12, <1>13,
     <1>14, <1>15, <1>16 DEF Next

(***************************************************************************)
(* Core is preserved.                                                      *)
(***************************************************************************)

\* A push brings nothing that was dropped.
LEMMA CleanPush ==
    ASSUME NEW q, NEW n \in Nat, NEW m \in Nat, NEW D, NEW t \in Types,
           NEW c \in SUBSET Payloads,
           WellFormed(q, n), Clean(q, D), D \subseteq 1 .. n, c = n + 1 .. m
    PROVE  Clean(push(q, t, c), D)
<1>1. \A e \in events(q) : e.content \cap D = {}
  BY DEF Clean
<1>2. events(push(q, t, c)) \subseteq events(q) \cup {numbered(q, t, c)}
  BY PushFields DEF WellFormed, events
<1>3. numbered(q, t, c).content \cap D = {}
  <2>1. Contents(merged(q, t)) \cap D = {}
    BY <1>1 DEF Contents, merged, events
  <2>2. c \cap D = {}
    OBVIOUS
  <2> QED
    BY <2>1, <2>2 DEF numbered
<1> QED
  BY <1>1, <1>2, <1>3 DEF Clean

\* What is dropped later is not in a copy that was written before.
LEMMA CleanLater ==
    ASSUME NEW q, NEW n \in Nat, NEW m, NEW D, NEW G,
           WellFormed(q, n), Clean(q, D), G \subseteq D \cup (n + 1 .. m)
    PROVE  Clean(q, G)
<1>1. \A e \in events(q) : e.content \subseteq 1 .. n /\ e.content \cap D = {}
  BY DEF WellFormed, Clean
<1>2. (1 .. n) \cap (n + 1 .. m) = {}
  OBVIOUS
<1> QED
  BY <1>1, <1>2 DEF Clean

\* What the invariant says of the variables.
LEMMA Facts ==
    ASSUME IInv
    PROVE  /\ published \in Nat /\ published <= MaxPayloads
           /\ last_event_id \in Nat \cup {-1}
           /\ eq \in Queue /\ dump \subseteq Queue
           /\ dropped \subseteq 1 .. published
           /\ ~ ahead => processed \subseteq 1 .. published /\ processed \cap dropped = {}
           /\ \A r \in requests : r.last \in Nat \cup {-1}
<1>1. /\ published \in Nat /\ published <= MaxPayloads
      /\ last_event_id \in Nat \cup {-1}
      /\ eq \in Queue /\ dump \subseteq Queue
      /\ \A r \in requests : r.last \in Nat \cup {-1}
  BY DeliveryAssumption DEF IInv, Base, TypeOK, Request
<1>2. ~ ahead => processed \subseteq 1 .. published /\ processed \cap dropped = {}
  <2> SUFFICES ASSUME ~ ahead
               PROVE  processed \subseteq 1 .. published /\ processed \cap dropped = {}
    OBVIOUS
  <2>1. PICK k \in 0 .. published : processed = (1 .. k) \ dropped
    BY DEF IInv, Core, Snapshot
  <2> QED
    BY <1>1, <2>1
<1> QED
  BY <1>1, <1>2 DEF IInv, Core, DroppedOK

\* A queue the client is in step with.
LEMMA AttachedCopy ==
    ASSUME IInv, Attached, NEW q \in Copies
    PROVE  /\ Sound(q, published, dropped, last_event_id, processed)
           /\ q \in Queue
           /\ q.next_event_id \in Nat /\ q.newest_pruned_id \in Nat \cup {-1}
           /\ \A e \in events(q) : e.id \in Nat /\ e.id < q.next_event_id
           /\ \A f \in q.queue : f \in events(q) /\ f.id \in Nat
<1>1. Sound(q, published, dropped, last_event_id, processed)
  BY DEF IInv, Core, QueueOK
<1>2. q \in Queue
  BY <1>1 DEF Sound, WellFormed
<1> QED
  BY <1>1, <1>2 DEF Sound, WellFormed, events, Queue, Event

\* Nothing is promised to a client without a queue, or ahead of it.
LEMMA Exempt ==
    ASSUME ~ Attached', ~ Loading', DroppedOK', Snapshot', ExactlyOnce'
    PROVE  Core'
BY DEF Core, Attached, Loading, QueueOK, CleanOK, HasState, RequestsOK, ResponseOK,
   LoadingOK, AppliedOK

\* A step that only takes copies of the queue, requests or a response away,
\* or sends a new request.
LEMMA Still ==
    ASSUME IInv,
           UNCHANGED <<published, last_event_id, processed, repeated, dropped, ahead>>,
           client' = client \/ (client \in {"idle", "waiting"} /\ client' \in {"idle", "waiting"}),
           response' \subseteq response,
           \A s \in requests' : \/ s.last = last_event_id
                                \/ \E r \in requests : r.last = s.last /\ (s.live => r.live),
           Copies' \subseteq Copies, Surviving' \subseteq Surviving,
           Loading /\ known' /\ empty(eq)' => \A q \in dump' : empty(q)
    PROVE  Core'
<1>1. (Attached' <=> Attached) /\ (Loading' <=> Loading) /\ (HasState' <=> HasState)
      /\ (client' = "applying" <=> client = "applying")
  BY DEF Attached, Loading, HasState
<1>2. DroppedOK' /\ Snapshot' /\ ExactlyOnce'
  BY DEF IInv, Core, DroppedOK, Snapshot, ExactlyOnce
<1>3. QueueOK'
  BY <1>1 DEF IInv, Core, QueueOK
<1>4. CleanOK'
  BY <1>1 DEF IInv, Core, CleanOK
<1>5. RequestsOK'
  <2> SUFFICES ASSUME Attached', NEW s \in requests'
               PROVE  /\ s.last <= last_event_id
                      /\ s.live => s.last = last_event_id
                      /\ \A q \in Copies : s.last <= q.newest_pruned_id \/ s.last \in Ids(q.queue)
    BY DEF RequestsOK
  <2>1. CASE s.last = last_event_id
    <3>1. last_event_id <= last_event_id
      BY Facts
    <3>2. ASSUME NEW q \in Copies
          PROVE  s.last <= q.newest_pruned_id \/ s.last \in Ids(q.queue)
      <4>1. /\ q.newest_pruned_id \in Nat \cup {-1}
            /\ last_event_id = q.newest_pruned_id \/ last_event_id \in Ids(q.queue)
        BY <1>1, AttachedCopy DEF Sound, Agrees
      <4> QED
        BY <2>1, <4>1
    <3> QED
      BY <2>1, <3>1, <3>2
  <2>2. CASE \E r \in requests : r.last = s.last /\ (s.live => r.live)
    BY <1>1, <2>2 DEF IInv, Core, RequestsOK
  <2> QED
    BY <2>1, <2>2
<1>6. ResponseOK'
  <2> SUFFICES ASSUME Attached', NEW a \in response', a.result = "success"
               PROVE  Batch(a.events, Copies', published, dropped, last_event_id, processed)
    BY <1>1 DEF IInv, Core, ResponseOK
  <2>1. Batch(a.events, Copies, published, dropped, last_event_id, processed)
    BY <1>1 DEF IInv, Core, ResponseOK
  <2> QED
    BY <2>1 DEF Batch
<1>7. LoadingOK'
  BY <1>1 DEF IInv, Core, LoadingOK
<1>8. AppliedOK'
  BY <1>1 DEF IInv, Core, AppliedOK
<1> QED
  BY <1>2, <1>3, <1>4, <1>5, <1>6, <1>7, <1>8 DEF Core

\* An event is added to the queue and, if a client is waiting, sent
\* (ClientDescriptor.add_event): Publish and SendHeartbeat are instances.
LEMMA CoreAddEvent ==
    ASSUME IInv, known,
           NEW t \in Types, NEW m \in Nat, published <= m, m <= MaxPayloads,
           NEW c, c = published + 1 .. m,
           add_event(t, c), published' = m,
           dropped' = IF dump = {} THEN dropped ELSE dropped \cup c,
           UNCHANGED <<tornado, known, dump, browser, requests, stops>>
    PROVE  Core'
<1> DEFINE pushed == push(eq, t, c)
           new == numbered(eq, t, c)
<1> USE DEF browser
<1>1. /\ published \in Nat /\ last_event_id \in Nat \cup {-1} /\ eq \in Queue
      /\ dropped \subseteq 1 .. published
      /\ ~ ahead => processed \subseteq 1 .. published /\ processed \cap dropped = {}
  BY Facts
<1>2. c \in SUBSET Payloads
  BY <1>1, DeliveryAssumption
<1>3. /\ dropped \subseteq dropped' /\ dropped' \subseteq dropped \cup (published + 1 .. m)
      /\ dump # {} => published + 1 .. m \subseteq dropped'
      /\ dump = {} => dropped' = dropped
  OBVIOUS
<1>4. /\ pushed.newest_pruned_id = eq.newest_pruned_id
      /\ eq.queue \subseteq pushed.queue
      /\ events(pushed) \subseteq events(eq) \cup {new}
      /\ new \in events(pushed) /\ new.id = eq.next_event_id
      /\ pushed.virtual_events \subseteq eq.virtual_events \cup {new}
      /\ pushed \in Queue
  BY <1>1, <1>2, PushFields DEF numbered, events
<1>5. WellFormed(eq, published) => WellFormed(pushed, m)
  BY <1>1, <1>2, WellFormedPush
<1>6. resolve(pushed).queue = events(pushed) /\ events(resolve(pushed)) = events(pushed)
      /\ resolve(pushed).newest_pruned_id = pushed.newest_pruned_id
      /\ resolve(pushed).virtual_events = {} /\ pushed.queue \subseteq events(pushed)
  BY <1>4 DEF resolve, events, Queue
<1>7. /\ handler = "none" => eq' = pushed /\ UNCHANGED <<handler, response, ahead>>
      /\ handler # "none" => eq' = resolve(pushed) /\ Answer(handler, Success(eq'.queue))
  BY DEF add_event
<1> HIDE DEF pushed, new
<1>8. /\ eq'.newest_pruned_id = eq.newest_pruned_id
      /\ eq.queue \subseteq eq'.queue
      /\ events(eq') = events(pushed)
  BY <1>4, <1>6, <1>7
<1>9. ahead => ahead'
  BY <1>7 DEF Answer, IInv, Base, TypeOK
<1>10. /\ Copies = dump \cup {eq} /\ Copies' = dump \cup {eq'}
       /\ Surviving' = IF dump = {} THEN {eq'} ELSE dump
       /\ Surviving = IF dump = {} THEN {eq} ELSE dump
  BY DEF Copies, Surviving
<1>11. DroppedOK' /\ Snapshot' /\ ExactlyOnce'
  <2>1. DroppedOK'
    BY <1>1, <1>3 DEF DroppedOK
  <2>2. Snapshot'
    <3> SUFFICES ASSUME ~ ahead' PROVE \E k \in 0 .. m : processed = (1 .. k) \ dropped'
      BY DEF Snapshot
    <3>1. \E k \in 0 .. published : processed = (1 .. k) \ dropped
      BY <1>9 DEF IInv, Core, Snapshot
    <3> QED
      BY <1>1, <1>3, <3>1, LaterMoment
  <2>3. ExactlyOnce'
    BY <1>9 DEF IInv, Core, ExactlyOnce
  <2> QED
    BY <2>1, <2>2, <2>3
<1>12. ASSUME HasState, ~ ahead, \A q \in Copies : WellFormed(q, published)
       PROVE  \A q \in Surviving' : Clean(q, dropped')
  <2>1. \A q \in Surviving : Clean(q, dropped)
    BY <1>12 DEF IInv, Core, CleanOK
  <2>2. CASE dump = {}
    <3>1. Clean(pushed, dropped)
      <4>1. WellFormed(eq, published) /\ Clean(eq, dropped)
        BY <1>10, <1>12, <2>1, <2>2
      <4> QED
        BY <1>1, <1>2, <4>1, CleanPush DEF pushed
    <3> QED
      BY <1>3, <1>8, <1>10, <2>2, <3>1 DEF Clean
  <2>3. CASE dump # {}
    <3>1. \A q \in dump : WellFormed(q, published) /\ Clean(q, dropped)
      BY <1>10, <1>12, <2>1, <2>3
    <3> QED
      BY <1>1, <1>3, <1>10, <2>3, <3>1, CleanLater
  <2> QED
    BY <2>2, <2>3
<1>13. CASE Attached'
  <2>1. Attached
    BY <1>9, <1>13 DEF Attached
  <2>2. \A q \in Copies : /\ Sound(q, published, dropped, last_event_id, processed)
                          /\ WellFormed(q, published)
    BY <2>1, AttachedCopy DEF Sound
  <2>3. processed \subseteq 1 .. published /\ processed \cap dropped = {}
    BY <1>1, <2>1 DEF Attached
  <2>4. Sound(eq', m, dropped', last_event_id, processed)
    <3>1. Sound(pushed, m, dropped, last_event_id, processed)
      BY <1>1, <1>2, <1>10, <2>2, <2>3, SoundPush DEF pushed
    <3>2. Sound(eq', m, dropped, last_event_id, processed)
      BY <1>7, <3>1, SoundResolve
    <3>3. m <= m /\ m + 1 .. m \subseteq dropped'
      OBVIOUS
    <3> QED
      BY <1>3, <3>2, <3>3, SoundLater
  <2>5. \A q \in dump : Sound(q, m, dropped', last_event_id, processed)
    BY <1>1, <1>3, <1>10, <2>2, SoundLater
  <2>6. QueueOK'
    BY <1>10, <2>4, <2>5 DEF QueueOK
  <2>7. RequestsOK'
    <3>1. Ids(eq.queue) \subseteq Ids(eq'.queue)
      BY <1>8 DEF Ids
    <3> QED
      BY <1>8, <1>10, <2>1, <3>1 DEF IInv, Core, RequestsOK
  <2>8. HasState /\ ~ ahead
    BY <2>1 DEF Attached, HasState
  <2>9. CleanOK'
    BY <1>12, <2>2, <2>8 DEF CleanOK
  <2>10. ASSUME NEW a \in response, a.result = "success"
         PROVE  Batch(a.events, Copies', m, dropped', last_event_id, processed)
    <3>1. Batch(a.events, Copies, published, dropped, last_event_id, processed)
      BY <2>1, <2>10 DEF IInv, Core, ResponseOK
    <3>2. a.events \subseteq eq.queue
      BY <1>10, <3>1 DEF Batch
    <3>3. \A e \in events(eq') : e \in events(eq) \/ \A f \in a.events : ~ (e.id <= f.id)
      BY <1>4, <1>8, <1>10, <2>1, <3>2, AttachedCopy
    <3>4. \A q \in Copies' : \E z \in Copies :
             /\ \A e \in z.queue : last_event_id < e.id => e \in q.queue
             /\ \A e \in events(q) : e \in events(z) \/ \A f \in a.events : ~ (e.id <= f.id)
      BY <1>8, <1>10, <3>3
    <3> QED
      BY <1>1, <1>3, <3>1, <3>4, BatchStays
  <2>11. handler = "live" => Batch(eq'.queue, Copies', m, dropped', last_event_id, processed)
    <3> SUFFICES ASSUME handler = "live"
                 PROVE  Batch(eq'.queue, Copies', m, dropped', last_event_id, processed)
      OBVIOUS
    <3>1. eq' = resolve(pushed) /\ ahead' = (ahead \/ Overtakes(eq'.queue))
      BY <1>7 DEF Answer, Success
    <3>2. new \in eq'.queue
      BY <1>4, <1>6, <3>1
    <3>3. dump = {}
      BY <1>13, <3>1, <3>2 DEF Attached, Overtakes
    <3>4. eq'.virtual_events = {} /\ eq'.queue = events(pushed)
      BY <1>6, <3>1
    <3>5. \A e \in eq'.queue : last_event_id < e.id
      <4>1. events(eq) = {}
        BY DEF IInv, Base, Lifetime, empty
      <4>2. last_event_id < new.id
        BY <1>4, <1>10, <2>2 DEF Sound, Agrees
      <4> QED
        BY <1>4, <3>4, <4>1, <4>2
    <3>6. Clean(eq', dropped') /\ processed \cap dropped' = {} /\ processed \in SUBSET (1 .. m)
      BY <1>1, <1>3, <1>10, <1>12, <2>2, <2>3, <2>8, <3>3
    <3>7. Copies' = {eq'}
      BY <1>10, <3>3
    <3> QED
      BY <2>4, <3>4, <3>5, <3>6, <3>7, FullBatch
  <2>12. ResponseOK'
    <3>1. \A a \in response : a.result # "error"
      BY <2>1 DEF IInv, Core, ResponseOK
    <3>2. \/ response' = response
          \/ handler = "live" /\ response' = {Success(eq'.queue)}
      BY <1>7 DEF Answer
    <3>3. CASE response' = response
      BY <2>10, <3>1, <3>3 DEF ResponseOK
    <3>4. CASE handler = "live" /\ response' = {Success(eq'.queue)}
      <4>1. Success(eq'.queue).result = "success" /\ Success(eq'.queue).events = eq'.queue
        BY DEF Success
      <4> QED
        BY <2>11, <3>4, <4>1 DEF ResponseOK
    <3> QED
      BY <3>2, <3>3, <3>4
  <2>13. LoadingOK' /\ AppliedOK'
    BY <1>13 DEF LoadingOK, AppliedOK, Loading, Attached
  <2> QED
    BY <1>11, <2>6, <2>7, <2>9, <2>12, <2>13 DEF Core
<1>14. CASE Loading
  <2>1. handler = "none" /\ eq' = pushed /\ ahead' = ahead
    BY <1>7, <1>14 DEF IInv, Base, Lifetime
  <2>2. \A q \in Copies : WellFormed(q, published) /\ q.newest_pruned_id = -1
    BY <1>14 DEF IInv, Core, LoadingOK
  <2>3. \A q \in dump : WellFormed(q, m)
    BY <1>1, <1>3, <1>10, <2>2, SoundLater
  <2>4. ~ empty(eq')
    BY <1>4, <1>8 DEF empty
  <2>5. LoadingOK'
    BY <1>5, <1>8, <1>10, <2>1, <2>2, <2>3, <2>4 DEF LoadingOK
  <2>6. AppliedOK'
    <3> SUFFICES ASSUME client = "applying"
                 PROVE  ~ ahead /\ \A q \in Copies' : Covers(q, m, dropped', -1, processed)
      BY <2>1 DEF AppliedOK
    <3>1. ~ ahead /\ \A q \in Copies : Covers(q, published, dropped, -1, processed)
      BY DEF IInv, Core, AppliedOK
    <3>2. -1 < eq.next_event_id
      BY <1>1 DEF Queue
    <3>3. Covers(eq', m, dropped, -1, processed)
      BY <1>1, <1>2, <1>10, <2>1, <3>1, <3>2, CoversPush DEF pushed
    <3>4. m <= m /\ m + 1 .. m \subseteq dropped'
      OBVIOUS
    <3>5. Covers(eq', m, dropped', -1, processed)
      BY <1>3, <3>3, <3>4, SoundLater
    <3>6. \A q \in dump : Covers(q, m, dropped', -1, processed)
      BY <1>1, <1>3, <1>10, <3>1, SoundLater
    <3> QED
      BY <1>10, <3>1, <3>5, <3>6
  <2>7. CleanOK'
    <3>1. HasState' /\ ~ ahead' => HasState /\ ~ ahead
      BY <2>1 DEF HasState
    <3> QED
      BY <1>12, <2>2, <3>1 DEF CleanOK
  <2>8. ~ Attached'
    BY <1>14 DEF Attached, Loading
  <2> QED
    BY <1>11, <2>5, <2>6, <2>7, <2>8 DEF Core, QueueOK, RequestsOK, ResponseOK
<1>15. CASE ~ Attached' /\ ~ Loading
  <2>1. ~ Loading'
    BY <1>15 DEF Loading
  <2> QED
    BY <1>11, <1>15, <2>1, Exempt
<1> QED
  BY <1>13, <1>14, <1>15

\* An event is consumed that has no queue in memory.
LEMMA CoreUnqueued ==
    ASSUME IInv, ~ known, published' = published + 1,
           dropped' = IF dump = {} THEN dropped ELSE dropped \cup {published'},
           UNCHANGED <<known, eq, handler, dump, browser, requests, response, ahead>>
    PROVE  Core'
<1> DEFINE n == published
           m == published'
<1> USE DEF browser
<1>1. /\ n \in Nat /\ m \in Nat /\ n <= m /\ n + 1 .. m = {m}
      /\ dropped \subseteq 1 .. n
  <2>1. n \in Nat /\ dropped \subseteq 1 .. n
    BY Facts
  <2> QED
    BY <2>1
<1>2. /\ dropped \subseteq dropped' /\ dropped' \subseteq dropped \cup (n + 1 .. m)
      /\ dump # {} => n + 1 .. m \subseteq dropped'
  BY <1>1
<1>3. Copies = dump /\ Copies' = dump /\ Surviving = dump /\ Surviving' = dump
  BY DEF Copies, Surviving
<1> HIDE DEF m
<1>4. DroppedOK' /\ Snapshot' /\ ExactlyOnce'
  <2>1. DroppedOK'
    BY <1>1, <1>2 DEF DroppedOK, m
  <2>2. Snapshot'
    <3> SUFFICES ASSUME ~ ahead PROVE \E k \in 0 .. m : processed = (1 .. k) \ dropped'
      BY DEF Snapshot, m
    <3>1. \E k \in 0 .. n : processed = (1 .. k) \ dropped
      BY DEF IInv, Core, Snapshot
    <3> QED
      BY <1>1, <1>2, <3>1, LaterMoment
  <2> QED
    BY <2>1, <2>2 DEF IInv, Core, ExactlyOnce
<1>5. QueueOK'
  <2> SUFFICES ASSUME Attached, NEW q \in dump
               PROVE  Sound(q, m, dropped', last_event_id, processed)
    BY <1>3 DEF QueueOK, Attached, m
  <2>1. Sound(q, n, dropped, last_event_id, processed)
    BY <1>3, AttachedCopy
  <2>2. n + 1 .. m \subseteq dropped'
    BY <1>2
  <2> QED
    BY <1>1, <1>2, <2>1, <2>2, SoundLater
<1>6. LoadingOK'
  <2> SUFFICES ASSUME Loading, NEW q \in dump
               PROVE  WellFormed(q, m) /\ q.newest_pruned_id = -1
    BY <1>3 DEF LoadingOK, Loading, m
  <2>1. WellFormed(q, n) /\ q.newest_pruned_id = -1
    BY <1>3 DEF IInv, Core, LoadingOK
  <2>2. n + 1 .. m \subseteq dropped'
    BY <1>2
  <2> QED
    BY <1>1, <1>2, <2>1, <2>2, SoundLater
<1>7. AppliedOK'
  <2> SUFFICES ASSUME client = "applying"
               PROVE  ~ ahead /\ \A q \in dump : Covers(q, m, dropped', -1, processed)
    BY <1>3 DEF AppliedOK, m
  <2>1. ~ ahead /\ \A q \in dump : Covers(q, n, dropped, -1, processed)
    BY <1>3 DEF IInv, Core, AppliedOK
  <2> QED
    BY <1>1, <1>2, <2>1, SoundLater
<1>8. CleanOK'
  <2> SUFFICES ASSUME HasState, ~ ahead, NEW q \in dump
               PROVE  Clean(q, dropped')
    BY <1>3 DEF CleanOK, HasState
  <2>1. WellFormed(q, n)
    BY <1>3 DEF HasState, Attached, Loading, IInv, Core, QueueOK, Sound, LoadingOK
  <2>2. Clean(q, dropped)
    BY <1>3 DEF IInv, Core, CleanOK
  <2> QED
    BY <1>1, <1>2, <2>1, <2>2, CleanLater
<1>9. RequestsOK'
  BY <1>3 DEF IInv, Core, RequestsOK, Attached
<1>10. ResponseOK'
  <2> SUFFICES ASSUME Attached, NEW a \in response
               PROVE  /\ a.result # "error"
                      /\ a.result = "success" =>
                           Batch(a.events, Copies', m, dropped', last_event_id, processed)
    BY DEF ResponseOK, Attached, m
  <2>1. /\ a.result # "error"
        /\ a.result = "success" =>
             Batch(a.events, Copies, n, dropped, last_event_id, processed)
    BY DEF IInv, Core, ResponseOK
  <2>2. \A q \in Copies' : \E z \in Copies :
           /\ \A e \in z.queue : last_event_id < e.id => e \in q.queue
           /\ \A e \in events(q) : e \in events(z) \/ \A f \in a.events : ~ (e.id <= f.id)
    BY <1>3
  <2> QED
    BY <1>1, <1>2, <2>1, <2>2, BatchStays
<1> QED
  BY <1>4, <1>5, <1>6, <1>7, <1>8, <1>9, <1>10 DEF Core

\* A request of a client in step with its queue passes the second check of
\* fetch_events, and the first if the client still waits for it.
LEMMA NotRefused ==
    ASSUME IInv, Attached, known, NEW r \in requests
    PROVE  /\ r.live => ~ AlreadyPruned(r)
           /\ ~ AlreadyPruned(r) =>
                /\ ~ NotInQueue(r)
                /\ Sound(pruned(r), published, dropped, last_event_id, processed)
                /\ pruned(r).newest_pruned_id = r.last
                /\ pruned(r).queue = {e \in eq.queue : r.last < e.id}
                /\ pruned(r).virtual_events = eq.virtual_events
<1>1. eq \in Copies
  BY DEF Copies
<1>2. /\ Sound(eq, published, dropped, last_event_id, processed)
      /\ eq.newest_pruned_id \in Nat \cup {-1}
  BY <1>1, AttachedCopy
<1>3. r.last \in Nat \cup {-1} /\ last_event_id \in Nat \cup {-1}
  BY Facts
<1>4. /\ r.last <= last_event_id
      /\ r.live => r.last = last_event_id
      /\ r.last <= eq.newest_pruned_id \/ r.last \in Ids(eq.queue)
  BY <1>1 DEF IInv, Core, RequestsOK
<1>5. r.live => ~ AlreadyPruned(r)
  BY <1>2, <1>3, <1>4 DEF AlreadyPruned, Sound, Agrees
<1>6. ASSUME ~ AlreadyPruned(r)
      PROVE  /\ Sound(pruned(r), published, dropped, last_event_id, processed)
             /\ pruned(r).newest_pruned_id = r.last
             /\ pruned(r).queue = {e \in eq.queue : r.last < e.id}
             /\ pruned(r).virtual_events = eq.virtual_events
  <2>1. eq.newest_pruned_id <= r.last
    BY <1>2, <1>3, <1>6 DEF AlreadyPruned
  <2>2. r.last = eq.newest_pruned_id \/ r.last \in Ids(eq.queue)
    BY <1>2, <1>3, <1>4, <2>1
  <2> DEFINE i == r.last
  <2>3. /\ i \in Nat \cup {-1} /\ eq.newest_pruned_id <= i /\ i <= last_event_id
        /\ i = eq.newest_pruned_id \/ i \in Ids(eq.queue)
    BY <1>3, <1>4, <2>1, <2>2
  <2> HIDE DEF i
  <2>4. /\ Sound(prune(eq, i), published, dropped, last_event_id, processed)
        /\ prune(eq, i).newest_pruned_id = i
        /\ prune(eq, i).queue = {e \in eq.queue : i < e.id}
        /\ prune(eq, i).virtual_events = eq.virtual_events
    BY <1>2, <1>3, <2>3, SoundPrune
  <2> QED
    BY <2>4 DEF pruned, i
<1> QED
  BY <1>5, <1>6 DEF NotInQueue

\* A request that is turned away leaves the queue as it is.
LEMMA CoreRefuse ==
    ASSUME IInv, NEW r \in requests, Refuse(r),
           requests' = requests \ {r},
           UNCHANGED <<tornado, known, dump, published, browser, stops, dropped>>
    PROVE  Core'
<1> USE DEF browser
<1>1. UNCHANGED <<handler, ahead>>
  BY DEF Refuse, Answer, Failure, Overtakes, IInv, Base, TypeOK
<1>2. ~ Loading /\ ~ Loading'
  BY DEF IInv, Base, Lifetime, Loading
<1>3. DroppedOK' /\ Snapshot' /\ ExactlyOnce'
  BY <1>1 DEF IInv, Core, DroppedOK, Snapshot, ExactlyOnce
<1>4. CASE ~ Attached
  BY <1>1, <1>2, <1>3, <1>4, Exempt DEF Attached
<1>5. CASE Attached
  <2>1. ~ NotInQueue(r)
    <3>1. NotInQueue(r) => known /\ ~ AlreadyPruned(r)
      BY DEF NotInQueue
    <3> QED
      BY <1>5, <3>1, NotRefused
  <2>2. AlreadyPruned(r) => ~ r.live
    BY <1>5, NotRefused DEF AlreadyPruned
  <2>3. \/ BadQueue(r) /\ Answer(Who(r), Failure("bad_queue"))
        \/ AlreadyPruned(r) /\ Answer(Who(r), Failure("error"))
    BY <2>1 DEF Refuse
  <2>4. eq' = eq
    BY <2>1 DEF Refuse
  <2>5. response' = response \/ response' = {Failure("bad_queue")}
    BY <2>2, <2>3 DEF Answer, Who
  <2>6. Copies' = Copies /\ Surviving' = Surviving
    BY <2>4 DEF Copies, Surviving
  <2>7. QueueOK' /\ CleanOK' /\ RequestsOK'
    BY <1>1, <2>6 DEF IInv, Core, QueueOK, CleanOK, RequestsOK, Attached, HasState
  <2>8. ResponseOK'
    <3>1. CASE response' = response
      BY <1>1, <2>6, <3>1 DEF IInv, Core, ResponseOK, Attached
    <3>2. CASE response' = {Failure("bad_queue")}
      BY <3>2 DEF ResponseOK, Failure
    <3> QED
      BY <2>5, <3>1, <3>2
  <2>9. LoadingOK' /\ AppliedOK'
    BY <1>2 DEF LoadingOK, AppliedOK, Loading
  <2> QED
    BY <1>3, <2>7, <2>8, <2>9 DEF Core
<1> QED
  BY <1>4, <1>5

\* A request that is accepted prunes what it acknowledges, supplants the
\* connected handler and is answered or connected itself.
LEMMA CoreServe ==
    ASSUME IInv, NEW r \in requests, Serve(r),
           requests' = requests \ {r},
           UNCHANGED <<tornado, known, dump, published, browser, stops, dropped>>
    PROVE  Core'
<1> DEFINE pending == supplanted(r)
           immediate == ~ empty(pending) \/ r.dont_block
<1> USE DEF browser
<1>1. /\ known /\ ~ AlreadyPruned(r)
      /\ eq' = IF immediate THEN resolve(pending) ELSE pending
      /\ IF r.live /\ immediate THEN Answer("live", Success(eq'.queue))
         ELSE Answer(handler, Success(pending.queue))
  BY DEF Serve, Accepted
<1>2. /\ published \in Nat /\ last_event_id \in Nat \cup {-1} /\ r.last \in Nat \cup {-1}
      /\ ~ ahead => processed \subseteq 1 .. published /\ processed \cap dropped = {}
  BY Facts
<1>3. ahead => ahead'
  BY <1>1 DEF Answer, IInv, Base, TypeOK
<1>4. ~ Loading /\ ~ Loading'
  BY DEF IInv, Base, Lifetime, Loading
<1>5. DroppedOK' /\ Snapshot' /\ ExactlyOnce'
  BY <1>3 DEF IInv, Core, DroppedOK, Snapshot, ExactlyOnce
<1>6. CASE ~ Attached'
  BY <1>4, <1>5, <1>6, Exempt
<1>7. CASE Attached'
  <2>1. Attached /\ HasState /\ ~ ahead
    BY <1>3, <1>7 DEF Attached, HasState
  <2>2. /\ Sound(pruned(r), published, dropped, last_event_id, processed)
        /\ pruned(r).newest_pruned_id = r.last
        /\ pruned(r).queue = {e \in eq.queue : r.last < e.id}
        /\ pruned(r).virtual_events = eq.virtual_events
        /\ r.last <= last_event_id
        /\ r.live => r.last = last_event_id /\ response = {} /\ handler # "live"
    BY <1>1, <2>1, NotRefused DEF IInv, Core, RequestsOK, Base, Connection
  <2>3. /\ Copies = dump \cup {eq} /\ Copies' = dump \cup {eq'}
        /\ Surviving' = IF dump = {} THEN {eq'} ELSE dump
        /\ Surviving = IF dump = {} THEN {eq} ELSE dump
    BY <1>1 DEF Copies, Surviving
  <2>4. \A e \in eq.queue : e \in events(eq) /\ e.id \in Nat
    BY <2>1, <2>3, AttachedCopy
  <2>5. /\ Sound(pending, published, dropped, last_event_id, processed)
        /\ pending.newest_pruned_id = r.last
        /\ {e \in eq.queue : r.last < e.id} \subseteq pending.queue
        /\ events(pending) \subseteq events(eq)
        /\ handler # "none" => pending.virtual_events = {} /\ pending.queue = events(pending)
    <3>1. CASE handler = "none"
      BY <2>2, <3>1 DEF supplanted, events
    <3>2. CASE handler # "none"
      <4>1. pending = resolve(pruned(r))
        BY <3>2 DEF supplanted
      <4>2. /\ Sound(pending, published, dropped, last_event_id, processed)
            /\ events(pending) = events(pruned(r)) /\ pending.queue = events(pruned(r))
            /\ pending.virtual_events = {} /\ pending.newest_pruned_id = r.last
        BY <2>2, <4>1, SoundResolve
      <4> QED
        BY <2>2, <4>2 DEF events
    <3> QED
      BY <3>1, <3>2
  <2> HIDE DEF pending
  <2>6. /\ Sound(resolve(pending), published, dropped, last_event_id, processed)
        /\ events(resolve(pending)) = events(pending)
        /\ resolve(pending).queue = events(pending)
        /\ resolve(pending).virtual_events = {}
        /\ resolve(pending).newest_pruned_id = r.last
    BY <2>5, SoundResolve
  <2>7. /\ Sound(eq', published, dropped, last_event_id, processed)
        /\ eq'.newest_pruned_id = r.last
        /\ {e \in eq.queue : r.last < e.id} \subseteq eq'.queue
        /\ events(eq') \subseteq events(eq)
    <3>1. CASE immediate
      BY <1>1, <2>5, <2>6, <3>1 DEF events
    <3>2. CASE ~ immediate
      BY <1>1, <2>5, <3>2
    <3> QED
      BY <3>1, <3>2
  <2>8. QueueOK'
    BY <2>1, <2>3, <2>7 DEF IInv, Core, QueueOK
  <2>9. \A q \in Surviving : Clean(q, dropped)
    BY <2>1 DEF IInv, Core, CleanOK
  <2>10. CleanOK'
    BY <2>3, <2>7, <2>9 DEF CleanOK, Clean
  <2>11. RequestsOK'
    <3> SUFFICES ASSUME NEW s \in requests'
                 PROVE  s.last <= r.last \/ s.last \in Ids(eq'.queue)
      BY <2>1, <2>3, <2>7 DEF IInv, Core, RequestsOK
    <3>1. s.last \in Nat \cup {-1}
      BY Facts
    <3>2. s.last <= eq.newest_pruned_id \/ s.last \in Ids(eq.queue)
      BY <2>1, <2>3 DEF IInv, Core, RequestsOK
    <3>3. eq.newest_pruned_id <= r.last /\ eq.newest_pruned_id \in Nat \cup {-1}
      BY <1>1, <1>2, <2>1, <2>3, AttachedCopy DEF AlreadyPruned
    <3>4. \A e \in eq.queue : e.id <= r.last \/ e \in eq'.queue
      BY <1>2, <2>4, <2>7
    <3> QED
      BY <1>2, <3>1, <3>2, <3>3, <3>4 DEF Ids
  <2>12. ASSUME NEW a \in response, a.result = "success"
         PROVE  Batch(a.events, Copies', published, dropped, last_event_id, processed)
    <3>1. Batch(a.events, Copies, published, dropped, last_event_id, processed)
      BY <2>1, <2>12 DEF IInv, Core, ResponseOK
    <3>2. \A e \in eq.queue : last_event_id < e.id => e \in eq'.queue
      BY <1>2, <2>2, <2>4, <2>7
    <3>3. \A q \in Copies' : \E z \in Copies :
             /\ \A e \in z.queue : last_event_id < e.id => e \in q.queue
             /\ \A e \in events(q) : e \in events(z) \/ \A f \in a.events : ~ (e.id <= f.id)
      BY <2>3, <2>7, <3>2
    <3>4. published <= published /\ dropped \subseteq dropped \cup (published + 1 .. published)
      BY <1>2
    <3> QED
      BY <1>2, <3>1, <3>3, <3>4, BatchStays
  <2>13. ASSUME Overtakes(eq'.queue) => FALSE, eq'.virtual_events = {},
                \A e \in eq'.queue : last_event_id < e.id
         PROVE  Batch(eq'.queue, Copies', published, dropped, last_event_id, processed)
    <3>1. CASE dump = {}
      <4>1. Clean(eq', dropped) /\ Copies' = {eq'}
        BY <2>3, <2>7, <2>9, <3>1 DEF Clean
      <4> QED
        BY <1>2, <2>1, <2>7, <2>13, <4>1, FullBatch
    <3>2. CASE dump # {}
      <4>1. eq'.queue = {}
        BY <2>13, <3>2 DEF Overtakes
      <4>2. \E k \in 0 .. published : processed = (1 .. k) \ dropped
        BY <2>1 DEF IInv, Core, Snapshot
      <4> QED
        BY <4>1, <4>2, EmptyBatch
    <3> QED
      BY <3>1, <3>2
  <2>14. CASE r.live /\ immediate
    <3>1. /\ response' = {Success(eq'.queue)}
          /\ ahead' = (ahead \/ Overtakes(eq'.queue))
      BY <1>1, <2>14 DEF Answer, Success
    <3>2. eq'.virtual_events = {} /\ eq'.newest_pruned_id = last_event_id
      BY <1>1, <2>2, <2>6, <2>7, <2>14
    <3>3. \A e \in eq'.queue : last_event_id < e.id
      BY <2>7, <3>2 DEF Sound, WellFormed, events
    <3>4. Batch(eq'.queue, Copies', published, dropped, last_event_id, processed)
      BY <1>7, <2>13, <3>1, <3>2, <3>3 DEF Attached
    <3>5. ResponseOK'
      <4>1. Success(eq'.queue).result = "success" /\ Success(eq'.queue).events = eq'.queue
        BY DEF Success
      <4> QED
        BY <3>1, <3>4, <4>1 DEF ResponseOK
    <3> QED
      BY <1>4, <1>5, <2>8, <2>10, <2>11, <3>5 DEF Core, LoadingOK, AppliedOK, Loading
  <2>15. CASE ~ (r.live /\ immediate) /\ handler = "live"
    <3>1. /\ response' = {Success(pending.queue)}
          /\ ahead' = (ahead \/ Overtakes(pending.queue))
      BY <1>1, <2>15 DEF Answer, Success
    <3>2. pending.virtual_events = {} /\ pending.queue = events(pending)
      BY <2>5, <2>15
    <3>3. eq'.queue = pending.queue /\ eq'.virtual_events = {}
      BY <1>1, <2>6, <3>2
    <3>4. events(eq) = {}
      BY <2>15 DEF IInv, Base, Lifetime, empty
    <3>5. eq'.queue = {}
      BY <2>7, <3>4 DEF events
    <3>6. Batch(eq'.queue, Copies', published, dropped, last_event_id, processed)
      BY <2>13, <3>3, <3>5 DEF Overtakes
    <3>7. ResponseOK'
      <4>1. /\ Success(pending.queue).result = "success"
            /\ Success(pending.queue).events = eq'.queue
        BY <3>3 DEF Success
      <4> QED
        BY <3>1, <3>6, <4>1 DEF ResponseOK
    <3> QED
      BY <1>4, <1>5, <2>8, <2>10, <2>11, <3>7 DEF Core, LoadingOK, AppliedOK, Loading
  <2>16. CASE ~ (r.live /\ immediate) /\ handler # "live"
    <3>1. response' = response
      BY <1>1, <2>16 DEF Answer
    <3>2. ResponseOK'
      BY <2>1, <2>12, <3>1 DEF IInv, Core, ResponseOK
    <3> QED
      BY <1>4, <1>5, <2>8, <2>10, <2>11, <3>2 DEF Core, LoadingOK, AppliedOK, Loading
  <2> QED
    BY <2>14, <2>15, <2>16
<1> QED
  BY <1>6, <1>7


\* Tornado has loaded the queue and sent the restart event.
LEMMA CoreStart ==
    ASSUME IInv, ~ known, known', NEW q \in dump, dump' = {},
           published < MaxPayloads, published' = published + 1,
           eq' = restarted(q, published'),
           UNCHANGED <<handler, browser, requests, response, stops, history>>
    PROVE  Core'
<1> DEFINE n == published
           m == published'
           c == {published'}
<1> USE DEF browser, history
<1>1. /\ n \in Nat /\ m \in Nat /\ n <= m /\ c = n + 1 .. m /\ c \in SUBSET Payloads
      /\ last_event_id \in Nat \cup {-1} /\ q \in Queue
      /\ dropped \subseteq 1 .. n
      /\ ~ ahead => processed \subseteq 1 .. n /\ processed \cap dropped = {}
  <2>1. /\ n \in Nat /\ last_event_id \in Nat \cup {-1} /\ q \in Queue
        /\ dropped \subseteq 1 .. n /\ n < MaxPayloads
        /\ ~ ahead => processed \subseteq 1 .. n /\ processed \cap dropped = {}
    BY Facts
  <2>2. n + 1 \in Nat /\ n + 1 \in Payloads
    BY <2>1, DeliveryAssumption
  <2> HIDE DEF n
  <2>3. m = n + 1
    BY DEF n
  <2> HIDE DEF m
  <2>4. m \in Nat /\ n <= m /\ m \in Payloads
    BY <2>1, <2>2, <2>3
  <2>5. n + 1 .. m = {m}
    BY <2>1, <2>3
  <2> QED
    BY <2>1, <2>4, <2>5 DEF m
<1>2. Restart \in Types
  BY DeliveryAssumption
<1>3. /\ eq' = push(q, Restart, c)
      /\ eq'.newest_pruned_id = q.newest_pruned_id
      /\ q.queue \subseteq eq'.queue
      /\ events(eq') \subseteq events(q) \cup {numbered(q, Restart, c)}
      /\ numbered(q, Restart, c) \in events(eq')
      /\ numbered(q, Restart, c).id = q.next_event_id
  <2>1. /\ push(q, Restart, c).newest_pruned_id = q.newest_pruned_id
        /\ q.queue \subseteq push(q, Restart, c).queue
        /\ events(push(q, Restart, c)) =
             q.queue \cup (q.virtual_events \ merged(q, Restart)) \cup {numbered(q, Restart, c)}
    BY <1>1, <1>2, PushFields
  <2>2. eq' = push(q, Restart, c)
    BY DEF restarted
  <2>3. numbered(q, Restart, c).id = q.next_event_id
    BY DEF numbered
  <2> QED
    BY <2>1, <2>2, <2>3 DEF events
<1> HIDE DEF m, c
<1>4. q \in Copies /\ q \in Surviving /\ Copies' = {eq'} /\ Surviving' = {eq'}
  BY DEF Copies, Surviving
<1>5. DroppedOK' /\ Snapshot' /\ ExactlyOnce'
  <2>1. DroppedOK'
    BY <1>1 DEF DroppedOK, m
  <2>2. Snapshot'
    <3> SUFFICES ASSUME ~ ahead PROVE \E k \in 0 .. m : processed = (1 .. k) \ dropped
      BY DEF Snapshot, m
    <3>1. \E k \in 0 .. n : processed = (1 .. k) \ dropped
      BY DEF IInv, Core, Snapshot
    <3>2. dropped \subseteq dropped /\ dropped \subseteq dropped \cup (n + 1 .. m)
      OBVIOUS
    <3> QED
      BY <1>1, <3>1, <3>2, LaterMoment
  <2> QED
    BY <2>1, <2>2 DEF IInv, Core, ExactlyOnce
<1>6. ASSUME HasState, ~ ahead, WellFormed(q, n) PROVE CleanOK'
  <2>1. Clean(q, dropped)
    BY <1>4, <1>6 DEF IInv, Core, CleanOK
  <2>2. Clean(push(q, Restart, c), dropped)
    BY <1>1, <1>2, <1>6, <2>1, CleanPush
  <2> QED
    BY <1>3, <1>4, <2>2 DEF CleanOK
<1>7. CASE Attached
  <2>1. /\ Sound(q, n, dropped, last_event_id, processed)
        /\ \A e \in events(q) : e.id \in Nat /\ e.id < q.next_event_id
        /\ q.next_event_id \in Nat
        /\ \A f \in q.queue : f \in events(q)
    BY <1>4, <1>7, AttachedCopy
  <2>2. HasState /\ ~ ahead /\ WellFormed(q, n)
    BY <1>7, <2>1 DEF Attached, HasState, Sound
  <2>3. QueueOK'
    <3>1. Sound(push(q, Restart, c), m, dropped, last_event_id, processed)
      BY <1>1, <1>2, <2>1, <2>2, SoundPush
    <3> QED
      BY <1>3, <1>4, <3>1 DEF QueueOK, m
  <2>4. RequestsOK'
    <3>1. Ids(q.queue) \subseteq Ids(eq'.queue)
      BY <1>3 DEF Ids
    <3> QED
      BY <1>3, <1>4, <1>7, <3>1 DEF IInv, Core, RequestsOK
  <2>5. ResponseOK'
    <3> SUFFICES ASSUME NEW a \in response
                 PROVE  /\ a.result # "error"
                        /\ a.result = "success" =>
                             Batch(a.events, Copies', m, dropped, last_event_id, processed)
      BY DEF ResponseOK, m
    <3>1. /\ a.result # "error"
          /\ a.result = "success" =>
               Batch(a.events, Copies, n, dropped, last_event_id, processed)
      BY <1>7 DEF IInv, Core, ResponseOK
    <3>2. ASSUME a.result = "success"
          PROVE  Batch(a.events, Copies', m, dropped, last_event_id, processed)
      <4>1. a.events \subseteq q.queue
        BY <1>4, <3>1, <3>2 DEF Batch
      <4>2. \A e \in events(eq') : e \in events(q) \/ \A f \in a.events : ~ (e.id <= f.id)
        BY <1>3, <2>1, <4>1
      <4>3. \A r \in Copies' : \E z \in Copies :
               /\ \A e \in z.queue : last_event_id < e.id => e \in r.queue
               /\ \A e \in events(r) : e \in events(z) \/ \A f \in a.events : ~ (e.id <= f.id)
        BY <1>3, <1>4, <4>2
      <4>4. dropped \subseteq dropped /\ dropped \subseteq dropped \cup (n + 1 .. m)
        OBVIOUS
      <4> QED
        BY <1>1, <3>1, <3>2, <4>3, <4>4, BatchStays
    <3> QED
      BY <3>1, <3>2
  <2>6. LoadingOK' /\ AppliedOK'
    BY <1>7 DEF LoadingOK, AppliedOK, Loading, Attached
  <2> QED
    BY <1>5, <1>6, <2>2, <2>3, <2>4, <2>5, <2>6 DEF Core
<1>8. CASE Loading
  <2>1. WellFormed(q, n) /\ q.newest_pruned_id = -1
    BY <1>4, <1>8 DEF IInv, Core, LoadingOK
  <2>2. WellFormed(push(q, Restart, c), m)
    BY <1>1, <1>2, <2>1, WellFormedPush
  <2>3. LoadingOK'
    BY <1>3, <1>4, <2>1, <2>2 DEF LoadingOK, m
  <2>4. AppliedOK'
    <3> SUFFICES ASSUME client = "applying"
                 PROVE  ~ ahead /\ Covers(eq', m, dropped, -1, processed)
      BY <1>4 DEF AppliedOK, m
    <3>1. ~ ahead /\ Covers(q, n, dropped, -1, processed)
      BY <1>4 DEF IInv, Core, AppliedOK
    <3>2. -1 < q.next_event_id
      BY <1>1 DEF Queue
    <3> QED
      BY <1>1, <1>2, <1>3, <3>1, <3>2, CoversPush
  <2>5. CleanOK'
    BY <1>6, <2>1 DEF CleanOK, HasState
  <2>6. ~ Attached'
    BY <1>8 DEF Attached, Loading
  <2> QED
    BY <1>5, <2>3, <2>4, <2>5, <2>6 DEF Core, QueueOK, RequestsOK, ResponseOK
<1>9. CASE ~ Attached /\ ~ Loading
  BY <1>5, <1>9, Exempt DEF Attached, Loading
<1> QED
  BY <1>7, <1>8, <1>9

\* The client takes a response.
LEMMA CoreReceive ==
    ASSUME IInv, client = "waiting", response' = {},
           NEW a \in response, get_events_success(a) \/ get_events_error(a),
           UNCHANGED <<server, published, requests, stops, history>>
    PROVE  Core'
<1> USE DEF server, history
<1>1. ~ Loading' /\ DroppedOK' /\ Copies' = Copies /\ Surviving' = Surviving
  BY DEF get_events_success, get_events_error, Loading, IInv, Core, DroppedOK, Copies,
     Surviving
<1>2. CASE ahead
  <2>1. ~ Attached' /\ Snapshot' /\ ExactlyOnce'
    BY <1>2 DEF Attached, Snapshot, ExactlyOnce
  <2> QED
    BY <1>1, <2>1, Exempt
<1>3. CASE ~ ahead /\ get_events_error(a)
  <2>1. a.result # "error"
    BY <1>3 DEF IInv, Core, ResponseOK, Attached
  <2>2. client' = "reloading" /\ UNCHANGED <<last_event_id, processed, repeated>>
    BY <1>3, <2>1 DEF get_events_error
  <2>3. ~ Attached'
    BY <2>2 DEF Attached
  <2>4. Snapshot' /\ ExactlyOnce'
    BY <2>2 DEF IInv, Core, Snapshot, ExactlyOnce
  <2> QED
    BY <1>1, <2>3, <2>4, Exempt
<1>4. CASE ~ ahead /\ get_events_success(a)
  <2> DEFINE E == a.events
             i == last_event_id'
  <2>1. /\ Attached /\ HasState /\ last_event_id \in Nat \cup {-1} /\ published \in Nat
        /\ Batch(E, Copies, published, dropped, last_event_id, processed)
    BY <1>4, Facts DEF IInv, Core, ResponseOK, Attached, HasState, get_events_success
  <2>2. /\ client' = "idle"
        /\ i \in Greatest(Ids(E) \cup {last_event_id})
        /\ processed' = processed \cup Contents(E)
        /\ repeated' = repeated \cup (processed \cap Contents(E))
    BY <1>4 DEF get_events_success
  <2>3. i \in Ids(E) \cup {last_event_id} /\ \A j \in Ids(E) \cup {last_event_id} : j <= i
    BY <2>2 DEF Greatest
  <2> HIDE DEF E, i
  <2>4. Snapshot'
    BY <2>1, <2>2 DEF Snapshot, Batch
  <2>5. ExactlyOnce'
    <3>1. repeated = {}
      BY <1>4 DEF IInv, Core, ExactlyOnce
    <3>2. processed \cap Contents(E) = {}
      BY <2>1 DEF Batch, Contents
    <3> QED
      BY <2>2, <3>1, <3>2 DEF ExactlyOnce
  <2>6. QueueOK'
    <3> SUFFICES ASSUME NEW q \in Copies
                 PROVE  Sound(q, published, dropped, i, processed \cup Contents(E))
      BY <1>1, <2>2 DEF QueueOK, i
    <3>1. Sound(q, published, dropped, last_event_id, processed)
      BY <2>1, AttachedCopy
    <3>2. /\ E \subseteq q.queue
          /\ \A e \in E : last_event_id < e.id
          /\ \A e \in events(q), f \in E : last_event_id < e.id /\ e.id <= f.id => e \in E
      BY <2>1 DEF Batch
    <3> QED
      BY <2>1, <2>3, <3>1, <3>2, SoundProcess
  <2>7. CleanOK'
    BY <1>1, <2>1 DEF IInv, Core, CleanOK
  <2>8. RequestsOK'
    <3> SUFFICES ASSUME NEW r \in requests
                 PROVE  /\ r.last <= i /\ (r.live => r.last = i)
                        /\ \A q \in Copies : r.last <= q.newest_pruned_id
                                               \/ r.last \in Ids(q.queue)
      BY <1>1 DEF RequestsOK, i
    <3>1. ~ r.live
      BY DEF IInv, Base, Connection
    <3>2. /\ r.last <= last_event_id
          /\ \A q \in Copies : r.last <= q.newest_pruned_id \/ r.last \in Ids(q.queue)
      BY <2>1 DEF IInv, Core, RequestsOK
    <3>3. r.last \in Nat \cup {-1} /\ i \in Nat \cup {-1} /\ last_event_id <= i
      <4>1. last_event_id' \in Nat \cup {-1}
        <5>1. Ids(E) \subseteq Nat
          BY DEF IInv, Base, TypeOK, Response, Event, Ids, E
        <5> QED
          BY <2>1, <2>3, <5>1 DEF i
      <4> QED
        BY <2>3, <4>1, Facts DEF i
    <3> QED
      BY <2>1, <3>1, <3>2, <3>3
  <2>9. ResponseOK' /\ LoadingOK' /\ AppliedOK'
    BY <1>1, <2>2 DEF ResponseOK, LoadingOK, AppliedOK
  <2> QED
    BY <1>1, <2>4, <2>5, <2>6, <2>7, <2>8, <2>9 DEF Core
<1> QED
  BY <1>2, <1>3, <1>4

\* The reload allocates a queue.
LEMMA CoreRegister == IInv /\ Register => Core'
<1> SUFFICES ASSUME IInv, Register PROVE Core'
  OBVIOUS
<1>1. /\ client' = "fetching" /\ eq' = EmptyQueue /\ dump' = {} /\ requests' = {}
      /\ UNCHANGED <<published, processed, repeated, dropped, ahead>>
  BY DEF Register, history
<1>2. Copies' \subseteq {EmptyQueue}
  BY <1>1 DEF Copies
<1>3. WellFormed(EmptyQueue, published) /\ EmptyQueue.newest_pruned_id = -1
  BY EmptyWellFormed, Facts
<1>4. LoadingOK'
  BY <1>1, <1>2, <1>3 DEF LoadingOK
<1>5. DroppedOK' /\ Snapshot' /\ ExactlyOnce'
  BY <1>1 DEF IInv, Core, DroppedOK, Snapshot, ExactlyOnce
<1> QED
  BY <1>1, <1>4, <1>5 DEF Core, QueueOK, CleanOK, RequestsOK, ResponseOK, AppliedOK, Attached,
     HasState

\* The reload fetches the state.
LEMMA CoreFetchState == IInv /\ FetchState => Core'
<1> SUFFICES ASSUME IInv, FetchState PROVE Core'
  OBVIOUS
<1>1. /\ client = "fetching" /\ client' = "applying" /\ processed' = 1 .. published
      /\ repeated' = {} /\ dropped' = {} /\ ahead' = FALSE
      /\ UNCHANGED <<known, eq, dump, published>>
  BY DEF FetchState, server
<1>2. Copies' = Copies
  BY <1>1 DEF Copies
<1>3. published \in Nat
  BY Facts
<1>4. Snapshot'
  <2>1. published \in 0 .. published /\ processed' = (1 .. published) \ {}
    BY <1>1, <1>3
  <2> QED
    BY <1>1, <2>1 DEF Snapshot
<1>5. DroppedOK' /\ ExactlyOnce'
  BY <1>1 DEF DroppedOK, ExactlyOnce
<1>6. CleanOK'
  BY <1>1 DEF CleanOK, Clean
<1>7. LoadingOK'
  BY <1>1, <1>2 DEF IInv, Core, LoadingOK, Loading
<1>8. AppliedOK'
  BY <1>1 DEF AppliedOK, Covers
<1> QED
  BY <1>1, <1>4, <1>5, <1>6, <1>7, <1>8 DEF Core, QueueOK, RequestsOK, ResponseOK, Attached

\* The reload applies what came meanwhile.
LEMMA CoreApplyEvents == IInv /\ ApplyEvents => Core'
<1> SUFFICES ASSUME IInv, ApplyEvents PROVE Core'
  OBVIOUS
<1> DEFINE i == last_event_id'
<1>1. /\ client = "applying" /\ client' = "idle" /\ known /\ known'
      /\ eq' = resolve(eq)
      /\ i \in Greatest(Ids(eq'.queue) \cup {-1})
      /\ processed' = processed \cup Contents(eq'.queue)
      /\ ahead' = Overtakes(eq'.queue)
      /\ UNCHANGED <<dump, published, repeated, requests, response, dropped>>
  BY DEF ApplyEvents
<1>2. /\ Loading /\ ~ Loading' /\ HasState /\ ~ ahead
      /\ requests = {} /\ response = {} /\ repeated = {}
  BY <1>1 DEF Loading, HasState, IInv, Base, Connection, Lifetime, Core, AppliedOK, ExactlyOnce
<1>3. Copies = dump \cup {eq} /\ Copies' = dump \cup {eq'}
  BY <1>1 DEF Copies
<1>4. /\ \A q \in Copies : /\ WellFormed(q, published) /\ q.newest_pruned_id = -1
                           /\ Covers(q, published, dropped, -1, processed)
      /\ empty(eq) => \A q \in dump : empty(q)
  BY <1>1, <1>2 DEF IInv, Core, LoadingOK, AppliedOK
<1>5. /\ published \in Nat /\ eq \in Queue
      /\ processed \subseteq 1 .. published /\ processed \cap dropped = {}
  BY <1>2, Facts
<1>6. /\ eq'.queue = events(eq) /\ events(eq') = events(eq) /\ eq'.virtual_events = {}
      /\ eq'.newest_pruned_id = -1
      /\ WellFormed(eq', published) /\ Covers(eq', published, dropped, -1, processed)
  <2>1. /\ eq'.queue = events(eq) /\ eq'.virtual_events = {}
        /\ eq'.newest_pruned_id = eq.newest_pruned_id
        /\ eq'.next_event_id = eq.next_event_id /\ eq' \in Queue
    BY <1>1, <1>5, ResolveType DEF resolve, Queue
  <2>2. events(eq') = events(eq)
    BY <2>1 DEF events
  <2>3. WellFormed(eq, published) /\ eq.newest_pruned_id = -1
        /\ Covers(eq, published, dropped, -1, processed)
    BY <1>3, <1>4
  <2> QED
    BY <2>1, <2>2, <2>3 DEF WellFormed, Covers
<1>7. DroppedOK'
  BY <1>1 DEF IInv, Core, DroppedOK
<1>8. CASE ahead'
  BY <1>2, <1>7, <1>8, Exempt DEF Attached, Snapshot, ExactlyOnce
<1>9. CASE ~ ahead'
  <2>1. dump = {} \/ events(eq) = {}
    BY <1>1, <1>6, <1>9 DEF Overtakes
  <2>2. \A q \in dump : events(q) = {}
    BY <1>4, <2>1 DEF empty
  <2>3. \A q \in Copies' : /\ q.queue = eq'.queue /\ q.virtual_events = {}
                           /\ q.newest_pruned_id = -1 /\ WellFormed(q, published)
                           /\ Covers(q, published, dropped, -1, processed)
    <3>1. \A q \in dump : q.queue = {} /\ q.virtual_events = {}
      BY <2>2 DEF events
    <3>2. dump # {} => eq'.queue = {}
      BY <1>6, <2>1
    <3> QED
      BY <1>3, <1>4, <1>6, <3>1, <3>2
  <2>4. QueueOK'
    <3> SUFFICES ASSUME NEW q \in Copies'
                 PROVE  Sound(q, published, dropped, i, processed \cup Contents(eq'.queue))
      BY <1>1 DEF QueueOK
    <3>1. i \in Greatest(Ids(q.queue) \cup {-1}) /\ q.queue = eq'.queue
      BY <1>1, <2>3
    <3> HIDE DEF i
    <3>2. Sound(q, published, dropped, i, processed \cup Contents(q.queue))
      BY <2>3, <3>1, SoundApplied
    <3> QED
      BY <3>1, <3>2
  <2>5. CleanOK'
    <3>1. CASE dump = {}
      <4>1. Clean(eq, dropped)
        BY <1>2, <1>3, <3>1 DEF IInv, Core, CleanOK, Surviving
      <4>2. Surviving' = {eq'}
        BY <1>1, <1>3, <3>1 DEF Surviving
      <4> QED
        BY <1>1, <1>6, <4>1, <4>2 DEF CleanOK, Clean
    <3>2. CASE dump # {}
      <4>1. Surviving' = dump
        BY <1>1, <3>2 DEF Surviving
      <4> QED
        BY <2>2, <4>1 DEF CleanOK, Clean
    <3> QED
      BY <3>1, <3>2
  <2>6. Snapshot'
    <3>1. CASE dump = {}
      <4>1. Clean(eq', dropped)
        BY <1>2, <1>3, <1>6, <3>1 DEF IInv, Core, CleanOK, Surviving, Clean
      <4>2. processed' = (1 .. published) \ dropped
        <5> DEFINE z == eq'
                   first == -1
        <5>1. /\ WellFormed(z, published) /\ Covers(z, published, dropped, first, processed)
              /\ Clean(z, dropped) /\ z.virtual_events = {}
          BY <1>6, <4>1
        <5> HIDE DEF z, first
        <5>2. processed \cup Contents(z.queue) = (1 .. published) \ dropped
          BY <1>5, <5>1, AllProcessed
        <5> QED
          BY <1>1, <5>2 DEF z
      <4>3. published \in 0 .. published
        BY <1>5
      <4> QED
        BY <1>1, <4>2, <4>3 DEF Snapshot
    <3>2. CASE dump # {}
      <4>1. processed' = processed
        BY <1>1, <1>6, <2>1, <3>2 DEF Contents
      <4> QED
        BY <1>1, <1>2, <4>1 DEF IInv, Core, Snapshot
    <3> QED
      BY <3>1, <3>2
  <2>7. ExactlyOnce' /\ RequestsOK' /\ ResponseOK' /\ LoadingOK' /\ AppliedOK'
    BY <1>1, <1>2 DEF ExactlyOnce, RequestsOK, ResponseOK, LoadingOK, AppliedOK
  <2> QED
    BY <1>7, <2>4, <2>5, <2>6, <2>7 DEF Core
<1> QED
  BY <1>8, <1>9

\* Every step.
LEMMA CoreStep == IInv /\ [Next]_vars => Core'
<1> SUFFICES ASSUME IInv, [Next]_vars PROVE Core'
  OBVIOUS
<1> USE DEF server, browser, history
<1>1. ASSUME NEW t \in Published, Publish(t) PROVE Core'
  <2>1. /\ published \in Nat /\ published' = published + 1 /\ published + 1 <= MaxPayloads
        /\ dropped' = IF dump = {} THEN dropped ELSE dropped \cup {published'}
        /\ UNCHANGED <<tornado, known, dump, browser, requests, stops>>
    BY <1>1, Facts, DeliveryAssumption DEF Publish, Reserved
  <2>2. t \in Types
    BY DeliveryAssumption
  <2>3. CASE known /\ add_event(t, {published'})
    <3>1. {published'} = published + 1 .. published' /\ published' \in Nat
          /\ published <= published' /\ published' <= MaxPayloads
      BY <2>1
    <3> QED
      BY <2>1, <2>2, <2>3, <3>1, CoreAddEvent
  <2>4. CASE ~ known /\ UNCHANGED <<eq, handler, response, ahead>>
    BY <2>1, <2>4, CoreUnqueued
  <2> QED
    BY <1>1, <2>3, <2>4 DEF Publish
<1>2. CASE SendHeartbeat
  <2>1. /\ known /\ add_event(Heartbeat, {}) /\ published' = published
        /\ dropped' = dropped
        /\ UNCHANGED <<tornado, known, dump, browser, requests, stops>>
    BY <1>2 DEF SendHeartbeat
  <2>2. Heartbeat \in Types
    BY DeliveryAssumption
  <2>3. /\ published \in Nat /\ published <= published /\ published <= MaxPayloads
        /\ {} = published + 1 .. published
    BY Facts
  <2>4. dropped' = IF dump = {} THEN dropped ELSE dropped \cup {}
    BY <2>1
  <2> QED
    BY <2>1, <2>2, <2>3, <2>4, CoreAddEvent
<1>3. ASSUME NEW r \in requests, fetch_events(r) PROVE Core'
  <2>1. /\ requests' = requests \ {r}
        /\ Refuse(r) \/ Serve(r)
        /\ UNCHANGED <<tornado, known, dump, published, browser, stops, dropped>>
    BY <1>3 DEF fetch_events
  <2> QED
    BY <2>1, CoreRefuse, CoreServe
<1>4. CASE ConnectionClose
  <2>1. Copies' = Copies /\ Surviving' = Surviving
    BY <1>4 DEF ConnectionClose, Copies, Surviving
  <2> QED
    BY <1>4, <2>1, Still DEF ConnectionClose, IInv, Core, LoadingOK
<1>5. CASE GarbageCollect
  <2>1. Copies' \subseteq Copies /\ Surviving' \subseteq Surviving
    BY <1>5 DEF GarbageCollect, Copies, Surviving
  <2> QED
    BY <1>5, <2>1, Still DEF GarbageCollect
<1>6. CASE DumpQueues
  <2>1. dump = {}
    BY <1>6 DEF DumpQueues, IInv, Base, Lifetime
  <2>2. Copies' \subseteq Copies /\ Surviving' \subseteq Surviving
    BY <1>6, <2>1 DEF DumpQueues, Copies, Surviving
  <2>3. empty(eq) => \A q \in dump' : empty(q)
    BY <1>6 DEF DumpQueues
  <2> QED
    BY <1>6, <2>2, <2>3, Still DEF DumpQueues
<1>7. CASE Exit \/ Crash
  <2>1. Gone
    BY <1>7 DEF Exit, Crash
  <2>2. Copies' \subseteq Copies /\ Surviving' \subseteq Surviving
    BY <2>1 DEF Gone, Copies, Surviving
  <2> QED
    BY <2>1, <2>2, Still DEF Gone
<1>8. CASE Start
  <2>1. tornado = "down" /\ ~ known
    BY <1>8 DEF Start, IInv, Base, Lifetime
  <2>2. CASE dump = {} /\ UNCHANGED <<known, eq, published>>
    <3>1. Copies' \subseteq Copies /\ Surviving' \subseteq Surviving
      BY <1>8, <2>2 DEF Start, Copies, Surviving
    <3> QED
      BY <1>8, <2>1, <2>2, <3>1, Still DEF Start
  <2>3. CASE \E q \in dump :
               /\ published < MaxPayloads /\ q.next_event_id <= MaxEventId
               /\ published' = published + 1
               /\ eq' = restarted(q, published')
               /\ known' = TRUE
    BY <1>8, <2>1, <2>3, CoreStart DEF Start
  <2> QED
    BY <1>8, <2>2, <2>3 DEF Start
<1>9. ASSUME NEW b \in BOOLEAN, get_events(b) PROVE Core'
  <2>1. Copies' = Copies /\ Surviving' = Surviving
    BY <1>9 DEF get_events, Copies, Surviving
  <2>2. \A s \in requests' : s.last = last_event_id
                               \/ \E r \in requests : r.last = s.last /\ (s.live => r.live)
    BY <1>9 DEF get_events
  <2>3. ~ Loading
    BY <1>9 DEF get_events, Loading
  <2> QED
    BY <1>9, <2>1, <2>2, <2>3, Still DEF get_events
<1>10. CASE Abandon
  <2>1. Copies' = Copies /\ Surviving' = Surviving
    BY <1>10 DEF Abandon, Copies, Surviving
  <2>2. \A s \in requests' : \E r \in requests : r.last = s.last /\ (s.live => r.live)
    BY <1>10 DEF Abandon, abandoned, IInv, Base, TypeOK, Request
  <2>3. ~ Loading
    BY <1>10 DEF Abandon, Loading
  <2> QED
    BY <1>10, <2>1, <2>2, <2>3, Still DEF Abandon
<1>11. CASE Receive
  BY <1>11, CoreReceive DEF Receive
<1>12. CASE Register \/ FetchState \/ ApplyEvents
  BY <1>12, CoreRegister, CoreFetchState, CoreApplyEvents
<1>13. CASE RegisterFails
  <2>1. ~ Attached' /\ ~ Loading'
    BY <1>13 DEF RegisterFails, Attached, Loading
  <2>2. DroppedOK' /\ Snapshot' /\ ExactlyOnce'
    BY <1>13 DEF RegisterFails, IInv, Core, DroppedOK, Snapshot, ExactlyOnce
  <2> QED
    BY <2>1, <2>2, Exempt
<1>14. CASE UNCHANGED vars
  <2>1. Copies' = Copies /\ Surviving' = Surviving
    BY <1>14 DEF vars, Copies, Surviving
  <2> QED
    BY <1>14, <2>1, Still DEF vars, IInv, Core, LoadingOK
<1> QED
  BY <1>1, <1>2, <1>3, <1>4, <1>5, <1>6, <1>7, <1>8, <1>9, <1>10, <1>11, <1>12, <1>13,
     <1>14 DEF Next

LEMMA Invariance == Spec => []IInv
<1>1. IInv /\ [Next]_vars => IInv'
  BY BaseStep, CoreStep DEF IInv
<1> QED
  BY InitIInv, <1>1, PTL DEF Spec

(***************************************************************************)
(* The theorems.                                                           *)
(***************************************************************************)

\* Type correctness of every state of the protocol.
THEOREM TypeCorrect == Spec => []TypeOK
<1>1. IInv => TypeOK
  BY DEF IInv, Base
<1> QED
  BY <1>1, Invariance, PTL

\* No published payload is lost: as long as a copy of its queue exists, in
\* Tornado or on disk, the client has processed it or will still be sent it.
\* The only ones missing are those consumed between the dump of the queues
\* and the exit; and only a client that was sent events in that window, and
\* has not reloaded since, is promised nothing.
THEOREM NothingLost == Spec => []NoLoss
<1>1. IInv => NoLoss
  <2> SUFFICES ASSUME IInv, HasState, ~ ahead, NEW q \in Copies, NEW p \in 1 .. published,
                      p \notin processed \cup dropped
               PROVE  \E e \in events(q) : e.id > last_event_id /\ p \in e.content
    BY DEF NoLoss
  <2>1. CASE Attached
    <3>1. /\ Covers(q, published, dropped, last_event_id, processed)
          /\ \A e \in events(q) : e.id \in Nat
      BY <2>1, AttachedCopy DEF Sound, Agrees
    <3>2. last_event_id \in Nat \cup {-1}
      BY Facts
    <3> QED
      BY <3>1, <3>2 DEF Covers
  <2>2. CASE client = "applying"
    <3>1. last_event_id = -1
      BY <2>2 DEF IInv, Base, Lifetime, Loading
    <3>2. Covers(q, published, dropped, -1, processed)
      BY <2>2 DEF IInv, Core, AppliedOK
    <3>3. \A e \in events(q) : e.id \in Nat
      BY Facts DEF Copies, events, Queue, Event
    <3> QED
      BY <3>1, <3>2, <3>3 DEF Covers
  <2> QED
    BY <2>1, <2>2 DEF HasState, Attached
<1> QED
  BY <1>1, Invariance, PTL

\* The client never processes a payload twice, although every
\* unacknowledged event is sent again with each response; unless it was
\* sent events between the dump of the queues and the exit.
THEOREM NothingRepeated == Spec => []ExactlyOnce
<1>1. IInv => ExactlyOnce
  BY DEF IInv, Core
<1> QED
  BY <1>1, Invariance, PTL

\* What the client has processed is always a prefix of what was published,
\* but for what was dropped between a dump and the exit; under the same
\* exception.
THEOREM InOrder == Spec => []Snapshot
<1>1. IInv => Snapshot
  BY DEF IInv, Core
<1> QED
  BY <1>1, Invariance, PTL

\* A handler is connected only to an empty queue.
THEOREM NoEventWaits == Spec => []HandlerMeansEmpty
<1>1. IInv => HandlerMeansEmpty
  BY DEF IInv, Base, Lifetime, HandlerMeansEmpty, empty
<1> QED
  BY <1>1, Invariance, PTL

\* A client that follows the protocol, and was sent nothing between a dump
\* and the exit, is never told that its last_event_id is wrong.
THEOREM NeverRejected == Spec => []NoProtocolError
<1>1. IInv => NoProtocolError
  BY DEF IInv, Base, Connection, Core, ResponseOK, Attached, NoProtocolError
<1> QED
  BY <1>1, Invariance, PTL

(***************************************************************************)
(* The channel.  The window of a shutdown shows in it as what the channel  *)
(* itself allows: a payload lost as it is published, or a broken channel.  *)
(***************************************************************************)

\* Sending a batch can only break the channel.
LEMMA Answered ==
    ASSUME NEW who, NEW a, Answer(who, a), ahead \in BOOLEAN
    PROVE  ahead' \in {ahead, TRUE}
BY DEF Answer, Overtakes

\* Every step of the protocol is a step of the channel, or none.
LEMMA StepImplements ==
    ASSUME IInv, IInv', [Next]_vars
    PROVE  [Channel!Next]_<<published, processed, dropped, ahead>>
<1> USE DEF server, browser, history
<1>0. ahead \in BOOLEAN /\ published \in Nat
  BY Facts DEF IInv, Base, TypeOK
<1>1. ASSUME NEW t \in Published, Publish(t) PROVE Channel!Publish
  <2>1. /\ published' = published + 1 /\ processed' = processed
        /\ dropped' \in {dropped, dropped \cup {published'}}
    BY <1>1 DEF Publish
  <2>2. ahead' \in {ahead, TRUE}
    BY <1>0, <1>1, Answered DEF Publish, add_event
  <2> QED
    BY <2>1, <2>2 DEF Channel!Publish
<1>2. CASE SendHeartbeat \/ \E r \in requests : fetch_events(r)
  <2>1. ahead' \in {ahead, TRUE}
    <3>1. CASE SendHeartbeat
      BY <1>0, <3>1, Answered DEF SendHeartbeat, add_event
    <3>2. ASSUME NEW r \in requests, Refuse(r) PROVE ahead' \in {ahead, TRUE}
      BY <1>0, <3>2, Answered DEF Refuse
    <3>3. ASSUME NEW r \in requests, Serve(r) PROVE ahead' \in {ahead, TRUE}
      <4>1. (\E a : Answer("live", a)) \/ (\E a : Answer(handler, a))
        BY <3>3 DEF Serve
      <4> QED
        BY <1>0, <4>1, Answered
    <3> QED
      BY <1>2, <3>1, <3>2, <3>3 DEF fetch_events
  <2>2. UNCHANGED <<published, processed, dropped>>
    BY <1>2 DEF SendHeartbeat, fetch_events
  <2>3. Channel!Break \/ UNCHANGED <<published, processed, dropped, ahead>>
    BY <2>1, <2>2 DEF Channel!Break
  <2> QED
    BY <2>3 DEF Channel!Next
<1>3. CASE Start
  <2>1. \/ UNCHANGED <<published, processed, dropped, ahead>>
        \/ published' = published + 1 /\ UNCHANGED <<processed, dropped, ahead>>
    BY <1>3 DEF Start
  <2> QED
    BY <2>1 DEF Channel!Publish, Channel!Next
<1>4. ASSUME UNCHANGED <<published, dropped>>, processed \subseteq processed', ~ ahead
      PROVE  Channel!Break \/ Channel!Process
  <2>1. CASE ahead'
    BY <1>4, <2>1 DEF Channel!Break
  <2>2. CASE ~ ahead'
    <3>1. \E k \in 0 .. published : processed' = (1 .. k) \ dropped
      BY <1>4, <2>2 DEF IInv, Core, Snapshot
    <3>2. ahead' = ahead
      BY <1>0, <1>4, <2>2 DEF IInv, Base, TypeOK
    <3> QED
      BY <1>4, <3>1, <3>2 DEF Channel!Process
  <2> QED
    BY <2>1, <2>2
<1>5. CASE Receive
  <2>1. UNCHANGED <<published, dropped, ahead>> /\ processed \subseteq processed'
    BY <1>5 DEF Receive, get_events_success, get_events_error
  <2>2. CASE ahead
    BY <2>1, <2>2 DEF Channel!Break, Channel!Next
  <2>3. CASE ~ ahead
    BY <1>4, <2>1, <2>3 DEF Channel!Next
  <2> QED
    BY <2>2, <2>3
<1>6. CASE ApplyEvents
  <2>1. UNCHANGED <<published, dropped>> /\ processed \subseteq processed' /\ ~ ahead
    BY <1>6 DEF ApplyEvents, IInv, Core, AppliedOK
  <2> QED
    BY <1>4, <2>1 DEF Channel!Next
<1>7. CASE FetchState
  BY <1>7 DEF FetchState, Channel!Reload, Channel!Next
<1>8. CASE ConnectionClose \/ GarbageCollect \/ DumpQueues \/ Exit \/ Crash \/ Abandon
  BY <1>8 DEF ConnectionClose, GarbageCollect, DumpQueues, Exit, Crash, Gone, Abandon
<1>9. CASE (\E b \in BOOLEAN : get_events(b)) \/ Register \/ RegisterFails \/ UNCHANGED vars
  BY <1>9 DEF get_events, Register, RegisterFails, vars
<1> QED
  BY <1>1, <1>2, <1>3, <1>5, <1>6, <1>7, <1>8, <1>9 DEF Next, Channel!Next

\* The long-polling protocol implements the channel of EventChannel: in
\* every behaviour of it, failures and shutdowns included, the client
\* processes the published payloads once each, in order, until it reloads.
THEOREM Refinement == Spec => ImplementsChannel
<1>1. Init => Channel!Init
  BY DEF Init, Channel!Init
<1>2. IInv /\ IInv' /\ [Next]_vars
        => [Channel!Next]_<<published, processed, dropped, ahead>>
  BY StepImplements
<1> QED
  BY <1>1, <1>2, Invariance, PTL DEF Spec, ImplementsChannel, Channel!Spec
=============================================================================
