------------------------------- MODULE Calls -------------------------------
(***************************************************************************)
(* Voice calls: the request handlers of zproject/nodl/views/calls.py and   *)
(* the LiveKit webhooks of views/webhooks_livekit.py with what they do     *)
(* after their transaction (CallRecords), the background threads they      *)
(* start, and what is around them: LiveKit rooms, push notifications and   *)
(* the callee's phones.                                                    *)
(*                                                                         *)
(* Whatever a handler leaves to a thread or to a best-effort call after    *)
(* the commit is a step of its own.  A webhook may be late, overtaken,     *)
(* repeated or lost.                                                       *)
(***************************************************************************)
EXTENDS CallRecords, Sequences

CONSTANTS
    Devices,        \* the devices the callee's human is reachable on
    MaxJoins,       \* bound on how often one party joins the room of a call
    Lossy,          \* what may fail or be lost
    EarlyJoin       \* TRUE: the callee may join the room before it accepts

ASSUME CallsAssumption ==
    /\ MaxJoins \in Nat
    /\ Lossy \subseteq {"setup", "effects", "webhooks", "pushes"}
    /\ EarlyJoin \in BOOLEAN

VARIABLES
    setup,          \* how far _run_call_setup is, for each call
    todo,           \* effects a handler has still to carry out after its commit
    thread,         \* the call events posted in the direct-message thread
    room,           \* the LiveKit room of each call
    inroom,         \* the parties in it
    joins,          \* how often each party joined it
    webhooks,       \* webhooks LiveKit has sent
    pushes,         \* push notifications on their way to the callee's devices
    ringing         \* the devices on which each call rings

backend == <<records, setup, todo, thread>>
livekit == <<room, inroom, joins>>
phones == <<pushes, ringing>>
vars == <<backend, livekit, webhooks, phones>>

Parties == {"caller", "callee"}

(***************************************************************************)
(* Effects that follow a commit: an event pushed to a party, the event     *)
(* posted in the thread, the deletion of the room.                         *)
(***************************************************************************)
Push(event, party) == [do |-> "push", what |-> event, to |-> party]
Post(status) == [do |-> "post", what |-> status, to |-> "thread"]
DeleteRoom == [do |-> "delete", what |-> "room", to |-> "livekit"]

Events == {"call_cancelled", "call_declined", "call_ended", "call_timeout"}
Effect == {Push(e, p) : e \in Events, p \in Parties}
            \cup {Post(s) : s \in Terminal} \cup {DeleteRoom}

Then(c, effects) == todo' = [todo EXCEPT ![c] = @ \cup effects]

(***************************************************************************)
(* initiate_call and, in its daemon thread, _run_call_setup.               *)
(***************************************************************************)
initiate_call(t) ==
    /\ \/ /\ \/ InitiateBegin(t) \/ expire_stale_calls(t)
             \/ CallerBusyCheck(t) \/ CalleeBusyCheck(t) \/ TokenFailure(t)
          /\ UNCHANGED setup
       \/ \E c \in CallIds :
            /\ CreateRecord(t, c)
            /\ setup' = [setup EXCEPT ![c] = "create_room"]
    /\ UNCHANGED <<todo, thread, livekit, webhooks, phones>>

CreateRoom(c) ==
    /\ setup[c] = "create_room"
    /\ setup' = [setup EXCEPT ![c] = "read_status"]
    /\ \/ room' = [room EXCEPT ![c] = "open"]
       \/ "setup" \in Lossy /\ UNCHANGED room
    /\ UNCHANGED <<records, todo, thread, inroom, joins, webhooks, phones>>

\* only a status read as something else than ringing suppresses the push
ReadStatus(c) ==
    /\ setup[c] = "read_status"
    /\ \/ /\ calls[c].status = "ringing" \/ "setup" \in Lossy
          /\ setup' = [setup EXCEPT ![c] = "dispatch"]
       \/ /\ calls[c].status # "ringing"
          /\ setup' = [setup EXCEPT ![c] = "done"]
    /\ UNCHANGED <<records, todo, thread, livekit, webhooks, phones>>

ToDevices(c, kind, D) == {[call |-> c, kind |-> kind, device |-> d] : d \in D}

\* one push for each physical device of the callee's human
dispatch_call_push(c) ==
    /\ setup[c] = "dispatch"
    /\ setup' = [setup EXCEPT ![c] = "done"]
    /\ pushes' = pushes \cup ToDevices(c, "ring", Devices)
    /\ UNCHANGED <<records, todo, thread, livekit, webhooks, ringing>>

(***************************************************************************)
(* The other handlers: the transaction, then the effects it leaves.        *)
(***************************************************************************)
accept_call(c) ==
    /\ Connect(c)
    /\ UNCHANGED <<setup, todo, thread, livekit, webhooks, phones>>

decline_call(c) ==
    /\ Decline(c)
    /\ Then(c, {Push("call_declined", "caller"), DeleteRoom, Post("declined")})
    /\ UNCHANGED <<setup, thread, livekit, webhooks, phones>>

\* mutant: a cancellation that is refused deletes the room all the same
cancel_callDeleting(c) ==
    /\ \/ Cancel(c)
       \/ calls[c].status = "connected" /\ UNCHANGED records
    /\ Then(c, {DeleteRoom})
    /\ UNCHANGED <<setup, thread, livekit, webhooks, phones>>

\* mutant: posts nothing
cancel_callSilent(c) ==
    /\ Cancel(c)
    /\ Then(c, {Push("call_cancelled", "callee"), DeleteRoom})
    /\ UNCHANGED <<setup, thread, livekit, webhooks, phones>>

cancel_call(c) ==
    /\ Cancel(c)
    /\ Then(c, {Push("call_cancelled", "callee"), DeleteRoom, Post("cancelled")})
    /\ UNCHANGED <<setup, thread, livekit, webhooks, phones>>

end_call(c, party) ==
    /\ \/ /\ party = "caller"
          /\ HangUp(c, "caller_hangup")
          /\ Then(c, {Push("call_ended", "callee"), Post("ended")})
       \/ /\ party = "callee"
          /\ HangUp(c, "callee_hangup")
          /\ Then(c, {Push("call_ended", "caller"), Post("ended")})
    /\ UNCHANGED <<setup, thread, livekit, webhooks, phones>>

(***************************************************************************)
(* The webhooks.  A webhook that finds nothing to do is just consumed.     *)
(***************************************************************************)
Webhook(event, c, who, n) ==
    [event |-> event, call |-> c, who |-> who, num_participants |-> n]

\* mutant: ends connected calls, and no ringing one
room_finishedConnected(w) ==
    /\ w.event = "room_finished"
    /\ HangUp(w.call, "room_empty")
    /\ Then(w.call, {Push("call_timeout", "callee"), Post("ended")})

room_finished(w) ==
    /\ w.event = "room_finished"
    /\ Miss(w.call)
    /\ Then(w.call, {Push("call_timeout", "callee"), Post("missed")})

\* the status is read without the lock, then again with it; as no call ever
\* goes back to ringing, the second read decides
participant_joined(w) ==
    /\ w.event = "participant_joined"
    /\ w.who = "callee"
    /\ Connect(w.call)
    /\ UNCHANGED todo

\* mutant: posts although the call has been ended before
participant_leftAgain(w) ==
    /\ w.event = "participant_left"
    /\ w.num_participants = 0
    /\ \/ HangUp(w.call, "room_empty")
       \/ calls[w.call].status = "ended" /\ UNCHANGED records
    /\ Then(w.call, {Post("ended")})

\* mutant: writes the record without the check under the lock
participant_leftUnchecked(w) ==
    /\ w.event = "participant_left"
    /\ w.num_participants = 0
    /\ calls[w.call].answered
    /\ calls' = [calls EXCEPT ![w.call].status = "ended",
                              ![w.call].end_reason = "room_empty"]
    /\ UNCHANGED <<initiate, requests, todo>>

\* mutant: one participant too early, and then never
participant_leftOffByOne(w) ==
    /\ w.event = "participant_left"
    /\ w.num_participants = 1
    /\ HangUp(w.call, "room_empty")
    /\ Then(w.call, {Push("call_ended", "caller"), Push("call_ended", "callee"),
                     Post("ended")})

participant_left(w) ==
    /\ w.event = "participant_left"
    /\ w.num_participants = 0
    /\ HangUp(w.call, "room_empty")
    /\ Then(w.call, {Push("call_ended", "caller"), Push("call_ended", "callee"),
                     Post("ended")})

Handles(w) ==
    CASE w.event = "room_finished" -> calls[w.call].status = "ringing"
      [] w.event = "participant_joined" ->
            w.who = "callee" /\ calls[w.call].status = "ringing"
      [] w.event = "participant_left" ->
            w.num_participants = 0 /\ calls[w.call].status = "connected"

\* LiveKit repeats a webhook whose response it misses
livekit_webhook(w) ==
    /\ \/ room_finished(w) \/ participant_joined(w) \/ participant_left(w)
       \/ ~ Handles(w) /\ UNCHANGED <<records, todo>>
    /\ \/ webhooks' = webhooks \ {w}
       \/ "webhooks" \in Lossy /\ UNCHANGED webhooks
    /\ UNCHANGED <<setup, thread, livekit, phones>>

(***************************************************************************)
(* Effects after the commit, each in a thread of its own or best effort.   *)
(***************************************************************************)
insert_call_event_message(c, e) ==
    /\ e.do = "post"
    /\ thread' = [thread EXCEPT ![c] = Append(@, e.what)]
    /\ UNCHANGED <<livekit, webhooks, pushes>>

\* the pushes to the caller's devices are not followed any further
dispatch_call_event_push(c, e) ==
    /\ e.do = "push"
    /\ pushes' = pushes \cup (IF e.to = "callee" THEN ToDevices(c, "stop", Devices) ELSE {})
    /\ UNCHANGED <<thread, livekit, webhooks>>

Close(c, left) ==
    /\ room' = [room EXCEPT ![c] = "closed"]
    /\ inroom' = [inroom EXCEPT ![c] = {}]
    /\ webhooks' = webhooks \cup left \cup {Webhook("room_finished", c, "nobody", 0)}

delete_room(c, e) ==
    /\ e.do = "delete"
    /\ IF room[c] = "open"
       THEN Close(c, {Webhook("participant_left", c, p, 0) : p \in inroom[c]})
       ELSE UNCHANGED <<room, inroom, webhooks>>
    /\ UNCHANGED <<thread, joins, pushes>>

PerformEffect(c, e) ==
    /\ e \in todo[c]
    /\ todo' = [todo EXCEPT ![c] = @ \ {e}]
    /\ \/ insert_call_event_message(c, e)
       \/ dispatch_call_event_push(c, e)
       \/ delete_room(c, e)
    /\ UNCHANGED <<records, setup, ringing>>

(* The effect fails, or its process dies before it.                        *)
LoseEffect(c, e) ==
    /\ "effects" \in Lossy
    /\ e \in todo[c]
    /\ todo' = [todo EXCEPT ![c] = @ \ {e}]
    /\ UNCHANGED <<records, setup, thread, livekit, webhooks, phones>>

TimePasses(c) ==
    /\ GrowStale(c)
    /\ UNCHANGED <<setup, todo, thread, livekit, webhooks, phones>>

(***************************************************************************)
(* LiveKit.  A token joins the room and creates it if there is none; the   *)
(* caller has one from initiate_call, the callee from accept_call.         *)
(***************************************************************************)
HasToken(c, party) ==
    IF party = "caller" THEN calls[c].status # "unused"
    ELSE calls[c].answered \/ (EarlyJoin /\ calls[c].status # "unused")

JoinRoom(c, party) ==
    /\ HasToken(c, party)
    /\ party \notin inroom[c] /\ joins[c][party] < MaxJoins
    /\ room' = [room EXCEPT ![c] = "open"]
    /\ inroom' = [inroom EXCEPT ![c] = @ \cup {party}]
    /\ joins' = [joins EXCEPT ![c][party] = @ + 1]
    /\ webhooks' = webhooks \cup
         {Webhook("participant_joined", c, party, Cardinality(inroom'[c]))}
    /\ UNCHANGED <<backend, phones>>

LeaveRoom(c, party) ==
    /\ party \in inroom[c]
    /\ inroom' = [inroom EXCEPT ![c] = @ \ {party}]
    /\ webhooks' = webhooks \cup
         {Webhook("participant_left", c, party, Cardinality(inroom'[c]))}
    /\ UNCHANGED <<backend, room, joins, phones>>

EmptyTimeout(c) ==
    /\ room[c] = "open" /\ inroom[c] = {}
    /\ Close(c, {})
    /\ UNCHANGED <<backend, joins, phones>>

LoseWebhook(w) ==
    /\ "webhooks" \in Lossy
    /\ webhooks' = webhooks \ {w}
    /\ UNCHANGED <<backend, livekit, phones>>

(***************************************************************************)
(* The callee's devices.  A device that rings polls call_ring_status.      *)
(***************************************************************************)
DeliverPush(n) ==
    /\ pushes' = pushes \ {n}
    /\ ringing' = [ringing EXCEPT ![n.call] =
                     IF n.kind = "ring" THEN @ \cup {n.device} ELSE @ \ {n.device}]
    /\ UNCHANGED <<backend, livekit, webhooks>>

LosePush(n) ==
    /\ "pushes" \in Lossy
    /\ pushes' = pushes \ {n}
    /\ UNCHANGED <<backend, livekit, webhooks, ringing>>

\* mutant: a call answered elsewhere still counts as ringing
call_ring_statusActive(c) == calls[c].status \in Active

call_ring_status(c) == calls[c].status = "ringing"

Watchdog(c, d) ==
    /\ d \in ringing[c]
    /\ ~ call_ring_status(c)
    /\ ringing' = [ringing EXCEPT ![c] = @ \ {d}]
    /\ UNCHANGED <<backend, livekit, webhooks, pushes>>

Init ==
    /\ RecordsInit
    /\ setup = [c \in CallIds |-> "done"]
    /\ todo = [c \in CallIds |-> {}]
    /\ thread = [c \in CallIds |-> <<>>]
    /\ room = [c \in CallIds |-> "none"]
    /\ inroom = [c \in CallIds |-> {}]
    /\ joins = [c \in CallIds |-> [p \in Parties |-> 0]]
    /\ webhooks = {}
    /\ pushes = {}
    /\ ringing = [c \in CallIds |-> {}]

Setup(c) == CreateRoom(c) \/ ReadStatus(c) \/ dispatch_call_push(c)

Respond(c) ==
    \/ accept_call(c) \/ decline_call(c) \/ cancel_call(c)
    \/ \E p \in Parties : end_call(c, p)

Room(c) == EmptyTimeout(c) \/ \E p \in Parties : JoinRoom(c, p) \/ LeaveRoom(c, p)

Next ==
    \/ \E t \in Threads : initiate_call(t)
    \/ \E c \in CallIds :
         \/ Setup(c) \/ Respond(c) \/ Room(c) \/ TimePasses(c)
         \/ \E e \in todo[c] : PerformEffect(c, e) \/ LoseEffect(c, e)
         \/ \E d \in Devices : Watchdog(c, d)
    \/ \E w \in webhooks : livekit_webhook(w) \/ LoseWebhook(w)
    \/ \E n \in pushes : DeliverPush(n) \/ LosePush(n)

Spec == Init /\ [][Next]_vars

(***************************************************************************)
(* Fairness: threads run, LiveKit and the push services deliver what is    *)
(* not lost, a device that rings polls, and nobody stays in a room for     *)
(* ever (the client gives up after its ring timeout, and LiveKit drops a   *)
(* participant that is gone).                                              *)
(***************************************************************************)
Fairness ==
    /\ \A c \in CallIds :
         /\ WF_vars(Setup(c))
         /\ WF_vars(\E e \in todo[c] : PerformEffect(c, e))
         /\ WF_vars(EmptyTimeout(c))
         /\ \A p \in Parties : WF_vars(LeaveRoom(c, p))
         /\ \A d \in Devices : WF_vars(Watchdog(c, d))
    /\ WF_vars(\E w \in webhooks : livekit_webhook(w))
    /\ WF_vars(\E n \in pushes : DeliverPush(n))

FairSpec == Spec /\ Fairness

(***************************************************************************)
(* Properties.                                                             *)
(***************************************************************************)
TypeOK ==
    /\ RecordsTypeOK
    /\ setup \in [CallIds -> {"create_room", "read_status", "dispatch", "done"}]
    /\ todo \in [CallIds -> SUBSET Effect]
    /\ thread \in [CallIds -> Seq(Terminal)]
    /\ room \in [CallIds -> {"none", "open", "closed"}]
    /\ inroom \in [CallIds -> SUBSET Parties]
    /\ joins \in [CallIds -> [Parties -> 0 .. MaxJoins]]
    /\ webhooks \subseteq
         [event : {"room_finished", "participant_joined", "participant_left"},
          call : CallIds, who : Parties \cup {"nobody"}, num_participants : 0 .. 2]
    /\ pushes \subseteq [call : CallIds, kind : {"ring", "stop"}, device : Devices]
    /\ ringing \in [CallIds -> SUBSET Devices]

(* The direct-message thread never shows more than one event for a call,   *)
(* and the one it shows is the outcome of the call: simultaneous hang-ups, *)
(* a hang-up racing the webhooks and repeated webhooks post once (the      *)
(* comments at the end of end_call and of _handle_participant_left).       *)
ThreadOnce == \A c \in CallIds : thread[c] \in {<<>>, <<calls[c].status>>}

(* Only the room of a call that can never connect is deleted: deletion     *)
(* disconnects whoever is in the room, and runs after the commit.          *)
DeletesDeadRooms ==
    \A c \in CallIds :
        DeleteRoom \in todo[c] => calls[c].status \in {"declined", "cancelled"}

(* Every step of the handlers, threads and webhooks is one of the          *)
(* transactions of CallRecords on the table, or leaves it alone: what is   *)
(* shown for the table alone holds for the whole.                          *)
ImplementsRecords == Records

(* A call does not ring for ever: when the room is created and nothing is  *)
(* lost, somebody answers it or it ends, if only by the timeout of the     *)
(* room and its webhook.                                                   *)
RingingEnds ==
    \A c \in CallIds : calls[c].status = "ringing" ~> calls[c].status # "ringing"

(* A call its callee joined ends after everybody has left its room, though *)
(* nobody hangs up: otherwise both stay busy for a day.                    *)
EmptiedCallsEnd ==
    \A c \in CallIds :
        (calls[c].status = "connected" /\ joins[c]["callee"] > 0 /\ inroom[c] = {})
            ~> calls[c].status = "ended"

(* A call that a party ends, or the emptying of its room, shows in the     *)
(* thread.  (A call that expires does not.)                                *)
OutcomesPosted ==
    \A c \in CallIds :
        (calls[c].status \in Terminal /\ calls[c].end_reason \notin {"timeout", "error"})
            ~> thread[c] = <<calls[c].status>>

(* No ghost ringing: a device that rings for a call that is over, or that  *)
(* was answered, stops, though the push that should stop it may have       *)
(* overtaken the one that makes it ring.                                   *)
GhostRingingStops ==
    \A c \in CallIds, d \in Devices :
        (d \in ringing[c] /\ calls[c].status # "ringing") ~> d \notin ringing[c]
=============================================================================
