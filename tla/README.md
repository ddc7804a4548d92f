# nodl-chat: formal models

nodl-chat is a fork of the Zulip server (Django, PostgreSQL, RabbitMQ, Tornado)
with a second application layered on it: `nodl/` and `zproject/nodl/` add
workspaces synchronised from an external backend, voice calls over LiveKit,
task chats, an assistant, and transcripts and translations of messages. This
directory holds TLA+ models of the parts whose correctness depends on the order
of things, the TLC configurations that check them on small instances, and
TLAPS proofs of what matters most for every value of the constants.

Paths below are relative to the repository root; line numbers are those of the
commit the modules were written from. `PROJECT.json` maps every definition to
its lines, lists every component, run, mutant, hazard, finding and theorem.

Contents:

1. [The system](#1-the-system)
2. [Modules and code](#2-modules-and-code)
3. [Runs, bounds and what they show](#3-runs-bounds-and-what-they-show)
4. [Fairness](#4-fairness)
5. [Proofs](#5-proofs)
6. [Where the code and its comments disagree](#6-where-the-code-and-its-comments-disagree)
7. [What is not modelled](#7-what-is-not-modelled)
8. [Plan](#8-plan)
9. [Running it](#9-running-it)

## 1. The system

A request reaches Django, which changes the database and, after the commit,
publishes *notices* to the Tornado process (`notify_tornado` queue of RabbitMQ)
and *work items* to the queue workers (other RabbitMQ queues). Tornado keeps an
event queue in memory for every client and answers the clients' long polls.
Clients see state only through their initial fetch and the events after it.
Calls add three independent parties: LiveKit (rooms and webhooks), the push
services, and the phones.

### Inventory

| Component | State | Operations | Hard behaviour | What makes it correct |
|---|---|---|---|---|
| Event queue of one client (`EventQueue`, `zerver/tornado/event_queue.py`) | deque, virtual events, next id, newest pruned id | push, prune, contents, empty, dump, load | compression moves events; the merge loop restores the order | nothing lost, duplicated or out of id order; a caught-up client shows what the server has |
| Long-poll delivery (`fetch_events`, `ClientDescriptor`, `runtornado.py`, `web/src/server_events.js`) | descriptor, connected handler, dump file, client's `last_event_id` | register, poll, add event, heartbeat, disconnect, collect, dump, load | lost responses, late requests, restarts and crashes between any two steps | every published event processed once, in order, in the end |
| Event server (tables of all clients of a process) | `clients`, `user_clients`, `realm_clients_all_streams`, handlers, descriptors | allocate, connect, disconnect, notify, collect in batches, DELETE | two threads share the tables; hooks run after the removal of the whole batch and may raise | the tables agree; an open connection is one its queue answers; no message of an absent user is forgotten |
| Call records (`zproject/nodl/models/call_record.py`) | one row per call | create, expire, accept, decline, cancel, end, webhook transitions | five writers; the busy check and the creation are separate queries | legal lifecycle; one active call per human; dead calls never block |
| Call service (`views/calls.py`, `views/webhooks_livekit.py`, `services/call_push_service.py`) | setup thread, rooms, pending effects | effects after each commit | best-effort effects, webhooks late, repeated or lost, pushes overtaking each other | one outcome per call in the thread; calls end; phones stop ringing |
| Missed-message email worker (`zerver/worker/missedmessage_emails.py`) | table of scheduled rows, two threads, a condition variable | consume, wake, batch, stop | lost wakeups, rollback, signals, rows changed by other processes | every row emailed once, nobody sleeps over rows, a stop stops |
| Missed-message decision (`missedmessage_hook`, `maybe_enqueue_notifications`) | none of its own | decide on event and on collection | collection of several queues at once; a notice processed again | a user who was notified is not notified later, one who was not will be |
| Derived message content (`nodl/api/views/derived.py`, `derived_candidates.py`, `zerver/worker/nodl_derived_content.py`, `embed_links.py`) | `rendered_content`, derived blocks; a cursor | attach, edit, re-render; list candidates page by page | several writers of one column; answers out of order; rows change between two pages | no stale translation; a block survives what does not change the text; a walk returns every candidate once |
| Workspace and user sync (`nodl/sync/`) | realms, profiles, mapping tables, retry counters | sync workspace, members, user; delete | death between transactions; member lists that change meanwhile; sign-ins that provision | the member list decides in the end; who returns keeps the profile; who was deleted is gone |
| Task chats and assistant (`nodl/api/views/`) | streams, bot users | get or create | concurrent first requests | one stream per task, one bot |
| Ring fan-out (`call_push_service.py`) | device tokens | dispatch, deactivate stale tokens, fall back | a token fails in the middle | every physical device rings once |
| Auth bridge and registration | API keys, registration lock | exchange, provision | external services | one profile per person and workspace |
| Invites and contacts | invitations | create, accept, list | little | single-query operations |
| nodl REST views | rate limits | adapters to `zerver` actions | little | same checks as the web API |
| Previews and cards | none | formatting | none | pure |
| Queue workers (`zerver/worker/base.py`, `zerver/lib/queue.py`) | acknowledgements, error files | consume, alarm, retry | redelivery, alarm in the middle of an event | an event is done, retried or on file |
| Sending, editing, flags | messages | database transactions | row locks of PostgreSQL | events describe what was committed |
| Rendering, search, uploads | none / files | pure or I/O | none | |
| Scheduled messages and reminders (`zerver/actions/scheduled_messages.py`) | one row per message; the deliverer's row lock | schedule, edit, delete, deliver | edits read without the lock; crashes between message and flag; a message that cannot be sent | what was saved last is sent once, in time, and not after its deletion |
| Push notifications of messages | none shared | dispatch to services | external services | |
| Analytics, billing, confirmation | counters | outside the chat service | | |
| Web client | `last_event_id`, UI | `get_events` loop; UI | see delivery | |
| Deployment, tools, locale, tests | none | none at run time | | |

The hazards that follow from this, with their lines, are in `PROJECT.json`
under `hazards`; those without a property have a note that says why.

### How the components interact

- Django → Tornado: a notice in RabbitMQ, consumed and acknowledged by Tornado,
  which calls `add_event` of each concerned queue. (`Publish`)
- Client ↔ Tornado: one GET at a time per client, answered at once or when an
  event comes. The client acknowledges with the `last_event_id` of its *next*
  request; only then may Tornado forget. (`get_events`, `fetch_events`, `Receive`)
- Tornado → workers: `missedmessage_hook` and `maybe_enqueue_notifications`
  publish to `missedmessage_emails`. (`Notify` of EventServer; the initial content
  of `rabbit` in MissedMessages)
- Consumer thread ↔ worker thread of the email worker: the table and `cv`.
- Call handlers → LiveKit, pushes, direct messages: after the commit, in daemon
  threads or best-effort calls. (`todo`, `PerformEffect`)
- LiveKit → webhooks → call records: asynchronous. (`webhooks`, `livekit_webhook`)
- Sends and edits → preview and derived-content workers → nodl-backend → attach
  endpoint: queues, requests and answers in any order, all writing one row.
  (`hooks`, `embed_links`, `candidates`, `jobs`)
- nodl-backend → sync endpoints, and sign-ins → the bridge: two writers of the same
  profiles and mappings. (`process`, `bridge`)
- Requests of a sender and the deliverer: the table of scheduled messages and its row
  locks. (`editor`, `deliverer`)

## 2. Modules and code

```
AbstractEventQueue <--implements-- EventQueue          (MCEventQueue, EventQueue_proofs)
        |
     EventSet <--extends-- EventDelivery --implements--> EventChannel
                           (MCEventDelivery, EventDelivery_proofs)
EventServer                (MCEventServer, EventServer_proofs)
CallRecords <--extends, implements-- Calls
   (MCCallRecords)         (MCCalls, Calls_proofs for both)
MissedMessages             (MCMissedMessages, MissedMessages_proofs)
ScheduledMessages          (MCScheduledMessages, ScheduledMessages_proofs)
DerivedContent             (MCDerivedContent,
DerivedCandidates           MCDerivedCandidates, Derived_proofs for both)
WorkspaceSync              (MCWorkspaceSync, WorkspaceSync_proofs)
```

**EventQueue** is the class of that name. `eq.queue` is the deque,
`eq.virtual_events` the map of compressed events by full event type;
`push`, `prune`, `contents`, `empty` are the methods. `merge` is the loop of
`contents`, a recursive function of the index in the deque: what has been put out and
which virtual event is next (`index` in the code). An event's body is the set of messages it concerns. The
driver pushes flag updates and reads them back over a perfect network; `dispatch` is
what the client shows after each event of a batch. `Unseen(f, m)` are the updates of a
flag of a message that the client has still to process.

**EventSet** is the same queue as a set of events, without the order of the
deque, which is the order of the ids; **AbstractEventQueue** makes a state machine of it, and
`ImplementsSet` shows that `EventQueue` implements it. This is what allows
`EventDelivery`, and its proofs, to work with sets.

**EventDelivery** is one queue with its client, across the lifetime of several
Tornado processes.

| TLA+ | Code |
|---|---|
| `tornado`, `dump`, `DumpQueues`, `Exit`, `Crash`, `Start` | the exit stack of `runtornado.py`, `dump_event_queues`, `load_event_queues`, `send_restart_events` |
| `known`, `eq` | the entry in `clients` and its `event_queue` |
| `handler` | the request behind `current_handler_id`: the one the client is waiting on, one it gave up on, or none |
| `Publish`, `SendHeartbeat`, `add_event` | `ClientDescriptor.add_event`, `finish_current_handler`, the heartbeat of `connect_handler` |
| `fetch_events` = `Refuse` or `Serve` | `fetch_events`, with its checks in the code's order, the prune in the middle |
| `GarbageCollect`, `ConnectionClose` | `gc_event_queues`, `on_connection_close` |
| `get_events`, `Abandon`, `Receive` | `get_events` of `server_events.js`, its success and error callbacks |
| `Register`, `FetchState`, `ApplyEvents`, `RegisterFails` | the reload: `do_events_register` allocates the queue, reads the state from the database and applies what came into the queue meanwhile; Tornado may stop or collect the queue between any two |
| `requests`, `response` | the network; an abandoned request may still arrive |

Payloads are numbered in the order Tornado consumes them. (The state a reload reads may already hold
changes whose notices are still in RabbitMQ; applying them again changes nothing, which is the business of
`apply_events` and the client's handlers.) At shutdown the queues are dumped first, and Tornado goes on serving and consuming until
its exit. Two history variables record what that window does to the client's queue: `dropped` holds the payloads consumed in it, `ahead` says that the
client was sent events in it, which the dumped queue knows nothing of and whose ids it will give out again. A reload clears both.
**EventChannel** is the promise: the client has processed payloads `1 .. k`, in order and once, for some `k`, but for
those that were lost as they were published; a broken channel promises nothing until the next reload.
`send_web_reload_client_events` is left out: it is one more event, and `runtornado` sends it only with `--immediate-reloads`.

**EventServer** is one Tornado process with all its clients: the tables, and who waits for what.
It is the level above `EventDelivery`, which follows one queue over several processes.

| TLA+ | Code |
|---|---|
| `clients`, `user_clients`, `realm_clients_all_streams` | the dictionaries of `event_queue.py` |
| `handlers`, `next_handler_id`, `descriptors_by_handler_id` | `handlers.py`, `descriptors.py`; ids begin with 0 |
| `request[h]` | a poll: in the Django thread, waiting, or with its answer not yet written |
| `initialize`, `fetch_events`, `zulip_finish`, `on_connection_close` | the life of a poll; `connect_handler`, `disconnect_handler` and `finish_current_handler` are parts of its steps, with the test of the handler id for truth |
| `timeout_callback`, `old`, `TimePasses` | the heartbeat timer, and `expired` |
| `gc_event_queues`, `do_gc_event_queues`, `RemoveFromLists`, `Remove`, `Notify` | a batch is first taken out of the lists, then each queue is cleaned up and its hooks run; a publish that raises ends the batch |
| `cleanup_event_queue`, `cleaning`, `cleanup` | DELETE of a queue: the descriptor is looked up in the Django thread and cleaned up in the loop |
| `send_event`, `process_message_event`, `process_message_fails`, `retry_event` | a notice, its processing, and what comes of a failure half way: published again, redelivered, or dropped after `MAX_REQUEST_RETRIES` |
| `receiver_is_off_zulip`, `Left`, `Missed` | the two places that decide whether a user is told of a message; they ask for the event types of a queue (`Receives`), or for any queue |
| `accepts_event`, `Receivers` | which queues get it: the narrow of a queue (`Takes`) is asked here only |
| `told`, `got`, `seen` | the clients: which queue ids reached them and how far they have read |

**CallRecords** is the table, with every transaction on it. `initiate_call` is a
thread with a program counter, one step per query: the two UPDATEs of
`_expire_stale_calls`, the two busy checks, the token, the INSERT. The
transitions of the other handlers are single actions because each runs under
`select_for_update`. `stale` stands for a record older than the window of its status.
The `dead` field of a thread is a history variable for `DeadNeverBlocks`.

**Calls** adds what the handlers do after their commit (`todo`), the setup thread
(`setup`), rooms, webhooks, pushes and ringing phones. `CallRecords` is its
refinement target: `ImplementsRecords`. Each call in `Calls` has its own room,
named after it. `Watchdog` is the client's polling of `call_ring_status`; the phones'
own code is not in this repository and is modelled from that endpoint's purpose.

**MissedMessages** is `MissedMessageWorker`: `consumer.pc` walks through
`consume` (`ReadPending`, `Acquire`, `Create`, `Notify`), `worker.pc` through
`background_loop` and `maybe_send_batched_emails` (`Select`, `Handle`,
`DeleteBatch`, `Publish`). `locked` is the owner of `cv` while the main thread has
it; the worker thread's own critical sections touch nothing else and are one action each.
`Stop` is the signal handler, which runs on the main thread and may therefore
interrupt `consume`; `JoinTimesOut` is the alarm of `do_consume` going off inside
the handler's `join`. `DeleteMessage` and
`update_scheduled_email_notifications_time` are other processes, which wait
for the row locks of the batch. `Publish` runs the `on_commit` hooks.

**ScheduledMessages** is the table `ScheduledMessage` with its three kinds of writers.

| TLA+ | Code |
|---|---|
| `table[m]` | the row: `delivered`, `failed`, `scheduled_timestamp`; `save` tells by which save of the sender it came about |
| `check_schedule_message`, `Delete` | one transaction each, also for reminders |
| `BeginEdit`, `EditRefused`, `SaveEdit` | `edit_scheduled_message`: the row is read without a lock, the message checked again, and `save()` writes every column, or inserts the row again if it is gone |
| `SelectDue`, `Locked` | `try_deliver_one_scheduled_message`: `select_for_update().first()`, by primary key, which waits for a row that is locked |
| `Send`, `FailLate`, `Refuse`, `MarkDelivered`, `MarkFailed` | `send_scheduled_message`, `send_reminder` and the exception handler around them, in one transaction |
| `SendRaises`, `Crash`, `Restart` | an exception inside `do_send_messages`, which has no savepoint, so that its handler cannot query and the command ends; the supervisor |

**DerivedContent** is the row of one message, whose `rendered_content` carries what was derived
from it, with its four writers.

| TLA+ | Code |
|---|---|
| `content`, `rendered`, `deleted` | the columns; of the HTML only the derived block, its kind and its source are kept |
| `hooks`, `publish`, `web_process_dies` | `on_commit` hooks of the send and of each edit, still to run |
| `check_update_message`, `carried` | the edit: blocks whose source is unchanged are carried over |
| `embed_links`, `fetch_links`, `update_embedded_data`, `fetch_times_out` | the preview worker, which renders from markdown |
| `candidates`, `read_candidate`, `post_accepted`, `post_fails`, `post_rejected` | the derived-content worker with `retry_event` |
| `jobs`, `list_translation_candidates`, `attach_derived_content` | the backend's open work and its calls of the two endpoints |
| `lost` | history: the event, or the last retry, was lost |

**DerivedCandidates** is how the backend finds translatable messages: `BackfillPage` is one page
backwards over the ids, cut by `Limit` items, by `MaxBytes` (but never before the first item) and
by a scan window; `SweepPage` one pass over the stuck ids; `Send`, `Edit` and `Delete` happen between
the pages. `owed` is history: what was there, and translatable, all along.

**WorkspaceSync** is the synchronisation of realms and profiles with the backend's workspaces.

| TLA+ | Code |
|---|---|
| `members`, `email`, `deleted` | the backend (external) |
| `realm`, `realm_extension` | `Realm.string_id`, `NodlRealmExtension` |
| `profiles`, `user_extension`, `mapping` | `UserProfile`, `NodlUserExtension`, `NodlRealmUserExtension` |
| `process[t].pc` | how far the request of thread `t` got: realm, extension, the member in turn, the removal of members, a deletion; a step is a transaction |
| `sync_user_request`, `sync_linked`, `sync_existing`, `sync_orphan`, `sync_new`, `give_up` | the branches of `UserSyncService.sync_user` |
| `_deactivate_removed_members`, `deactivate_removed` | who is no longer listed |
| `delete_user`, `do_delete_user_preserving_messages`, `delete_pending_row` | `user_deletion.py`, profile by profile |
| `_self_heal_mappings`, `_reconcile_cold_start`, `get_or_create_zulip_user` | `auth_bridge_v2.py` and `actions.py`: a sign-in provisions what the sync has not |
| `alone`, `erased` | history: a deletion that no sync of the same human overlapped, and that succeeded |

The `MC` modules give the constants their values; the `_proofs` modules hold
the theorems. Definitions named `...Unchecked`, `...OffByOne` and the like, marked
`mutant`, are broken variants of the definition that follows them; none is used
by a specification. They record that each property notices a bug of that kind.

### Constants that turn something on

| Constant | Meaning |
|---|---|
| `Takes` | the messages the narrow of a queue lets through |
| `MAX_REQUEST_RETRIES` | how often a notice is tried again; 3 in `queue.py:26`, 1 in the run |
| `Lossy` | what may fail or be lost: `setup` (room creation, the status query), `effects`, `webhooks` (lost or repeated), `pushes` |
| `EarlyJoin` | the callee may join before it accepts; the backend gives it a token only in `accept_call`, but `participant_joined` has a branch for it |
| `StopAt` | the points of the main thread where a stop signal may arrive |
| `Faulty` | queries, emails and publishing may raise |
| `Periods` | the batching periods a user can switch between |
| `SendsHash` | the backend sends `source_hash` with its translations; without it nothing tells an old translation from a new one |
| `Poison` | scheduled messages for which `do_send_messages` raises |
| `MaxFailures`, `MaxFaults`, `MaxCrashes`, `MaxStops` | how often something raises, dies or is stopped |
| `MaxDelayed`, `Sessions` | how many abandoned requests may still arrive; which queues may exist in one behaviour |

## 3. Runs, bounds and what they show

| Run | Shows | Bounds |
|---|---|---|
| `queue_structure` | every response is in increasing id order; the deque with its virtual events is exactly the set of `AbstractEventQueue`; a client that is right about a flag is made wrong only by a batch with opposite updates of it | 4 events, 2 messages, 5 types of which 3 compressed: enough for two virtual events with real ones before, between and after them, and for a prune in the middle of a response. 66 000 states |
| `delivery_safety` | nothing lost or repeated; a handler sleeps only over an empty queue; a correct client is never rejected; implements `EventChannel`; every payload is processed in the end; all with the window between dump and exit, whose damage the properties name | 3 payloads, 1 restart or crash, 1 abandoned request that still arrives, ids up to 2 in one queue; a plain type, a compressed type, heartbeats. Three payloads give one acknowledged, one in flight and one waiting, or one before the dump, one in the window and the restart event. 148 000 states |
| `event_server` | the tables agree; an open connection is one its queue answers; no message is forgotten but with a queue that does not take it or a notice that was dropped, and none notified again later; queues nobody polls are collected | one user with 2 queues, one of them for all public streams, or with one queue whose narrow takes nothing; 1 message, 2 polls, 2 failing publishes, 1 retry: a batch of two, a poll that supplants another, a DELETE during a collection, a notice that is tried again and dropped. 770 000 states |
| `calls_table` | legal lifecycle, dead calls never block, with two threads racing | 2 records, 2 threads, 3 requests; four profiles of three humans, one with two profiles |
| `calls_race` (violated) | two requests of one human both create a call | the same, 2 requests, symmetric records |
| `calls_effects` | one outcome posted, only dead rooms deleted, refinement of `CallRecords`, with everything lossy and webhooks repeated | 1 call, 2 requests, each party joins once, early joins |
| `calls_liveness` | ringing ends, emptied calls end, outcomes are posted, ghost ringing stops | 1 call, 1 device, pushes lossy |
| `missed_worker` | no lost wakeup, no row emailed twice, due rows leave the table, a stop ends the process | 2 messages of one user, clock 0..2, 1 stop or crash at any point of the consumer, faults anywhere. 66 000 states |
| `scheduled_messages` | what was saved last is sent once, in time, as its row says; nothing deleted is sent; what is due is decided | a message that cannot be sent before one that can and a reminder, 2 deliverers, 1 editor, 2 saves, 1 crash, clock 0..3, cutoff 0. 378 000 states |
| `derived_blocks` | no stale translation; a translation goes only when its text does or the preview worker takes it; every text gets its block or the loss is known | two texts, one with a link, and a voice note; 2 edits, 1 retry, 1 crash |
| `derived_candidates` | a walk returns each message that stays exactly once, and ends | 4 messages and a fifth sent meanwhile, pages of 2 items, 2 bytes and 4 scanned rows, short and long texts |
| `workspace_sync` | the member list decides in the end; who was deleted is gone; who returns keeps the profile | 2 humans, 3 addresses, 1 workspace, 4 profiles, 2 changes in the backend, 1 failure or death. 725 000 states |

Why the bounds are enough. The protocols have few actors that matter at a time:
a client has one live request, a call one row, a worker one batch, a workspace one sync. The bounds
are the smallest that let each pair of steps of two actors interleave in
both orders and let every bounded resource be reused once (a second restart, a
second request after a first, a row added to an existing batch, a second save of a row). The proofs
of section 5 then lift the safety results to all sizes. `calls_liveness` was also
run with two devices (110 000 states).

`CHECK_DEADLOCK FALSE` appears where the counters at
their bounds (all payloads published, all calls over, the clock at its end) stop the model, as the
real system would stop if nobody used it. `MCWorkspaceSync_members.cfg` checks deadlock.

`calls_effects` has no devices, because ringing does not feed back
into any record; `calls_liveness` has one. `workspace_sync` runs one sync at a time: with
two, `MembershipSettles` fails in the way section 6 describes. `ProfileKept` was searched with two threads as well, up to nine
million states; without its exception (`Relinked`) that finds the counterexample of section 6 in seconds.

What the properties except is deliberate, and each exception is a behaviour of the code that section 6
describes:

- `RingingEnds` and `EmptiedCallsEnd` hold when rooms are created and webhooks arrive.
  When those are lost the code's only remedy is the expiry at the next
  `initiate_call`, which `DeadNeverBlocks` is about.
- `RowsAreChecked` excepts a stop that was given up (`StopFailed`), `StopEnds` is about a stop between two events.
- `TranslationKept` excepts the preview worker, `EventuallyDerived` a loss that is recorded in `lost`.
- `NoLoss`, `Snapshot` and `EventuallyProcessed` except the payloads consumed between a dump and the exit (`dropped`); these and
  `ExactlyOnce` and `NoProtocolError` except a client that was sent events in that window (`ahead`), until it reloads.
- `NeverForgotten` excepts a user with a queue that does not take the message, by its event types or by its narrow, or whose id its client
  never got, and a message whose notice was dropped;
  `NotifiedBefore` excepts two queues collected in one batch, and a publish that raised.
- `MembershipSettles` excepts an empty workspace, a realm without its row (`Stuck`), a human who was given up and an
  address that changed hands; `ProfileKept` a request that is about to use a row it read before the row named the profile (`Relinked`).
- `DueIsDecided` is checked with a poisoned message, not with a poisoned reminder.

Seven configurations are kept that are no part of the regular checks: each reproduces a
counterexample of section 6 in seconds.

## 4. Fairness

- *EventDelivery.* Weak: the client polls again, its request times out, a stopping
  Tornado exits, the supervisor starts it, a reload reads its state or fails. Strong: a live poll is served, a
  response is received, a reload registers, reads the state while its queue exists and applies its events, because each can be interrupted for ever
  by a time-out, a collection or a restart and the code's answer is to retry; an infinite
  run of bad luck is excluded, a finite one is not. Publication, collection,
  crashes and heartbeats have no fairness.
- *EventServer.* Weak, of all steps of the loop and the Django thread together: as long as one of them has a request, a timer, a notice or a
  collection to deal with, one is dealt with; polls and failures are finitely many. And weak: a queue that is not polled
  grows old. Clients need not poll, close or delete anything, and nothing has to fail.
- *Calls.* Weak: the setup thread and the effects run, LiveKit closes an empty room after its
  time-out, drops a participant that is gone, delivers webhooks that are not lost,
  push services deliver, a ringing phone polls. No user has to answer, hang up or join.
- *MissedMessages.* Weak: the consumer goes on, time-outs expire, the clock
  advances, the process is started again. Strong: the steps of the worker's transaction, which a failure
  takes back and the code repeats after a back-off: it does not fail for ever. Signals, crashes, deletions and
  changes of period have no fairness, and neither has the delivery of a further event.
- *ScheduledMessages.* Weak: the loop of the command selects and attempts, the supervisor restarts it, time
  passes. Nobody has to schedule, edit or delete, and nothing has to be refused.
- *DerivedContent.* Weak: hooks run, both workers go on, the backend answers what it accepted.
  *DerivedCandidates.* Weak: the backend asks for the next page; changes are bounded.
- *WorkspaceSync.* Weak: a request goes on. Strong: the backend (external) goes on sending each workspace, as
  soon as a thread is free; sign-ins, changes and faults have no fairness.

## 5. Proofs

Forty-six theorems in eight modules, checked by `tlapm` with Z3, Zenon and LS4.
The constants are arbitrary but for the named assumptions in the modules
(`TypesAssumption`, `VirtualTypesAssumption`, `DeliveryAssumption`, `ServerAssumption`, `RecordsAssumption`,
`CallsAssumption`, `MissedAssumption`, `ScheduledAssumption`, `DerivedAssumption`,
`CandidatesAssumption`, `SyncAssumption`). Type invariants that are proved are not
checked again by TLC.

**EventQueue_proofs.** For any messages, flags, event types and number of events. The invariant
`Consistent` says that the queue is `Proper` (the deque is ordered by id, deque and virtual events share
no id, each virtual event has the type it is kept under, all ids are below the next) and that what is compressed is newer
than what the client has processed. The last part is needed because `prune` looks at the deque only: without it a response could
repeat an event. `WellFormed` is its invariance, `TypeCorrect` and `ResponsesAreOrdered` follow, the
latter by `MergeOrdered`: after i real events the merge loop has put out, in order, exactly those and
the virtual events older than the last of them (`Merged`). `Refinement` (property `ImplementsSet`) maps the queue to two sets of events;
`PushRefines`, `PruneRefines` and `ResolveRefines` show that each method commutes with the mapping, so the set operations
that `EventDelivery` is built on are those of the class. `OneWayArrives` (property `OneWayUpdatesArrive`) needs `OneWay`: where the unseen updates of a
flag go one way, the database is what they make it. Together with `DispatchOneWay` (a batch with
updates in one direction has their effect in any order) it leaves opposite updates in one batch as the only way out of sync.
Loops are recursive functions here, and facts about every index come from `UpTo`, which says that a set that holds 0 and is closed under
successors up to n holds 0 .. n: induction over a set, by the least counterexample, instead of over an operator. `RecursionExists` gives,
from the same lemma, that a function defined by recursion is what its equations say.

**EventDelivery_proofs.** Nothing is assumed of the shutdown: Tornado serves and consumes between dump and exit in all
theorems. The invariant `IInv` has two parts. `Base` holds whatever a shutdown does:
`TypeOK` and
- `Connection`: at most one thing is under way for the waiting client;
- `Lifetime`: which copy of the queue exists in which state of Tornado, and that
  a connected handler means an empty queue, and a client that reloads has no request on its way.

`Core` is about a client that is not `ahead` of its queue: `Snapshot`, `ExactlyOnce` and
- `QueueOK`: every copy is `Sound`, i.e. `WellFormed` (ids unique and between the pruned id
  and the next one, contents disjoint) and `Agrees` with the client: the acknowledgement is the pruned id
  or the id of an event still there, no virtual event is behind it, and every payload
  neither processed nor `dropped` is in an event after it (`Covers`);
- `CleanOK`: the copy that survives the shutdown holds nothing that was dropped;
- `RequestsOK`: a request still on its way carries an id that was acknowledged
  once: it is pruned or still in each copy of the queue, so a late one does no harm to either;
- `ResponseOK`: a response is a full batch (`Batch`): everything that is after the acknowledgement, in every copy;
- `LoadingOK`, `AppliedOK`: from the queue of a reload nothing has been taken, and what the state lacks is in it.

`Sound` is what makes the argument go through: `NoLoss` alone does not survive a prune by a late
request. The lemmas `SoundPush`, `SoundPrune`, `SoundResolve`, `SoundProcess` state it for the queue's
operations, one lemma per action lifts it. From `IInv` follow `TypeCorrect`, `NothingLost`,
`NothingRepeated`, `InOrder`, `NoEventWaits`, `NeverRejected`, and `Refinement`: the protocol implements `EventChannel`, where the window is a
payload lost as it is published, or a channel that breaks.

**EventServer_proofs.** For any users, queues, recipients, polls and failing publishes.
`ServerInv` carries the types, what a poll may hold (`RequestInv`), that a queue without a descriptor is empty and waits
with nobody (`QueueInv`), and `TablesAgree`; `WaiterInv` adds that a handler a queue waits with has left the
Django thread. `TypeCorrect` and `TablesAlwaysAgree` follow. `WaitingConnectionsAreKnown` needs `ConnInv`: the handler of a queue
and the descriptor of a handler are inverse to each other, except for the id 0. `NobodyIsNotifiedAgain` needs `Recorded`: as long as no
publish raised, a user who was notified of a message has no queue left that holds it as pending.
`NoMessageIsForgotten` needs `ReadInv` (ids grow, so what a client names as its last id covers everything up to it; an answer on its way is complete)
and `Covered`: each listed queue that takes the message and has a client holds it, or the user has seen it or was told, or the notice was dropped.
It is true of any narrows and any limit of retries.

**Calls_proofs.** About the table (`CallRecords`): `RecordsTypeCorrect`; `LegalLifecycle` and `RecordsAgree` from the lemma
`TransactionRecord`, which says what one step does to one record. `SecondCallIsARace`, for any
number of threads: `known` remembers which calls were in the table when a request checked its caller (`RecordsWithHistory`), and a human comes
to have two active calls (`Double`) only by a request that creates its call beside one that it could not know (`CreatesBeside`). The invariant is `Checked`: a call a request
knows of, and which is still active, is of none of the humans the request has checked. The race
of `calls_race` is thus the only way to break `OneActiveCallPerHuman`. `DeadCallsNeverBlock`, for any number of
threads, by `DeadInv`: each call found dead is either
still to be found by an UPDATE of the same request or has left its status for good.
About `Calls`: `CallsTypeCorrect`; `CallsImplementRecords` (step simulation; variables of the table are shared, so the mapping is the identity);
`PostedOnce` and `OnlyDeadRoomsDeleted` from `EffectsInv`: an effect that is pending belongs to a
call that is over, the post is the only one and nothing has been posted yet.

**MissedMessages_proofs.** `TypeCorrect`. `NobodySleepsOverRows`: `NoLostWakeup` is inductive relative to `TypeOK`.
`NobodyEmailedTwice`: `EmailedOnce` needs `MailInv`: primary keys are not reused (`Numbered`), the row locks keep the
batch in the table until it is deleted (`BatchLocked`), and the second run of the query deletes at least the batch
(`OutboxTaken`). The same re-run that makes this safe is what drops rows (section 6). `NothingLeavesEarly` bounds the damage: a row
that goes, sent or not, is due or its message was deleted; `NothingEmailedEarly` says the same of what is emailed. Both need `Clock`, that a transaction compares
with a time not later than the present.

**ScheduledMessages_proofs.** `TypeCorrect`, `SentOnceAndFlagged`, `AcceptedEditsAreSent` and `DeletedMessagesStayUnsent`, for any
messages, editors, deliverers, cutoff and crashes, from one invariant: `LockInv` (a deliverer that sends holds the row as it is in the
table, still pending, and no two hold the same), `CountsOf` (a row is as it was saved last, no version was sent more than once, and the flag agrees)
and `EditInv` (what was deleted is neither in the table nor being edited). The lock is used where an edit, a deletion or another deliverer
would change the row between `SelectDue` and `MarkDelivered`. `OnlyEditsResend` shows that the lost update of section 6 is the only way a sent
message becomes pending again: no message that nobody is editing does. Reminders cannot be edited, so `RemindersAreSentOnce`.

**Derived_proofs.** About the row (`DerivedContent`): `TypeCorrect`, with at most one block in the HTML; `NoneStale`, from the comparison
under the lock in `attach_derived_content` and the same one in `carried`; `OnlyDropped`, the action property
`TranslationKept`, one lemma per writer of the row.

About the walk (`DerivedCandidates`): `WalkTypeCorrect`. `ReturnedOnce`: an id that was returned is on the near side of the cursor. `NothingLeftOut`: `Covered`
says that what is owed is ahead of the cursor or was returned; the lemma `HandledDownTo` says that the loop handles
every row down to the last it handles, which is where the next cursor is.

**WorkspaceSync_proofs.** `TypeCorrect`, and `DeletionLeavesNothing` by `DeletionInv`: no list holds a deleted account any more, and while a deletion runs that no sync overlaps, the profiles
it goes through are all that the account is linked to.
`ProfilesAreKept`: `ProfileKept`, for any number of requests that overlap, by `KeptInv`, which is about each request alone: it carries an address
for each member it has still to sync, the one in turn among them, so whatever it finds is found under the address that settles who it is.
What it has read before, the row, may be old; that the row it uses names no other profile is what `~ Relinked` says, and it is needed: see section 6.

Only model-checked: all liveness properties and what depends on ENABLED. Every safety and
action property of the passing runs has a theorem.

## 6. Where the code and its comments disagree

`calls_race` ends in a counterexample on purpose; `PROJECT.json` quotes the line under `findings`.
`calls.py:287` checks, then creates, without a lock or a unique constraint, although its comment says "one active call per HUMAN".

Seven more have a configuration that reproduces them.

| Configuration | Violated | What happens |
|---|---|---|
| `MCEventQueue_flags.cfg` | `FlagsInSync` | `event_queue.py:400`. add m1, remove m1, add m2: the compressed add moves past the remove and the client shows m1 as read. A comment in the code calls it incorrect. `OneWayArrives` shows that nothing else puts flags out of sync |
| `MCEventDelivery_drain.cfg` | `NothingDropped` | `runtornado.py:137`. The exit stack dumps the queues first and closes the RabbitMQ consumer last, with an await in between; what is consumed then is in no dump. The client goes on polling the loaded queue without it, and a client that was sent it in the window is ahead of the queue: it may miss more, see an id twice, or be refused. `docs/subsystems/events-system.md:172` says queues are saved and reloaded |
| `MCMissedMessages_dropped.cfg` | `RowsAreHandled` | `missedmessage_emails.py:264`. `events_to_process.delete()` runs the query again; a row inserted since, with the timestamp of a pending, due row, goes with it, unsent. The comment at `:75-78` says it "will get checked upon that timeout" |
| `MCDerivedContent_previews.cfg` | `BlockKept` | `embed_links.py:73`. The preview worker renders from markdown and overwrites the column with the translation in it, which the docstring at `derived_content.py:158-160` says only a change of the text drops |
| `MCDerivedContent_transcript.cfg` | `TranscriptOfThisMessage` | `derived.py:123`. Only translations carry a hash of their source: a transcript that arrives after its voice note was edited away is attached (cf. `test_derived_content.py:336` for translations) |
| `MCScheduledMessages_edit.cfg` | `SentIsFinal` | `scheduled_messages.py:181`. An edit reads `delivered` without a lock, the deliverer sends, and the edit's `save()` writes `delivered = False` back: the message is sent again, as edited. The comment says the check "handles the race" |
| `MCScheduledMessages_poison.cfg` | `DueIsDecided` | a reminder whose sending raises inside `do_send_messages` takes the command down, which restarts and selects it again: reminders have no cutoff, so nothing behind it is ever sent |

Others were met while modelling and have no configuration of their own.

*Delivery, event server*
- Handler ids begin with 0, and `disconnect_handler` tests the id for truth (`event_queue.py:305`): the descriptor of handler 0 is never
  forgotten, and the close of that connection disconnects whoever waits for its queue.
- A batch leaves `user_clients` before its hooks run (`:570`): two queues of a user collected in one batch each count as the last, and the user is notified twice.
- `missedmessage_hook` asks if any queue of the user is left, `receiver_is_off_zulip` if one is left whose event types include messages (`:278`, `:949`), and only delivery
  asks the narrow (`:241`, `:1273`): with a queue that accepts none, the last copy of a message goes without a notice; and a
  user whose only queue has a narrow that leaves the message out gets neither the event nor, unless presence lists them as idle, a notice.
- A notice whose processing raises is tried again `MAX_REQUEST_RETRIES` times (`queue.py:469`) and then dropped with a line in the log (`:1761`): the users it had not come to get nothing.
- A hook that raises leaves the rest of the batch in `clients` but in no list: those queues can be polled and get no events.
- Only `connect_handler` refreshes `last_connection_time`: a client that is always answered at once looks idle.
- `to_dict` leaves out `user_recipient_id`, which `from_dict` reads (`:130`): after a restart every queue has `None`.
- `TornadoQueueClient` never clears `_on_open_cbs`.

*Calls*
- `_run_call_setup` re-reads the status so as to "never ring the callee for a call
  that is already dead" (`calls.py:114-117`); a cancel between that read and the
  dispatch is not seen. The model has the step (`ReadStatus`, then `dispatch_call_push`); what it still promises is
  `GhostRingingStops`.
- `participant_left` trusts the `num_participants` of the event (`webhooks_livekit.py:246`). A late
  one with 0 ends a call whose party has rejoined; the docstring (`:233-236`) speaks of both parties having left.
- `end_reason = "room_empty"`, which `participant_left` writes, is not in `END_REASON_CHOICES` (`call_record.py:28-35`).
- A call that expires gets neither a push nor a message, unlike every other end.
- A connected call nobody joined stays connected when its room finishes, up to `STALE_CONNECTED_WINDOW`, a day.

*Email worker*
- `consume` reads the timestamp before it takes the lock (`missedmessage_emails.py:54-64`). A change of the batching
  period in between leaves two timestamps for one user, and two batches.
- A stop signal while `consume` holds `cv` joins a thread that
  needs it; the 30-second alarm frees the main thread, which goes on consuming without a worker
  thread until it is killed (`StopFailed`).

*Scheduled messages*
- A poisoned message that is not a reminder blocks all others until it is ten minutes late; those behind it may then fail as late themselves.
- `save()` of an edit whose row was deleted meanwhile inserts it again: the deleted message returns and is sent. Of two edits that overlap, one is lost.
- The deletion of a message that was already sent reports success.
- A reminder whose `internal_send_private_message` returns `None` is marked as delivered.
- `add` and `remove` events are published after their commits, each by its own process: they may arrive swapped, and a crash loses them.

*Sync*
- The realm is created durably before its extension row (`workspace_sync.py:81-83`, `create_realm.py:195`): a death in between leaves a
  realm whose name every later sync stops at (`Stuck`).
- `sync_attempts` is increased by every sync and success does not reset it (`user_sync.py:112`): after three good ones one failure is final for a human without an active profile.
- `_deactivate_removed_members` takes an empty list for a broken payload, on purpose (`workspace_sync.py:302`): the last member who is removed keeps access.
- An address that changes hands makes the sync link its new owner to the profile of the old one; a list that carries a stale address remaps
  a human who has signed in since; a new address in a second workspace makes a second profile.
- A sync reads the row of a human in one transaction and uses it in the next (`user_sync.py:71`, `:121`). If another request links the human to a new profile in between,
  after a change of address, the first one links them back to the older profile and saves its older row (`Relinked`).
- A deletion that overlaps a sync of the same human may leave rows the sync writes again; `erased` counts only deletions no sync overlaps.

## 7. What is not modelled

- *Wording, payload formats, tokens, headers, metrics, rate limits.* No property is about them.
- *The network between Django and Tornado.* Notices arrive in order and once, as RabbitMQ delivers them to one
  consumer; processing one again after it failed half way is in `EventServer`.
- *Notices that are not messages*, settings that make a message notifiable, and the sharding over several Tornado processes.
- *The alarm of `do_consume`* (`base.py:203`) other than in `JoinTimesOut` and `fetch_times_out`: an insertion that takes 30 seconds and then succeeds is left out.
- *One dispatch of a push* (`call_push_service.py:503`): the choice of tokens, stale ones and the FCM fallback, which stops
  at the first token that is accepted, are one sequential function.
- *The caller's phone*, CallKit and the LiveKit media plane. Pushes to the caller are effects that end there.
- *Task chats and assistant* (`assistant.py:114`): get-or-create under unique constraints; the loser of a race gets an error and no state differs.
- *Time in seconds.* Windows and time-outs are events that may happen (`stale`, `old`, `Abandon`, `EmptyTimeout`); only the
  email worker and the scheduled messages have a clock, because timestamps are compared there.
- *Deactivation of realms, roles, names, default streams* in the sync: their steps repeat harmlessly or their failures are swallowed.
- *Everything in the inventory marked not modelled in `PROJECT.json`*: pure code, single-query operations, and upstream
  code whose ordering is the database's. Most of the repository is of this kind: rendering, import and export, authentication
  backends, billing, migrations, the web client's interface, and tools have no steps that interleave.

## 8. Plan

Done, in this order: event queue and delivery, call records and calls, the email worker; then derived content and its
candidates, the event server, the sync, and scheduled messages, with their proofs. These are the parts where losing, repeating or
reordering something reaches the user.

Left, in order of importance:

1. **UserMessage flags**: `do_update_message_flags` and its events against the unread counts of the clients, composed with `EventQueue`, whose
   compression reorders them.
2. `EventServer` composed with `MissedMessages` through `rabbit`, and restarts of the whole table.
3. **RingFanout**: one dispatch over tokens with stale ones, the fallback, and the other devices.
4. The batch workers of `queue_processors.py` and `retry_event` for the other queues.

## 9. Running it

```
tlc -config MCEventDelivery_safety.cfg MCEventDelivery.tla
tlapm EventDelivery_proofs.tla
```

Every run finishes within about two minutes on two workers; the proofs take
about a quarter of an hour from nothing, most of it for `EventServer_proofs`.
