--------------------------- MODULE MissedMessages ---------------------------
(***************************************************************************)
(* The missedmessage_emails worker (zerver/worker/missedmessage_emails.py):*)
(* a consumer thread turns the events of a RabbitMQ queue into rows of     *)
(* ScheduledMessageNotificationEmail, and a worker thread emails the rows  *)
(* that are due, in batches.  A condition variable ties the two together.  *)
(*                                                                         *)
(* The worker holds the lock only for steps that touch nothing else, so    *)
(* each of them is one action; the consumer holds it across a query, and   *)
(* a signal can arrive there, so its owner is the variable `locked'.       *)
(***************************************************************************)
EXTENDS Integers, FiniteSets

CONSTANTS
    Users,
    Messages,       \* messages that are missed, one event each
    Recipient,      \* the user each is missed by
    Periods,        \* batching periods a user can choose
    MaxTime,        \* bound on the clock
    MaxStops,       \* bound on crashes and stop signals
    StopAt,         \* where in the main thread a stop signal may arrive
    Faulty          \* TRUE: queries, emails and publishing may fail

ConsumerSteps == {"read", "lock", "create", "notify"}

ASSUME MissedAssumption ==
    /\ Recipient \in [Messages -> Users]
    /\ Periods \subseteq Nat
    /\ MaxTime \in Nat /\ MaxStops \in Nat
    /\ StopAt \subseteq {"idle"} \cup ConsumerSteps
    /\ Faulty \in BOOLEAN

VARIABLES
    rabbit,         \* messages whose event is, or will be, in the queue
    deleted,        \* messages that have been deleted
    period,         \* email_notifications_batching_period_seconds of each user
    now,            \* the clock
    up,             \* the worker process runs
    stops,          \* number of crashes and stop signals so far
    consumer,       \* the main thread and the event it consumes
    locked,         \* the main thread holds cv
    notified,       \* the worker thread has been notified
    stopping,
    has_timeout,
    worker,         \* the worker thread, with the batch it is sending
    rows,           \* the table ScheduledMessageNotificationEmail
    next_id,        \* primary key of its next row
    outbox,         \* rows whose email is queued when the transaction commits
    emailed         \* primary keys of the rows that were emailed

environment == <<rabbit, deleted, period, now>>
process == <<up, stops>>
condition == <<locked, notified, stopping, has_timeout>>
table == <<rows, next_id>>
mail == <<outbox, emailed>>
vars == <<environment, process, consumer, condition, worker, table, mail>>

NoMessage == "none"

Idle == [pc |-> "idle", message |-> NoMessage, scheduled |-> 0]
WorkerAt(pc) == [pc |-> pc, current_time |-> 0, batch |-> {}]

User(r) == Recipient[r.message]
RowsOf(u) == {r \in rows : User(r) = u}
Ids(R) == {r.id : r \in R}

Waiting == worker.pc \in {"wait", "backoff"}

(***************************************************************************)
(* consume, in the main thread.                                            *)
(***************************************************************************)
Deliver(m) ==
    /\ up /\ consumer.pc = "idle" /\ m \in rabbit
    /\ consumer' = [pc |-> "read", message |-> m, scheduled |-> 0]
    /\ UNCHANGED <<environment, process, condition, worker, table, mail>>

ReadPending ==
    /\ consumer.pc = "read"
    /\ LET u == Recipient[consumer.message]
       IN  \E scheduled \in IF RowsOf(u) = {} THEN {now + period[u]}
                            ELSE {r.scheduled : r \in RowsOf(u)} :
             consumer' = [consumer EXCEPT !.pc = "lock", !.scheduled = scheduled]
    /\ UNCHANGED <<environment, process, condition, worker, table, mail>>

Acquire ==
    /\ consumer.pc = "lock" /\ ~ locked
    /\ locked' = TRUE
    /\ consumer' = [consumer EXCEPT !.pc = "create"]
    /\ UNCHANGED <<environment, process, notified, stopping, has_timeout,
                   worker, table, mail>>

Row(id) == [id |-> id, message |-> consumer.message, scheduled |-> consumer.scheduled]

Create ==
    /\ consumer.pc = "create"
    /\ consumer.message \notin deleted
    /\ rows' = rows \cup {Row(next_id)}
    /\ next_id' = next_id + 1
    /\ consumer' = [consumer EXCEPT !.pc = "notify"]
    /\ UNCHANGED <<environment, process, condition, worker, mail>>

\* the event is done with: the lock is released and the event acknowledged
Acknowledge ==
    /\ consumer' = Idle
    /\ locked' = FALSE
    /\ rabbit' = rabbit \ {consumer.message}
    /\ UNCHANGED <<deleted, period, now, process, stopping, has_timeout,
                   worker, table, mail>>

\* mutant: no notification
NotifyForgotten ==
    /\ consumer.pc = "notify"
    /\ UNCHANGED notified
    /\ Acknowledge

Notify ==
    /\ consumer.pc = "notify"
    /\ notified' = (notified \/ (Waiting /\ ~ has_timeout))
    /\ Acknowledge

\* IntegrityError: the message has been deleted
SkipDeleted ==
    /\ consumer.pc = "create"
    /\ consumer.message \in deleted
    /\ UNCHANGED notified
    /\ Acknowledge

\* a query fails: do_consume writes the event to a file and goes on
ConsumeFails ==
    /\ Faulty
    /\ consumer.pc \in {"read", "create"}
    /\ UNCHANGED notified
    /\ Acknowledge

(***************************************************************************)
(* background_loop, in the worker thread.                                  *)
(***************************************************************************)
Step(pc) == worker' = WorkerAt(pc)

\* mutant: the timeout is only for the rows of an earlier round
background_loopUntimed ==
    /\ worker.pc = "top" /\ ~ locked
    /\ IF stopping
       THEN Step("finished") /\ UNCHANGED <<notified, has_timeout>>
       ELSE Step("wait") /\ notified' = FALSE /\ has_timeout' = FALSE
    /\ UNCHANGED <<environment, process, consumer, locked, stopping, table, mail>>

background_loop ==
    /\ worker.pc = "top" /\ ~ locked
    /\ IF stopping
       THEN Step("finished") /\ UNCHANGED <<notified, has_timeout>>
       ELSE Step("wait") /\ notified' = FALSE /\ has_timeout' = (rows # {})
    /\ UNCHANGED <<environment, process, consumer, locked, stopping, table, mail>>

wait_condition == stopping \/ (~ has_timeout /\ rows # {})

Wake ==
    /\ worker.pc = "wait" /\ ~ locked
    /\ notified
    /\ notified' = FALSE
    /\ IF wait_condition THEN Step("top") ELSE UNCHANGED worker
    /\ UNCHANGED <<environment, process, consumer, locked, stopping, has_timeout,
                   table, mail>>

WaitTimesOut ==
    /\ worker.pc = "wait" /\ ~ locked
    /\ has_timeout
    /\ notified' = FALSE
    /\ Step(IF wait_condition THEN "top" ELSE "select")
    /\ UNCHANGED <<environment, process, consumer, locked, stopping, has_timeout,
                   table, mail>>

(***************************************************************************)
(* maybe_send_batched_emails: one transaction, which selects the due rows  *)
(* for update, composes the emails, and deletes the due rows by running    *)
(* the query again; the emails are queued after the commit.                *)
(***************************************************************************)
Due(t) == {r \in rows : r.scheduled <= t}

Select ==
    /\ worker.pc = "select"
    /\ worker' = [pc |-> "handle", current_time |-> now, batch |-> Due(now)]
    /\ UNCHANGED <<environment, process, consumer, condition, table, mail>>

\* an exception for one user is logged, and costs that user the emails
Failures == IF Faulty THEN SUBSET {User(r) : r \in worker.batch} ELSE {{}}

\* mutant: the emails do not wait for the commit
HandleAtOnce ==
    /\ worker.pc = "handle"
    /\ \E failed \in Failures :
         emailed' = emailed \cup Ids({r \in worker.batch : User(r) \notin failed})
    /\ worker' = [worker EXCEPT !.pc = "delete"]
    /\ UNCHANGED <<environment, process, consumer, condition, table, outbox>>

Handle ==
    /\ worker.pc = "handle"
    /\ \E failed \in Failures :
         outbox' = {r \in worker.batch : User(r) \notin failed}
    /\ worker' = [worker EXCEPT !.pc = "delete"]
    /\ UNCHANGED <<environment, process, consumer, condition, table, emailed>>

DeleteBatch ==
    /\ worker.pc = "delete"
    /\ rows' = rows \ Due(worker.current_time)
    /\ Step("publish")
    /\ UNCHANGED <<environment, process, consumer, condition, next_id, mail>>

Publish ==
    /\ worker.pc = "publish"
    /\ IF outbox = {}
       THEN Step("top") /\ UNCHANGED mail
       ELSE \E u \in {User(r) : r \in outbox} :
              /\ emailed' = emailed \cup Ids({r \in outbox : User(r) = u})
              /\ outbox' = {r \in outbox : User(r) # u}
              /\ UNCHANGED worker
    /\ UNCHANGED <<environment, process, consumer, condition, table>>

\* any other exception rolls the transaction back
Abort ==
    /\ Faulty
    /\ worker.pc \in {"top", "select", "handle", "delete", "publish"}
    /\ Step("error")
    /\ outbox' = {}
    /\ UNCHANGED <<environment, process, consumer, condition, table, emailed>>

Backoff ==
    /\ worker.pc = "error" /\ ~ locked
    /\ Step("backoff")
    /\ has_timeout' = TRUE
    /\ notified' = FALSE
    /\ UNCHANGED <<environment, process, consumer, locked, stopping, table, mail>>

BackoffEnds ==
    /\ worker.pc = "backoff" /\ ~ locked
    /\ Step("top")
    /\ notified' = FALSE
    /\ UNCHANGED <<environment, process, consumer, locked, stopping, has_timeout,
                   table, mail>>

(***************************************************************************)
(* start, stop and the signal handler of process_queue.  The handler runs  *)
(* in the main thread, wherever that is: cv is reentrant, and if consume   *)
(* holds it, the handler joins the worker thread while it is held.         *)
(***************************************************************************)
\* mutant: the worker thread is not notified
StopSilent ==
    /\ up /\ consumer.pc \in StopAt /\ stops < MaxStops
    /\ stops' = stops + 1
    /\ stopping' = TRUE
    /\ consumer' = [consumer EXCEPT !.pc = "join"]
    /\ UNCHANGED <<environment, up, locked, notified, has_timeout, worker, table, mail>>

Stop ==
    /\ up /\ consumer.pc \in StopAt /\ stops < MaxStops
    /\ stops' = stops + 1
    /\ stopping' = TRUE
    /\ notified' = (notified \/ Waiting)
    /\ consumer' = [consumer EXCEPT !.pc = "join"]
    /\ UNCHANGED <<environment, up, locked, has_timeout, worker, table, mail>>

ProcessEnds ==
    /\ up' = FALSE
    /\ consumer' = Idle
    /\ worker' = WorkerAt("finished")
    /\ outbox' = {}
    /\ locked' = FALSE /\ notified' = FALSE
    /\ stopping' = FALSE /\ has_timeout' = FALSE
    /\ UNCHANGED <<environment, table, emailed>>

Exit ==
    /\ consumer.pc = "join" /\ worker.pc = "finished"
    /\ ProcessEnds
    /\ UNCHANGED stops

\* the alarm of do_consume goes off in the handler: consume fails, but the
\* main thread goes on consuming
JoinTimesOut ==
    /\ consumer.pc = "join" /\ consumer.message # NoMessage
    /\ worker.pc # "finished"
    /\ UNCHANGED notified
    /\ Acknowledge

Crash ==
    /\ up /\ stops < MaxStops
    /\ ProcessEnds
    /\ stops' = stops + 1

Start ==
    /\ ~ up
    /\ up' = TRUE
    /\ Step("top")
    /\ UNCHANGED <<environment, stops, consumer, condition, table, mail>>

(***************************************************************************)
(* Other processes.  The rows of the batch are locked until the commit.    *)
(***************************************************************************)
RowLocks == IF worker.pc \in {"handle", "delete"} THEN worker.batch ELSE {}

DeleteMessage(m) ==
    /\ m \notin deleted
    /\ \A r \in RowLocks : r.message # m
    /\ deleted' = deleted \cup {m}
    /\ rows' = {r \in rows : r.message # m}
    /\ UNCHANGED <<rabbit, period, now, process, consumer, condition, worker,
                   next_id, mail>>

update_scheduled_email_notifications_time(u, new) ==
    /\ \A r \in RowLocks : User(r) # u
    /\ period' = [period EXCEPT ![u] = new]
    /\ rows' = {IF User(r) = u THEN [r EXCEPT !.scheduled = @ + (new - period[u])]
                               ELSE r : r \in rows}
    /\ UNCHANGED <<rabbit, deleted, now, process, consumer, condition, worker,
                   next_id, mail>>

Tick ==
    /\ now < MaxTime
    /\ now' = now + 1
    /\ UNCHANGED <<rabbit, deleted, period, process, consumer, condition, worker,
                   table, mail>>

Init ==
    /\ rabbit = Messages /\ deleted = {}
    /\ period \in [Users -> Periods]
    /\ now = 0
    /\ up = FALSE /\ stops = 0
    /\ consumer = Idle
    /\ locked = FALSE /\ notified = FALSE
    /\ stopping = FALSE /\ has_timeout = FALSE
    /\ worker = WorkerAt("finished")
    /\ rows = {} /\ next_id = 0
    /\ outbox = {} /\ emailed = {}

Consume ==
    \/ ReadPending \/ Acquire \/ Create \/ Notify \/ SkipDeleted \/ ConsumeFails
    \/ \E m \in Messages : Deliver(m)

maybe_send_batched_emails == Select \/ Handle \/ DeleteBatch \/ Publish

Work ==
    \/ background_loop \/ Wake \/ WaitTimesOut
    \/ maybe_send_batched_emails
    \/ Abort \/ Backoff \/ BackoffEnds

Supervise == Stop \/ Exit \/ JoinTimesOut \/ Crash \/ Start

Others ==
    \/ Tick
    \/ \E m \in Messages : DeleteMessage(m)
    \/ \E u \in Users, new \in Periods : update_scheduled_email_notifications_time(u, new)

Next == Consume \/ Work \/ Supervise \/ Others

Spec == Init /\ [][Next]_vars

(***************************************************************************)
(* Fairness: both threads run, a timeout expires, the clock advances, and  *)
(* supervisor starts a process that is down.  A transaction that fails is  *)
(* tried again after the backoff, and does not fail for ever: that is the  *)
(* strong fairness.  Signals, crashes and what other processes do need not *)
(* happen.                                                                 *)
(***************************************************************************)
Fairness ==
    /\ WF_vars(ReadPending \/ Acquire \/ Create \/ Notify \/ SkipDeleted)
    /\ SF_vars(background_loop)
    /\ WF_vars(Wake) /\ WF_vars(WaitTimesOut)
    /\ SF_vars(Select) /\ SF_vars(Handle) /\ SF_vars(DeleteBatch)
    /\ WF_vars(Publish)
    /\ WF_vars(Backoff) /\ WF_vars(BackoffEnds)
    /\ WF_vars(Exit) /\ WF_vars(JoinTimesOut) /\ WF_vars(Start)
    /\ WF_vars(Tick)

FairSpec == Spec /\ Fairness

(***************************************************************************)
(* Properties.                                                             *)
(***************************************************************************)
RowType == [id : Nat, message : Messages, scheduled : Int]

TypeOK ==
    /\ rabbit \subseteq Messages /\ deleted \subseteq Messages
    /\ period \in [Users -> Periods]
    /\ now \in 0 .. MaxTime /\ stops \in 0 .. MaxStops
    /\ up \in BOOLEAN
    /\ consumer \in [pc : {"idle", "join"} \cup ConsumerSteps,
                     message : Messages \cup {NoMessage}, scheduled : Int]
    /\ consumer.pc \in ConsumerSteps => consumer.message \in Messages
    /\ locked \in BOOLEAN /\ notified \in BOOLEAN
    /\ stopping \in BOOLEAN /\ has_timeout \in BOOLEAN
    /\ worker \in [pc : {"top", "wait", "select", "handle", "delete", "publish",
                         "error", "backoff", "finished"},
                   current_time : 0 .. MaxTime, batch : SUBSET RowType]
    /\ rows \subseteq RowType /\ next_id \in Nat
    /\ outbox \subseteq RowType /\ emailed \subseteq Nat
    /\ outbox # {} => worker.pc \in {"delete", "publish"}
    /\ ~ up => worker.pc = "finished"

(* No lost wakeup, case 3 of the comment in consume: when the worker       *)
(* waits without a timeout and nobody has notified it, there is nothing to *)
(* do, or the consumer is just about to notify it.  "If we fail to awake   *)
(* case (3), the worker thread will never wake up."                        *)
NoLostWakeup ==
    (worker.pc = "wait" /\ ~ has_timeout /\ ~ notified)
        => rows = {} \/ consumer.pc = "notify"

(* No row is emailed twice, whatever is rolled back or crashes on the way: *)
(* an emailed row is gone from the table and not about to be emailed.      *)
EmailedOnce == emailed \cap (Ids(rows) \cup Ids(outbox)) = {}

(* "The newly-inserted row will get checked upon that timeout", case 2 of  *)
(* the comment in consume: a row leaves the table only in a batch whose    *)
(* emails were composed, or because its message was deleted.               *)
RowsAreHandled ==
    [][\A r \in rows :
         r.id \in Ids(rows') \/ r \in worker.batch \/ r.message \in deleted']_vars

(* The signal handler gave up joining the worker thread, because consume   *)
(* held cv: the process goes on consuming without a worker thread.         *)
StopFailed == up /\ stopping /\ consumer.pc # "join"

(* A row that is due does not stay in the table, although the worker may   *)
(* sleep without a timeout, roll back, crash or be restarted; only a stop  *)
(* inside consume can leave it there.                                      *)
RowsAreChecked ==
    \A m \in Messages :
        (\E r \in rows : r.message = m /\ r.scheduled <= MaxTime)
            ~> ((\A r \in rows : r.message = m => r.scheduled > MaxTime) \/ StopFailed)

(* "We are being explicitly asked to stop": a process that got the signal  *)
(* between two events ends.                                                *)
StopEnds == (consumer.pc = "join" /\ consumer.message = NoMessage) ~> ~ up
=============================================================================
