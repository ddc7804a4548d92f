------------------------ MODULE MissedMessages_proofs ------------------------
(***************************************************************************)
(* Proofs about the missedmessage_emails worker.                           *)
(***************************************************************************)
EXTENDS MissedMessages, TLAPS

(***************************************************************************)
(* Types.                                                                  *)
(***************************************************************************)
LEMMA WorkerTyped ==
  ASSUME NEW pc \in {"top", "wait", "select", "handle", "delete", "publish",
                     "error", "backoff", "finished"}
  PROVE  WorkerAt(pc) \in [pc : {"top", "wait", "select", "handle", "delete", "publish",
                                 "error", "backoff", "finished"},
                           current_time : 0 .. MaxTime, batch : SUBSET RowType]
  BY MissedAssumption DEF WorkerAt

LEMMA IdleTyped ==
  /\ Idle \in [pc : {"idle", "join"} \cup ConsumerSteps,
               message : Messages \cup {NoMessage}, scheduled : Int]
  /\ Idle.pc \notin ConsumerSteps
  BY DEF Idle, ConsumerSteps

LEMMA InitTypeOK == Init => TypeOK
<1> SUFFICES ASSUME Init
             PROVE  TypeOK
  OBVIOUS
<1>1. now \in 0 .. MaxTime /\ stops \in 0 .. MaxStops
  BY MissedAssumption DEF Init
<1>2. worker.pc = "finished"
  BY DEF Init, WorkerAt
<1> QED
  BY <1>1, <1>2, IdleTyped, WorkerTyped DEF Init, TypeOK

LEMMA StepTypeOK == TypeOK /\ [Next]_vars => TypeOK'
<1> SUFFICES ASSUME TypeOK, [Next]_vars
             PROVE  TypeOK'
  OBVIOUS
<1> USE MissedAssumption DEF TypeOK, ConsumerSteps, environment, process, condition, table, mail
<1>1. ASSUME Acknowledge, notified' \in BOOLEAN PROVE TypeOK'
  <2>1. consumer' = Idle
    BY <1>1 DEF Acknowledge
  <2> QED
    BY <1>1, <2>1, IdleTyped DEF Acknowledge
<1>2. ASSUME NEW m \in Messages, Deliver(m) PROVE TypeOK'
  BY <1>2 DEF Deliver
<1>3. CASE ReadPending
  <2>1. \A u \in Users : now + period[u] \in Int
    <3>1. now \in Int
      OBVIOUS
    <3>2. \A u \in Users : period[u] \in Nat
      OBVIOUS
    <3> QED
      BY <3>1, <3>2
  <2>2. \A r \in rows : r.scheduled \in Int
    BY DEF RowType
  <2>3. \E scheduled \in Int : consumer' = [consumer EXCEPT !.pc = "lock",
                                                            !.scheduled = scheduled]
    BY <1>3, <2>1, <2>2 DEF ReadPending, RowsOf
  <2> QED
    BY <1>3, <2>3 DEF ReadPending
<1>4. CASE Acquire
  BY <1>4 DEF Acquire
<1>5. CASE Create
  <2>1. Row(next_id) \in RowType
    BY <1>5 DEF Create, Row, RowType
  <2> QED
    BY <1>5, <2>1 DEF Create
<1>6. CASE Notify
  <2>1. notified' \in BOOLEAN
    BY <1>6 DEF Notify, Waiting
  <2>2. Acknowledge
    BY <1>6 DEF Notify
  <2> QED
    BY <1>1, <2>1, <2>2
<1>7. CASE SkipDeleted \/ ConsumeFails \/ JoinTimesOut
  BY <1>1, <1>7 DEF SkipDeleted, ConsumeFails, JoinTimesOut
<1>8. CASE background_loop
  <2>1. CASE stopping
    BY <1>8, <2>1, WorkerTyped DEF background_loop, Step, WorkerAt
  <2>2. CASE ~ stopping
    <3>1. has_timeout' \in BOOLEAN /\ notified' \in BOOLEAN
      BY <1>8, <2>2 DEF background_loop
    <3> QED
      BY <1>8, <2>2, <3>1, WorkerTyped DEF background_loop, Step, WorkerAt
  <2> QED
    BY <2>1, <2>2
<1>9. CASE Wake \/ WaitTimesOut \/ Abort \/ Backoff \/ BackoffEnds
  BY <1>9, WorkerTyped DEF Wake, WaitTimesOut, Abort, Backoff, BackoffEnds, Step, WorkerAt
<1>10. CASE Select
  BY <1>10 DEF Select, Due
<1>11. CASE Handle
  BY <1>11 DEF Handle
<1>12. CASE DeleteBatch
  BY <1>12, WorkerTyped DEF DeleteBatch, Step, WorkerAt, Due
<1>13. CASE Publish
  <2>1. \A R \in SUBSET RowType : Ids(R) \subseteq Nat
    BY DEF Ids, RowType
  <2> QED
    BY <1>13, <2>1, WorkerTyped DEF Publish, Step, WorkerAt
<1>14. CASE Stop
  BY <1>14 DEF Stop, Waiting
<1>15. ASSUME ProcessEnds, stops' \in 0 .. MaxStops PROVE TypeOK'
  <2>1. consumer' = Idle
    BY <1>15 DEF ProcessEnds
  <2>2. worker' = WorkerAt("finished") /\ worker'.pc = "finished"
    BY <1>15 DEF ProcessEnds, WorkerAt
  <2> QED
    BY <1>15, <2>1, <2>2, IdleTyped, WorkerTyped DEF ProcessEnds
<1>16. CASE Exit \/ Crash
  BY <1>15, <1>16 DEF Exit, Crash
<1>17. CASE Start
  BY <1>17, WorkerTyped DEF Start, Step, WorkerAt
<1>18. CASE Tick
  BY <1>18 DEF Tick
<1>19. ASSUME NEW m \in Messages, DeleteMessage(m) PROVE TypeOK'
  BY <1>19 DEF DeleteMessage
<1>20. ASSUME NEW u \in Users, NEW new \in Periods,
              update_scheduled_email_notifications_time(u, new)
       PROVE  TypeOK'
  <2>1. \A r \in rows : [r EXCEPT !.scheduled = @ + (new - period[u])] \in RowType
    BY DEF RowType
  <2>2. rows' \subseteq RowType
    BY <1>20, <2>1 DEF update_scheduled_email_notifications_time
  <2> QED
    BY <1>20, <2>2 DEF update_scheduled_email_notifications_time
<1>21. CASE UNCHANGED vars
  BY <1>21 DEF vars
<1> QED
  BY <1>2, <1>3, <1>4, <1>5, <1>6, <1>7, <1>8, <1>9, <1>10, <1>11, <1>12, <1>13,
     <1>14, <1>16, <1>17, <1>18, <1>19, <1>20, <1>21
  DEF Next, Consume, Work, maybe_send_batched_emails, Supervise, Others

(* Every reachable state of the worker has its types.                      *)
THEOREM TypeCorrect == Spec => []TypeOK
  BY InitTypeOK, StepTypeOK, PTL DEF Spec

(***************************************************************************)
(* No lost wakeup.  The property is inductive: background_loop decides     *)
(* whether to wait without a timeout in the step in which it looks at the  *)
(* table, and Create leads to Notify.                                      *)
(***************************************************************************)
LEMMA StepNoLostWakeup == TypeOK /\ NoLostWakeup /\ [Next]_vars => NoLostWakeup'
<1> SUFFICES ASSUME TypeOK, NoLostWakeup, [Next]_vars
             PROVE  NoLostWakeup'
  OBVIOUS
<1> USE DEF NoLostWakeup, environment, process, condition, table, mail
<1>1. ASSUME NEW m \in Messages, Deliver(m) PROVE NoLostWakeup'
  BY <1>1 DEF Deliver
<1>2. CASE ReadPending
  BY <1>2 DEF ReadPending
<1>3. CASE Acquire
  BY <1>3 DEF Acquire
<1>4. CASE Create
  BY <1>4 DEF Create, TypeOK
<1>5. CASE Notify
  BY <1>5 DEF Notify, Acknowledge, Waiting
<1>6. CASE SkipDeleted \/ ConsumeFails \/ JoinTimesOut
  BY <1>6 DEF SkipDeleted, ConsumeFails, JoinTimesOut, Acknowledge
<1>7. CASE background_loop
  <2>1. CASE stopping
    BY <1>7, <2>1 DEF background_loop, Step, WorkerAt
  <2>2. CASE ~ stopping
    <3>1. ~ has_timeout' => rows' = {}
      BY <1>7, <2>2 DEF background_loop
    <3> QED
      BY <3>1
  <2> QED
    BY <2>1, <2>2
<1>8. CASE Wake
  BY <1>8 DEF Wake, wait_condition, Step, WorkerAt
<1>9. CASE WaitTimesOut \/ Abort \/ Backoff \/ BackoffEnds
  BY <1>9 DEF WaitTimesOut, Abort, Backoff, BackoffEnds, Step, WorkerAt
<1>10. CASE maybe_send_batched_emails
  BY <1>10 DEF maybe_send_batched_emails, Select, Handle, DeleteBatch, Publish,
               Step, WorkerAt, TypeOK
<1>11. CASE Stop
  BY <1>11 DEF Stop, Waiting
<1>12. CASE Exit \/ Crash
  BY <1>12 DEF Exit, Crash, ProcessEnds, WorkerAt
<1>13. CASE Start
  BY <1>13 DEF Start, Step, WorkerAt
<1>14. CASE Tick
  BY <1>14 DEF Tick
<1>15. ASSUME NEW m \in Messages, DeleteMessage(m) PROVE NoLostWakeup'
  BY <1>15 DEF DeleteMessage
<1>16. ASSUME NEW u \in Users, NEW new \in Periods,
              update_scheduled_email_notifications_time(u, new)
       PROVE  NoLostWakeup'
  BY <1>16 DEF update_scheduled_email_notifications_time
<1>17. CASE UNCHANGED vars
  BY <1>17 DEF vars
<1> QED
  BY <1>1, <1>2, <1>3, <1>4, <1>5, <1>6, <1>7, <1>8, <1>9, <1>10, <1>11, <1>12,
     <1>13, <1>14, <1>15, <1>16, <1>17
  DEF Next, Consume, Work, Supervise, Others

(* The worker thread never sleeps without a timeout over a row nobody will *)
(* wake it for, whatever the two threads, signals, crashes and other       *)
(* processes do.                                                           *)
THEOREM NobodySleepsOverRows == Spec => []NoLostWakeup
<1>1. Init => NoLostWakeup
  BY DEF Init, NoLostWakeup, WorkerAt
<1> QED
  BY <1>1, TypeCorrect, StepNoLostWakeup, PTL DEF Spec

(***************************************************************************)
(* No row is emailed twice.  EmailedOnce is not inductive: it needs that   *)
(* primary keys are not used again, that the transaction's row locks keep  *)
(* the batch in the table until the batch is deleted, and that the second  *)
(* run of the query deletes at least the batch.                            *)
(***************************************************************************)
Numbered ==
    /\ \A r, s \in rows \cup outbox : r.id = s.id => r = s
    /\ \A r \in rows \cup outbox : r.id < next_id
    /\ \A i \in emailed : i < next_id

BatchLocked ==
    worker.pc \in {"handle", "delete"} =>
        /\ worker.batch \subseteq rows
        /\ \A r \in worker.batch : r.scheduled <= worker.current_time

OutboxTaken ==
    /\ worker.pc = "delete" => outbox \subseteq worker.batch
    /\ worker.pc = "publish" => outbox \cap rows = {}

MailInv == TypeOK /\ Numbered /\ BatchLocked /\ OutboxTaken /\ EmailedOnce

(* What MailInv says of a worker thread between transactions.              *)
LEMMA OutsideTransaction ==
  ASSUME TypeOK', MailInv, UNCHANGED <<table, emailed>>, outbox' = {},
         worker'.pc \notin {"handle", "delete"}
  PROVE  MailInv'
  BY DEF MailInv, Numbered, BatchLocked, OutboxTaken, EmailedOnce, Ids, table

LEMMA StepMailInv == MailInv /\ [Next]_vars => MailInv'
<1> SUFFICES ASSUME MailInv, [Next]_vars
             PROVE  MailInv'
  OBVIOUS
<1>t. TypeOK /\ TypeOK'
  BY StepTypeOK DEF MailInv
<1> USE DEF environment, process, condition, table, mail
<1>1. ASSUME UNCHANGED <<worker, table, mail>> PROVE MailInv'
  BY <1>t, <1>1 DEF MailInv, Numbered, BatchLocked, OutboxTaken, EmailedOnce, Ids
<1>2. CASE Create
  <2>1. Row(next_id).id = next_id /\ next_id \in Nat /\ next_id' = next_id + 1
    BY <1>2, <1>t DEF Create, Row, TypeOK
  <2>2. Numbered'
    <3>1. \A r \in rows \cup outbox : r.id \in Nat /\ r.id # next_id
      BY <1>t, <2>1 DEF MailInv, Numbered, TypeOK, RowType
    <3>2. \A i \in emailed : i \in Nat
      BY <1>t DEF TypeOK
    <3> QED
      BY <1>2, <2>1, <3>1, <3>2 DEF MailInv, Numbered, Create
  <2>3. EmailedOnce'
    <3>1. next_id \notin emailed
      BY <2>1 DEF MailInv, Numbered
    <3> QED
      BY <1>2, <2>1, <3>1 DEF MailInv, EmailedOnce, Create, Ids
  <2>4. BatchLocked' /\ OutboxTaken'
    <3>1. Row(next_id) \notin outbox
      BY <2>1 DEF MailInv, Numbered
    <3> QED
      BY <1>2, <3>1 DEF MailInv, BatchLocked, OutboxTaken, Create
  <2> QED
    BY <1>t, <2>2, <2>3, <2>4 DEF MailInv
<1>3. ASSUME Acknowledge PROVE MailInv'
  BY <1>1, <1>3 DEF Acknowledge
<1>4. CASE Consume
  BY <1>1, <1>2, <1>3, <1>4 DEF Consume, ReadPending, Acquire, Notify, SkipDeleted,
                                ConsumeFails, Deliver
<1>5. CASE background_loop \/ Wake \/ WaitTimesOut \/ Backoff \/ BackoffEnds
  <2>1. outbox = {}
    BY <1>5, <1>t DEF TypeOK, background_loop, Wake, WaitTimesOut, Backoff, BackoffEnds
  <2> QED
    BY <1>5, <1>t, <2>1, OutsideTransaction
    DEF background_loop, Wake, WaitTimesOut, Backoff, BackoffEnds, Step, WorkerAt
<1>6. CASE Abort
  BY <1>6, <1>t, OutsideTransaction DEF Abort, Step, WorkerAt
<1>7. CASE Select
  <2>1. outbox = {}
    BY <1>7, <1>t DEF TypeOK, Select
  <2> QED
    BY <1>7, <1>t, <2>1 DEF Select, Due, MailInv, Numbered, BatchLocked, OutboxTaken,
                            EmailedOnce, Ids
<1>8. CASE Handle
  <2>1. outbox' \subseteq worker.batch /\ worker.batch \subseteq rows
    BY <1>8 DEF Handle, MailInv, BatchLocked
  <2>2. worker'.pc = "delete" /\ worker'.batch = worker.batch
        /\ worker'.current_time = worker.current_time
    BY <1>8, <1>t DEF Handle, TypeOK
  <2>3. UNCHANGED <<rows, next_id, emailed>>
    BY <1>8 DEF Handle
  <2> QED
    BY <1>8, <1>t, <2>1, <2>2, <2>3 DEF Handle, MailInv, Numbered, BatchLocked, OutboxTaken,
                                  EmailedOnce, Ids
<1>9. CASE DeleteBatch
  <2>1. outbox \subseteq Due(worker.current_time)
    BY <1>9 DEF DeleteBatch, Due, MailInv, BatchLocked, OutboxTaken
  <2>2. rows' \subseteq rows /\ outbox \cap rows' = {}
    BY <1>9, <2>1 DEF DeleteBatch
  <2>3. worker'.pc = "publish" /\ UNCHANGED <<next_id, outbox, emailed>>
    BY <1>9 DEF DeleteBatch, Step, WorkerAt
  <2> QED
    BY <1>t, <2>2, <2>3 DEF MailInv, Numbered, BatchLocked, OutboxTaken, EmailedOnce, Ids
<1>10. CASE Publish
  <2>1. CASE outbox = {}
    BY <1>10, <1>t, <2>1, OutsideTransaction DEF Publish, Step, WorkerAt
  <2>2. CASE outbox # {}
    <3>1. PICK u : /\ emailed' = emailed \cup Ids({r \in outbox : User(r) = u})
                   /\ outbox' = {r \in outbox : User(r) # u}
      BY <1>10, <2>2 DEF Publish
    <3>2. worker.pc = "publish" /\ UNCHANGED <<worker, rows, next_id>>
      BY <1>10, <2>2 DEF Publish
    <3>3. Numbered'
      BY <3>1, <3>2 DEF MailInv, Numbered, Ids
    <3>4. \A r \in outbox : \A s \in rows : r.id # s.id
      BY <3>2 DEF MailInv, Numbered, OutboxTaken
    <3>5. \A r, s \in outbox : User(r) # User(s) => r.id # s.id
      BY DEF MailInv, Numbered, User
    <3>6. EmailedOnce'
      BY <3>1, <3>2, <3>4, <3>5 DEF MailInv, EmailedOnce, Ids
    <3>7. BatchLocked' /\ OutboxTaken'
      BY <3>1, <3>2 DEF MailInv, BatchLocked, OutboxTaken
    <3> QED
      BY <1>t, <3>3, <3>6, <3>7 DEF MailInv
  <2> QED
    BY <2>1, <2>2
<1>11. ASSUME ProcessEnds PROVE MailInv'
  BY <1>11, <1>t, OutsideTransaction DEF ProcessEnds, WorkerAt
<1>12. CASE Start
  <2>1. outbox = {}
    BY <1>12, <1>t DEF Start, TypeOK
  <2> QED
    BY <1>12, <1>t, <2>1, OutsideTransaction DEF Start, Step, WorkerAt
<1>13. CASE Supervise
  BY <1>1, <1>3, <1>11, <1>12, <1>13 DEF Supervise, Stop, Exit, JoinTimesOut, Crash
<1>14. ASSUME NEW m \in Messages, DeleteMessage(m) PROVE MailInv'
  <2>1. rows' = {r \in rows : r.message # m} /\ UNCHANGED <<worker, next_id, mail>>
    BY <1>14 DEF DeleteMessage
  <2>2. worker.pc \in {"handle", "delete"} => worker.batch \subseteq rows'
    BY <1>14, <2>1 DEF DeleteMessage, RowLocks, MailInv, BatchLocked
  <2> QED
    BY <1>t, <2>1, <2>2 DEF MailInv, Numbered, BatchLocked, OutboxTaken, EmailedOnce, Ids
<1>15. ASSUME NEW u \in Users, NEW new \in Periods,
              update_scheduled_email_notifications_time(u, new)
       PROVE  MailInv'
  <2> DEFINE Moved(r) == IF User(r) = u
                         THEN [r EXCEPT !.scheduled = @ + (new - period[u])] ELSE r
  <2>1. rows' = {Moved(r) : r \in rows} /\ UNCHANGED <<worker, next_id, mail>>
    BY <1>15 DEF update_scheduled_email_notifications_time
  <2>2. \A r \in rows : Moved(r).id = r.id
    BY <1>t DEF TypeOK, RowType
  <2>3. \A r \in RowLocks : Moved(r) = r
    BY <1>15 DEF update_scheduled_email_notifications_time
  <2>4. worker.pc \in {"handle", "delete"} => worker.batch \subseteq rows'
    BY <2>1, <2>3 DEF RowLocks, MailInv, BatchLocked
  <2>5. \A r \in rows, s \in outbox : r.id = s.id => Moved(r) = s
    BY <1>t, <2>3 DEF RowLocks, MailInv, Numbered, OutboxTaken, TypeOK
  <2>6. \A r \in rows, s \in outbox : worker.pc = "publish" => r.id # s.id
    BY DEF MailInv, Numbered, OutboxTaken
  <2> HIDE DEF Moved
  <2>7. Numbered'
    BY <2>1, <2>2, <2>5 DEF MailInv, Numbered
  <2>8. EmailedOnce'
    BY <2>1, <2>2 DEF MailInv, EmailedOnce, Ids
  <2>9. BatchLocked' /\ OutboxTaken'
    BY <2>1, <2>2, <2>4, <2>6 DEF MailInv, BatchLocked, OutboxTaken
  <2> QED
    BY <1>t, <2>7, <2>8, <2>9 DEF MailInv
<1>16. CASE Tick
  BY <1>1, <1>16 DEF Tick
<1>17. CASE UNCHANGED vars
  BY <1>1, <1>17 DEF vars
<1> QED
  BY <1>4, <1>5, <1>6, <1>7, <1>8, <1>9, <1>10, <1>13, <1>14, <1>15, <1>16, <1>17
  DEF Next, Work, maybe_send_batched_emails, Others

(* No primary key is emailed twice, for any users, messages and periods,   *)
(* with rollbacks, crashes, stop signals and deletions at any step.        *)
THEOREM NobodyEmailedTwice == Spec => []EmailedOnce
<1>1. Init => MailInv
  BY InitTypeOK DEF Init, MailInv, Numbered, BatchLocked, OutboxTaken, EmailedOnce, Ids,
                    WorkerAt
<1>2. MailInv => EmailedOnce
  BY DEF MailInv
<1> QED
  BY <1>1, <1>2, StepMailInv, PTL DEF Spec

(***************************************************************************)
(* Why a row leaves the table.                                             *)
(***************************************************************************)
\* the time a transaction compares with was read from a clock that goes on
Clock == worker.current_time <= now

LEMMA StepClock == TypeOK /\ Clock /\ [Next]_vars => Clock'
<1> SUFFICES ASSUME TypeOK, Clock, [Next]_vars
             PROVE  Clock'
  OBVIOUS
<1> USE DEF environment, process, condition, table, mail
<1>1. now \in Nat /\ worker.current_time \in Nat
  BY DEF TypeOK
<1>2. now' = now \/ now' = now + 1
  BY DEF Next, Consume, ReadPending, Acquire, Create, Notify, SkipDeleted, ConsumeFails,
         Acknowledge, Deliver, Work, background_loop, Wake, WaitTimesOut,
         maybe_send_batched_emails, Select, Handle, DeleteBatch, Publish, Abort, Backoff,
         BackoffEnds, Supervise, Stop, Exit, ProcessEnds, JoinTimesOut, Crash, Start, Others,
         Tick, DeleteMessage, update_scheduled_email_notifications_time, vars
<1>3. worker'.current_time \in {0, worker.current_time, now}
  <2>1. CASE Handle
    BY <2>1 DEF Handle, TypeOK
  <2>2. CASE Select
    BY <2>2 DEF Select
  <2>3. ASSUME NEW pc, Step(pc) PROVE worker'.current_time = 0
    BY <2>3 DEF Step, WorkerAt
  <2>4. CASE ProcessEnds
    BY <2>4 DEF ProcessEnds, WorkerAt
  <2>5. ASSUME UNCHANGED worker PROVE worker'.current_time = worker.current_time
    BY <2>5
  <2> QED
    BY <2>1, <2>2, <2>3, <2>4, <2>5
    DEF Next, Consume, ReadPending, Acquire, Create, Notify, SkipDeleted, ConsumeFails,
        Acknowledge, Deliver, Work, background_loop, Wake, WaitTimesOut,
        maybe_send_batched_emails, DeleteBatch, Publish, Abort, Backoff,
        BackoffEnds, Supervise, Stop, Exit, JoinTimesOut, Crash, Start, Others,
        Tick, DeleteMessage, update_scheduled_email_notifications_time, vars
<1> QED
  BY <1>1, <1>2, <1>3 DEF Clock

(* A row leaves the table only with its message, or in the DELETE of a     *)
(* batch, and then it is due (maybe_send_batched_emails): whatever is      *)
(* inserted, rescheduled, rolled back or restarted meanwhile, no pending   *)
(* notification goes before its time, emailed or not.                      *)
RowsLeaveWhenDue ==
    [][\A r \in rows :
         \/ r.id \in Ids(rows')
         \/ r.message \in deleted'
         \/ worker.pc = "delete" /\ r.scheduled <= now]_vars

THEOREM NothingLeavesEarly == Spec => RowsLeaveWhenDue
<1> USE DEF environment, process, condition, table, mail
<1>1. ASSUME TypeOK, Clock, [Next]_vars, NEW r \in rows
      PROVE  \/ r.id \in Ids(rows')
             \/ r.message \in deleted'
             \/ worker.pc = "delete" /\ r.scheduled <= now
  <2>1. CASE DeleteBatch
    <3>1. r.scheduled \in Int /\ worker.current_time \in Int /\ now \in Int
      BY <1>1 DEF TypeOK, RowType
    <3>2. r \notin rows' => r.scheduled <= worker.current_time
      BY <2>1 DEF DeleteBatch, Due
    <3> QED
      BY <1>1, <2>1, <3>1, <3>2 DEF DeleteBatch, Clock, Ids
  <2>2. ASSUME NEW m \in Messages, DeleteMessage(m)
        PROVE  r.id \in Ids(rows') \/ r.message \in deleted'
    BY <2>2 DEF DeleteMessage, Ids
  <2>3. ASSUME NEW u \in Users, NEW new \in Periods,
               update_scheduled_email_notifications_time(u, new)
        PROVE  r.id \in Ids(rows')
    <3> DEFINE Moved(s) == IF User(s) = u
                           THEN [s EXCEPT !.scheduled = @ + (new - period[u])] ELSE s
    <3>1. rows' = {Moved(s) : s \in rows}
      BY <2>3 DEF update_scheduled_email_notifications_time
    <3>2. Moved(r).id = r.id
      BY <1>1 DEF TypeOK, RowType
    <3> HIDE DEF Moved
    <3> QED
      BY <3>1, <3>2 DEF Ids
  <2>4. ASSUME rows \subseteq rows' PROVE r.id \in Ids(rows')
    BY <2>4 DEF Ids
  <2> QED
    BY <1>1, <2>1, <2>2, <2>3, <2>4
    DEF Next, Consume, ReadPending, Acquire, Create, Notify, SkipDeleted, ConsumeFails,
        Acknowledge, Deliver, Work, background_loop, Wake, WaitTimesOut,
        maybe_send_batched_emails, Select, Handle, Publish, Abort, Backoff,
        BackoffEnds, Supervise, Stop, Exit, ProcessEnds, JoinTimesOut, Crash, Start, Others,
        Tick, vars
<1>2. TypeOK /\ Clock /\ [Next]_vars =>
        [\A r \in rows :
           \/ r.id \in Ids(rows')
           \/ r.message \in deleted'
           \/ worker.pc = "delete" /\ r.scheduled <= now]_vars
  BY <1>1
<1>3. Init => Clock
  BY DEF Init, Clock, WorkerAt
<1> QED
  BY <1>2, <1>3, TypeCorrect, StepClock, PTL DEF Spec, RowsLeaveWhenDue

(* An email is composed only of rows that are due, and queued only once    *)
(* the transaction that took them out of the table has committed.          *)
EmailsAreDue ==
    /\ \A r \in outbox : r.scheduled <= now
    /\ worker.pc = "publish" => outbox \cap rows = {}

DueInv ==
    /\ MailInv /\ Clock
    /\ \A r \in outbox : r.scheduled <= now

THEOREM NothingEmailedEarly == Spec => []EmailsAreDue
<1> USE DEF environment, process, condition, table, mail
<1>1. DueInv /\ [Next]_vars => DueInv'
  <2> SUFFICES ASSUME DueInv, [Next]_vars PROVE DueInv'
    OBVIOUS
  <2>1. MailInv' /\ Clock'
    BY StepMailInv, StepClock DEF DueInv, MailInv
  <2>2. now \in Int /\ now' \in Int /\ worker.current_time \in Int
        /\ \A r \in rows : r.scheduled \in Int
    BY <2>1 DEF DueInv, MailInv, TypeOK, RowType
  <2>3. CASE Handle
    <3>1. outbox' \subseteq worker.batch /\ worker.pc = "handle" /\ now' = now
      BY <2>3 DEF Handle
    <3>2. \A r \in worker.batch : r \in rows /\ r.scheduled <= worker.current_time
      BY <3>1 DEF DueInv, MailInv, BatchLocked
    <3> QED
      BY <2>1, <2>2, <3>1, <3>2 DEF DueInv, Clock
  <2>4. CASE Tick
    <3>1. outbox' = outbox /\ now' = now + 1
      BY <2>4 DEF Tick
    <3>2. \A r \in outbox : r.scheduled \in Int
      BY DEF DueInv, MailInv, TypeOK, RowType
    <3> QED
      BY <2>1, <2>2, <3>1, <3>2 DEF DueInv
  <2>5. ASSUME outbox' \subseteq outbox, now' = now PROVE DueInv'
    BY <2>1, <2>5 DEF DueInv
  <2> QED
    BY <2>3, <2>4, <2>5
    DEF Next, Consume, ReadPending, Acquire, Create, Notify, SkipDeleted, ConsumeFails,
        Acknowledge, Deliver, Work, background_loop, Wake, WaitTimesOut,
        maybe_send_batched_emails, Select, DeleteBatch, Publish, Abort, Backoff,
        BackoffEnds, Supervise, Stop, Exit, ProcessEnds, JoinTimesOut, Crash, Start, Others,
        DeleteMessage, update_scheduled_email_notifications_time, vars
<1>2. Init => DueInv
  BY InitTypeOK DEF Init, DueInv, Clock, MailInv, Numbered, BatchLocked, OutboxTaken,
                    EmailedOnce, Ids, WorkerAt
<1>3. DueInv => EmailsAreDue
  BY DEF DueInv, EmailsAreDue, MailInv, OutboxTaken
<1> QED
  BY <1>1, <1>2, <1>3, PTL DEF Spec
=============================================================================
