------------------------- MODULE ScheduledMessages -------------------------
(***************************************************************************)
(* Messages to be sent later, and reminders: the table ScheduledMessage,   *)
(* the requests that schedule, edit and delete                             *)
(* (zerver/actions/scheduled_messages.py), and the command                 *)
(* deliver_scheduled_messages, whose loop sends what is due, one message   *)
(* per transaction.                                                        *)
(*                                                                         *)
(* An edit reads its row without a lock, and writes all of the row later;  *)
(* the deliverer locks the row it sends until its transaction ends.        *)
(***************************************************************************)
EXTENDS Integers

CONSTANTS
    Messages,       \* primary keys of the table
    Reminders,      \* those whose delivery_type is REMIND
    Poison,         \* those for which do_send_messages raises
    Editors,        \* requests that may edit at the same time
    Deliverers,     \* processes that run deliver_scheduled_messages
    Cutoff,         \* SCHEDULED_MESSAGE_LATE_CUTOFF_MINUTES
    MaxTime,        \* bound on the clock
    MaxSaves,       \* bound on how often the sender saves one message
    MaxCrashes      \* bound on crashes of deliverers

ASSUME ScheduledAssumption ==
    /\ Messages \subseteq Nat \ {0}
    /\ Reminders \subseteq Messages /\ Poison \subseteq Messages
    /\ Cutoff \in Nat /\ MaxTime \in Nat
    /\ MaxSaves \in Nat /\ MaxCrashes \in Nat

VARIABLES
    now,
    table,          \* the row of each primary key
    editor,         \* edits under way: the row as read and changed
    deliverer,      \* deliverers, with the row each is sending
    saved,          \* how often the sender has saved each message
    sent,           \* how often it was sent, as saved for the n-th time
    deleted,        \* messages deleted while nobody was editing them
    crashes

vars == <<now, table, editor, deliverer, saved, sent, deleted, crashes>>

None == 0

\* a due time late enough to be missed and still be dealt with by MaxTime
LastDue == MaxTime - Cutoff - 1

NoRow == [present |-> FALSE, delivered |-> FALSE, failed |-> FALSE, due |-> 0, save |-> 0]

\* the row that the sender's n-th save of a message inserts or overwrites
SavedRow(due, n) ==
    [present |-> TRUE, delivered |-> FALSE, failed |-> FALSE, due |-> due, save |-> n]

NoEdit == [message |-> None, due |-> 0]
Deliverer(pc) == [pc |-> pc, message |-> None, row |-> NoRow]

Edited == {editor[e].message : e \in Editors}

\* mutant: the deliverer selects without locking
LockedNever == {}

\* rows locked by select_for_update until the transaction of a deliverer ends
Locked == {deliverer[d].message : d \in Deliverers}

(***************************************************************************)
(* The requests of the sender.                                             *)
(***************************************************************************)
check_schedule_message(m) ==
    /\ saved[m] = 0 /\ MaxSaves > 0
    /\ \E due \in now + 1 .. LastDue :
         table' = [table EXCEPT ![m] = SavedRow(due, 1)]
    /\ saved' = [saved EXCEPT ![m] = 1]
    /\ UNCHANGED <<now, editor, deliverer, sent, deleted, crashes>>

\* the checks of the view and the action: the message was not sent, and if
\* it failed it gets a new time; all that is kept of the row read is its time
BeginEdit(e, m) ==
    /\ editor[e] = NoEdit
    /\ m \notin Reminders
    /\ table[m].present /\ ~ table[m].delivered
    /\ \E due \in (now + 1 .. LastDue)
                    \cup (IF table[m].failed THEN {} ELSE {table[m].due}) :
         editor' = [editor EXCEPT ![e] = [message |-> m, due |-> due]]
    /\ UNCHANGED <<now, table, deliverer, saved, sent, deleted, crashes>>

\* check_message refuses the edited message
EditRefused(e) ==
    /\ editor[e] # NoEdit
    /\ editor' = [editor EXCEPT ![e] = NoEdit]
    /\ UNCHANGED <<now, table, deliverer, saved, sent, deleted, crashes>>

\* save: an UPDATE of all fields, which waits for the lock, and if the row
\* is gone an INSERT with its primary key
SaveEdit(e) ==
    LET m == editor[e].message IN
    /\ editor[e] # NoEdit
    /\ m \notin Locked
    /\ saved[m] < MaxSaves
    /\ saved' = [saved EXCEPT ![m] = @ + 1]
    /\ table' = [table EXCEPT ![m] = SavedRow(editor[e].due, saved[m] + 1)]
    /\ editor' = [editor EXCEPT ![e] = NoEdit]
    /\ UNCHANGED <<now, deliverer, sent, deleted, crashes>>

\* mutant: the row is only hidden from the deliverer
DeleteHides(m) ==
    /\ table[m].present /\ ~ table[m].failed
    /\ m \notin Locked
    /\ table' = [table EXCEPT ![m].failed = TRUE]
    /\ deleted' = IF m \in Edited THEN deleted ELSE deleted \cup {m}
    /\ UNCHANGED <<now, editor, deliverer, saved, sent, crashes>>

\* delete_scheduled_message and do_delete_reminder, delivered or not
Delete(m) ==
    /\ table[m].present
    /\ m \notin Locked
    /\ table' = [table EXCEPT ![m] = NoRow]
    /\ deleted' = IF m \in Edited THEN deleted ELSE deleted \cup {m}
    /\ UNCHANGED <<now, editor, deliverer, saved, sent, crashes>>

(***************************************************************************)
(* try_deliver_one_scheduled_message, in the loop of the command.          *)
(***************************************************************************)
Due == {m \in Messages : /\ table[m].present
                         /\ ~ table[m].delivered /\ ~ table[m].failed
                         /\ table[m].due <= now}

\* `first' orders by primary key; the query waits for a row that is locked
\* and takes it only if it still qualifies
SelectDue(d) ==
    /\ deliverer[d].pc = "loop"
    /\ \E m \in Due \ Locked :
         /\ \A other \in Due : m <= other
         /\ deliverer' = [deliverer EXCEPT ![d] =
                            [pc |-> "send", message |-> m, row |-> table[m]]]
    /\ UNCHANGED <<now, table, editor, saved, sent, deleted, crashes>>

\* mutant: no limit on how late a message is sent
TooLateNever(d) == FALSE

TooLate(d) ==
    /\ deliverer[d].message \notin Reminders
    /\ now > deliverer[d].row.due + Cutoff

\* send_scheduled_message and send_reminder: the message and the flag, in
\* one transaction; a reminder that cannot be sent counts as delivered
MarkDelivered(d, n) ==
    LET m == deliverer[d].message IN
    /\ table' = [table EXCEPT ![m].delivered = TRUE]
    /\ sent' = [sent EXCEPT ![m][deliverer[d].row.save] = @ + n]
    /\ deliverer' = [deliverer EXCEPT ![d] = Deliverer("loop")]
    /\ UNCHANGED <<now, editor, saved, deleted, crashes>>

Send(d) ==
    /\ deliverer[d].pc = "send" /\ ~ TooLate(d)
    /\ deliverer[d].message \notin Poison
    /\ \/ MarkDelivered(d, 1)
       \/ deliverer[d].message \in Reminders /\ MarkDelivered(d, 0)

MarkFailed(d) ==
    /\ table' = [table EXCEPT ![deliverer[d].message].failed = TRUE]
    /\ deliverer' = [deliverer EXCEPT ![d] = Deliverer("loop")]
    /\ UNCHANGED <<now, editor, saved, sent, deleted, crashes>>

FailLate(d) ==
    /\ deliverer[d].pc = "send" /\ TooLate(d)
    /\ MarkFailed(d)

\* the realm or the sender is deactivated, check_message refuses, or
\* something raises before do_send_messages
Refuse(d) ==
    /\ deliverer[d].pc = "send"
    /\ MarkFailed(d)

\* do_send_messages raises: it has no savepoint, so the handler of the
\* exception cannot query, the transaction is rolled back, and the command ends
SendRaises(d) ==
    /\ deliverer[d].pc = "send" /\ ~ TooLate(d)
    /\ deliverer[d].message \in Poison
    /\ deliverer' = [deliverer EXCEPT ![d] = Deliverer("down")]
    /\ UNCHANGED <<now, table, editor, saved, sent, deleted, crashes>>

Crash(d) ==
    /\ deliverer[d].pc # "down" /\ crashes < MaxCrashes
    /\ crashes' = crashes + 1
    /\ deliverer' = [deliverer EXCEPT ![d] = Deliverer("down")]
    /\ UNCHANGED <<now, table, editor, saved, sent, deleted>>

\* by supervisor
Restart(d) ==
    /\ deliverer[d].pc = "down"
    /\ deliverer' = [deliverer EXCEPT ![d] = Deliverer("loop")]
    /\ UNCHANGED <<now, table, editor, saved, sent, deleted, crashes>>

Tick ==
    /\ now < MaxTime
    /\ now' = now + 1
    /\ UNCHANGED <<table, editor, deliverer, saved, sent, deleted, crashes>>

Init ==
    /\ now = 0
    /\ table = [m \in Messages |-> NoRow]
    /\ editor = [e \in Editors |-> NoEdit]
    /\ deliverer = [d \in Deliverers |-> Deliverer("loop")]
    /\ saved = [m \in Messages |-> 0]
    /\ sent = [m \in Messages |-> [n \in 1 .. MaxSaves |-> 0]]
    /\ deleted = {}
    /\ crashes = 0

Requests ==
    \/ \E m \in Messages : check_schedule_message(m) \/ Delete(m)
    \/ \E e \in Editors : EditRefused(e) \/ SaveEdit(e)
    \/ \E e \in Editors, m \in Messages : BeginEdit(e, m)

Attempt(d) == Send(d) \/ FailLate(d) \/ SendRaises(d)

Deliver == \E d \in Deliverers :
    SelectDue(d) \/ Attempt(d) \/ Refuse(d) \/ Crash(d) \/ Restart(d)

Next == Requests \/ Deliver \/ Tick

Spec == Init /\ [][Next]_vars

(***************************************************************************)
(* Fairness: the command goes on, supervisor restarts it, and time passes. *)
(* Nobody has to schedule, edit or delete, and nothing has to be refused.  *)
(***************************************************************************)
Fairness ==
    /\ \A d \in Deliverers :
         WF_vars(SelectDue(d)) /\ WF_vars(Attempt(d)) /\ WF_vars(Restart(d))
    /\ WF_vars(Tick)

FairSpec == Spec /\ Fairness

(***************************************************************************)
(* Properties.                                                             *)
(***************************************************************************)
Times == 0 .. MaxTime
RowType == [present : BOOLEAN, delivered : BOOLEAN, failed : BOOLEAN,
            due : Times, save : 0 .. MaxSaves]

TypeOK ==
    /\ now \in Times
    /\ table \in [Messages -> RowType]
    /\ editor \in [Editors -> [message : Messages \cup {None}, due : Times]]
    /\ deliverer \in [Deliverers -> [pc : {"loop", "send", "down"},
                                     message : Messages \cup {None}, row : RowType]]
    /\ saved \in [Messages -> 0 .. MaxSaves]
    /\ sent \in [Messages -> [1 .. MaxSaves -> Nat]]
    /\ deleted \subseteq Messages
    /\ crashes \in 0 .. MaxCrashes

(* The flag of a row tells whether the message was sent as its sender last *)
(* saved it, and it is sent once at most, whatever crashes, is rolled back *)
(* or runs beside: `deliver_scheduled_messages` does "not double-deliver   *)
(* if run on multiple servers at once" (docs/overview/changelog.md).       *)
DeliveredIffSent ==
    \A m \in Messages :
        /\ \A n \in 1 .. MaxSaves : sent[m][n] <= 1
        /\ (table[m].present /\ m \notin Reminders)
             => (table[m].delivered <=> sent[m][table[m].save] = 1)

(* An edit that was accepted is honoured: what is sent is the row as its   *)
(* sender saved it last, and not before the time this row says.            *)
SendsWhatIsSaved ==
    [][\A m \in Messages : \A n \in 1 .. MaxSaves :
         sent'[m][n] # sent[m][n]
            => /\ table[m].present /\ table[m].save = n
               /\ ~ table[m].delivered /\ ~ table[m].failed
               /\ table[m].due <= now]_vars

(* A message whose deletion was confirmed is not sent afterwards, unless   *)
(* an edit was under way when it was deleted.                              *)
DeletedIsNotSent == [][\A m \in deleted : sent'[m] = sent[m]]_vars

(* What is due does not stay so: it is sent or fails, whatever crashes and *)
(* although a message that cannot be sent stands before it in the queue.   *)
DueIsDecided == \A m \in Messages : (m \in Due) ~> (m \notin Due)

(* "Scheduled message was already sent", the check of                      *)
(* edit_scheduled_message and its comment, "Handles the race between us    *)
(* initiating this transaction and user sending us the edit request": what *)
(* was sent does not become a message to be sent again.                    *)
SentIsFinal ==
    [][\A m \in Messages :
         table[m].delivered => (table'[m].delivered \/ ~ table'[m].present)]_vars
=============================================================================
