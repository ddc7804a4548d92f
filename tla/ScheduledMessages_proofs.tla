---------------------- MODULE ScheduledMessages_proofs ----------------------
(***************************************************************************)
(* Proofs about scheduled messages: a row's flag tells whether it was      *)
(* sent, what is sent is what was saved last, and what was deleted is not  *)
(* sent.                                                                   *)
(***************************************************************************)
EXTENDS ScheduledMessages, TLAPS

(***************************************************************************)
(* Types.                                                                  *)
(***************************************************************************)
LEMMA RowsTyped ==
  /\ NoRow \in RowType
  /\ \A due \in Times, n \in 0 .. MaxSaves : SavedRow(due, n) \in RowType
  BY ScheduledAssumption DEF NoRow, SavedRow, RowType, Times

LEMMA DuesTyped == now \in Times => now + 1 .. LastDue \subseteq Times
  BY ScheduledAssumption DEF LastDue, Times

LEMMA DelivererTyped ==
  ASSUME NEW pc \in {"loop", "send", "down"}
  PROVE  Deliverer(pc) \in [pc : {"loop", "send", "down"},
                            message : Messages \cup {None}, row : RowType]
  BY RowsTyped DEF Deliverer

LEMMA CountTyped ==
  ASSUME NEW f \in [1 .. MaxSaves -> Nat], NEW k, NEW n \in Nat
  PROVE  [f EXCEPT ![k] = f[k] + n] \in [1 .. MaxSaves -> Nat]
<1>1. CASE k \in 1 .. MaxSaves
  <2>1. f[k] + n \in Nat
    BY <1>1
  <2> QED
    BY <1>1, <2>1
<1>2. CASE k \notin 1 .. MaxSaves
  BY <1>2
<1> QED
  BY <1>1, <1>2

LEMMA InitTypeOK == Init => TypeOK
<1> SUFFICES ASSUME Init
             PROVE  TypeOK
  OBVIOUS
<1>1. now \in Times /\ saved \in [Messages -> 0 .. MaxSaves] /\ crashes \in 0 .. MaxCrashes
  BY ScheduledAssumption DEF Init, Times
<1>2. table \in [Messages -> RowType]
  BY RowsTyped DEF Init
<1>3. editor \in [Editors -> [message : Messages \cup {None}, due : Times]]
  BY ScheduledAssumption DEF Init, NoEdit, Times
<1>4. deliverer \in [Deliverers -> [pc : {"loop", "send", "down"},
                                    message : Messages \cup {None}, row : RowType]]
  BY DelivererTyped DEF Init
<1>5. sent \in [Messages -> [1 .. MaxSaves -> Nat]] /\ deleted \subseteq Messages
  BY DEF Init
<1> QED
  BY <1>1, <1>2, <1>3, <1>4, <1>5 DEF TypeOK

LEMMA StepTypeOK == TypeOK /\ [Next]_vars => TypeOK'
<1> SUFFICES ASSUME TypeOK, [Next]_vars
             PROVE  TypeOK'
  OBVIOUS
<1> USE DEF TypeOK
<1>1. ASSUME NEW m \in Messages, check_schedule_message(m) PROVE TypeOK'
  <2>1. PICK due \in now + 1 .. LastDue : table' = [table EXCEPT ![m] = SavedRow(due, 1)]
    BY <1>1 DEF check_schedule_message
  <2>2. SavedRow(due, 1) \in RowType
    BY <1>1, <2>1, RowsTyped, DuesTyped, ScheduledAssumption DEF check_schedule_message
  <2>3. 1 \in 0 .. MaxSaves
    BY <1>1, ScheduledAssumption DEF check_schedule_message
  <2> QED
    BY <1>1, <2>1, <2>2, <2>3 DEF check_schedule_message
<1>2. ASSUME NEW e \in Editors, NEW m \in Messages, BeginEdit(e, m) PROVE TypeOK'
  <2>1. PICK due \in (now + 1 .. LastDue)
                        \cup (IF table[m].failed THEN {} ELSE {table[m].due}) :
           editor' = [editor EXCEPT ![e] = [message |-> m, due |-> due]]
    BY <1>2 DEF BeginEdit
  <2>2. due \in Times
    BY <2>1, DuesTyped DEF RowType
  <2> QED
    BY <1>2, <2>1, <2>2 DEF BeginEdit
<1>3. ASSUME NEW e \in Editors, EditRefused(e) PROVE TypeOK'
  BY <1>3, ScheduledAssumption DEF EditRefused, NoEdit, Times
<1>4. ASSUME NEW e \in Editors, SaveEdit(e) PROVE TypeOK'
  <2>1. editor' \in [Editors -> [message : Messages \cup {None}, due : Times]]
    BY <1>4, ScheduledAssumption DEF SaveEdit, NoEdit, Times
  <2>2. \A m \in Messages : saved[m] < MaxSaves => saved[m] + 1 \in 0 .. MaxSaves
    BY ScheduledAssumption
  <2>3. saved' \in [Messages -> 0 .. MaxSaves]
    BY <1>4, <2>2 DEF SaveEdit
  <2>4. table' \in [Messages -> RowType]
    <3>1. editor[e].due \in Times
      OBVIOUS
    <3> QED
      BY <1>4, <2>2, <3>1, RowsTyped DEF SaveEdit
  <2> QED
    BY <1>4, <2>1, <2>3, <2>4 DEF SaveEdit
<1>5. ASSUME NEW m \in Messages, Delete(m) PROVE TypeOK'
  BY <1>5, RowsTyped DEF Delete
<1>6. ASSUME NEW d \in Deliverers, SelectDue(d) PROVE TypeOK'
  BY <1>6 DEF SelectDue, Due
<1>7. ASSUME NEW d \in Deliverers, Send(d) PROVE TypeOK'
  <2>1. PICK n \in Nat : MarkDelivered(d, n)
    BY <1>7 DEF Send
  <2>2. deliverer' \in [Deliverers -> [pc : {"loop", "send", "down"},
                                       message : Messages \cup {None}, row : RowType]]
    BY <2>1, DelivererTyped DEF MarkDelivered
  <2>3. table' \in [Messages -> RowType]
    BY <2>1 DEF MarkDelivered, RowType
  <2>4. sent' \in [Messages -> [1 .. MaxSaves -> Nat]]
    <3>1. PICK m, k : sent' = [sent EXCEPT ![m][k] = sent[m][k] + n]
      BY <2>1 DEF MarkDelivered
    <3>2. ASSUME NEW i \in Messages
          PROVE  [sent[i] EXCEPT ![k] = sent[i][k] + n] \in [1 .. MaxSaves -> Nat]
      <4>1. sent[i] \in [1 .. MaxSaves -> Nat]
        OBVIOUS
      <4> QED
        BY <4>1, CountTyped
    <3>3. m \in Messages => [sent[m] EXCEPT ![k] = sent[m][k] + n] \in [1 .. MaxSaves -> Nat]
      BY <3>2
    <3> HIDE DEF TypeOK
    <3>4. sent \in [Messages -> [1 .. MaxSaves -> Nat]]
      BY DEF TypeOK
    <3> QED
      BY <3>1, <3>3, <3>4
  <2> QED
    BY <2>1, <2>2, <2>3, <2>4 DEF MarkDelivered
<1>8. ASSUME NEW d \in Deliverers, MarkFailed(d) PROVE TypeOK'
  BY <1>8, DelivererTyped DEF MarkFailed, RowType
<1>9. ASSUME NEW d \in Deliverers, SendRaises(d) \/ Restart(d) PROVE TypeOK'
  BY <1>9, DelivererTyped DEF SendRaises, Restart
<1>10. ASSUME NEW d \in Deliverers, Crash(d) PROVE TypeOK'
  BY <1>10, DelivererTyped, ScheduledAssumption DEF Crash
<1>11. CASE Tick
  BY <1>11, ScheduledAssumption DEF Tick, Times
<1>12. CASE UNCHANGED vars
  BY <1>12 DEF vars
<1> QED
  BY <1>1, <1>2, <1>3, <1>4, <1>5, <1>6, <1>7, <1>8, <1>9, <1>10, <1>11, <1>12
  DEF Next, Requests, Deliver, Attempt, FailLate, Refuse

(* Every variable keeps its type, for every table, set of deliverers and   *)
(* bound.                                                                  *)
THEOREM TypeCorrect == Spec => []TypeOK
<1> QED
  BY InitTypeOK, StepTypeOK, PTL DEF Spec

(***************************************************************************)
(* The row lock.  A deliverer that sends a row holds it as the table has   *)
(* it, still to be sent and due; no two send the same row.                 *)
(***************************************************************************)
Pending(m) ==
    /\ table[m].present /\ ~ table[m].delivered /\ ~ table[m].failed
    /\ table[m].due <= now

HoldsRow(d) ==
    IF deliverer[d].pc = "send"
    THEN /\ deliverer[d].message \in Messages
         /\ deliverer[d].row = table[deliverer[d].message]
         /\ Pending(deliverer[d].message)
    ELSE deliverer[d].message = None

LockInv ==
    /\ \A d \in Deliverers : HoldsRow(d)
    /\ \A d, other \in Deliverers :
         (d # other /\ deliverer[d].pc = "send")
            => deliverer[d].message # deliverer[other].message

\* a row is as it was saved last, and its flags agree with what was sent
CountsOf(m) ==
    /\ \A n \in 1 .. MaxSaves :
         /\ sent[m][n] <= 1
         /\ n > saved[m] => sent[m][n] = 0
    /\ table[m].present =>
         /\ table[m].save = saved[m] /\ saved[m] \in 1 .. MaxSaves
         /\ ~ table[m].delivered => sent[m][saved[m]] = 0
         /\ (table[m].delivered /\ m \notin Reminders) => sent[m][saved[m]] = 1

\* what is being edited was scheduled, and what was deleted stays deleted
EditInv ==
    /\ \A e \in Editors : editor[e] # NoEdit =>
         editor[e].message \in Messages /\ saved[editor[e].message] > 0
    /\ \A m \in deleted :
         ~ table[m].present /\ saved[m] > 0 /\ m \notin Edited

Inv ==
    /\ TypeOK
    /\ LockInv
    /\ \A m \in Messages : CountsOf(m)
    /\ EditInv

LEMMA InitInv == Init => Inv
<1> SUFFICES ASSUME Init
             PROVE  Inv
  OBVIOUS
<1>1. TypeOK
  BY InitTypeOK
<1>2. LockInv
  BY DEF Init, LockInv, HoldsRow, Deliverer
<1>3. \A m \in Messages : CountsOf(m)
  <2> SUFFICES ASSUME NEW m \in Messages
               PROVE  CountsOf(m)
    OBVIOUS
  <2>1. sent[m] = [n \in 1 .. MaxSaves |-> 0]
    BY DEF Init
  <2>2. ~ table[m].present
    BY DEF Init, NoRow
  <2> QED
    BY <2>1, <2>2 DEF CountsOf
<1>4. EditInv
  BY DEF Init, EditInv
<1> QED
  BY <1>1, <1>2, <1>3, <1>4 DEF Inv

\* None is no message, and locked are exactly the rows being sent
LEMMA LockedRows ==
  ASSUME TypeOK, LockInv
  PROVE  /\ None \notin Messages
         /\ \A m \in Messages \ Locked : \A d \in Deliverers :
              deliverer[d].pc = "send" => deliverer[d].message # m
  BY ScheduledAssumption DEF None, Locked

LEMMA StepLocks == Inv /\ [Next]_vars => LockInv'
<1> SUFFICES ASSUME Inv, [Next]_vars
             PROVE  LockInv'
  OBVIOUS
<1> USE DEF Inv
<1>a. now \in Int /\ \A m \in Messages : table[m].due \in Int
  BY DEF TypeOK, RowType, Times
\* the requests do not change a locked row
<1>1. ASSUME NEW m \in Messages, m \notin Locked,
             \A other \in Messages \ {m} : table'[other] = table[other],
             UNCHANGED <<now, deliverer>>
      PROVE  LockInv'
  <2>1. \A d \in Deliverers : deliverer[d].pc = "send" => deliverer[d].message # m
    BY <1>1, LockedRows
  <2>2. \A d \in Deliverers : HoldsRow(d)'
    BY <1>1, <2>1 DEF LockInv, HoldsRow, Pending
  <2> QED
    BY <1>1, <2>2 DEF LockInv
<1>2. ASSUME UNCHANGED <<now, table, deliverer>> PROVE LockInv'
  BY <1>2 DEF LockInv, HoldsRow, Pending
\* the end of a transaction
<1>3. ASSUME NEW d \in Deliverers, NEW pc \in {"loop", "down"},
             deliverer' = [deliverer EXCEPT ![d] = Deliverer(pc)],
             \A m \in Messages \ {deliverer[d].message} : table'[m] = table[m],
             now' = now
      PROVE  LockInv'
  <2>1. deliverer'[d].pc = pc /\ deliverer'[d].message = None
    BY <1>3 DEF TypeOK, Deliverer
  <2>2. \A other \in Deliverers \ {d} : deliverer'[other] = deliverer[other]
    BY <1>3 DEF TypeOK
  <2>3. HoldsRow(d)'
    BY <2>1 DEF HoldsRow
  <2>4. ASSUME NEW other \in Deliverers \ {d} PROVE HoldsRow(other)'
    <3>1. HoldsRow(other)
      BY DEF LockInv
    <3>2. deliverer[other].pc = "send" =>
             /\ deliverer[other].message \in Messages
             /\ deliverer[other].message # deliverer[d].message
      BY <3>1 DEF LockInv, HoldsRow
    <3> QED
      BY <1>3, <2>2, <3>1, <3>2 DEF HoldsRow, Pending
  <2>5. ASSUME NEW x \in Deliverers, NEW y \in Deliverers, x # y, deliverer'[x].pc = "send"
        PROVE  deliverer'[x].message # deliverer'[y].message
    <3>1. x # d
      BY <1>3, <2>1, <2>5
    <3>2. deliverer[x].message \in Messages
      BY <2>2, <2>5, <3>1 DEF LockInv, HoldsRow
    <3> QED
      BY <2>1, <2>2, <2>5, <3>1, <3>2, LockedRows DEF LockInv
  <2> QED
    BY <2>3, <2>4, <2>5 DEF LockInv
<1>4. ASSUME NEW m \in Messages, check_schedule_message(m) PROVE LockInv'
  <2>1. m \notin Locked
    BY <1>4, LockedRows DEF CountsOf, check_schedule_message, LockInv, HoldsRow, Locked, Pending
  <2> QED
    BY <1>1, <1>4, <2>1 DEF check_schedule_message, TypeOK
<1>5. ASSUME NEW m \in Messages, Delete(m) PROVE LockInv'
  BY <1>1, <1>5 DEF Delete, TypeOK
<1>6. ASSUME NEW e \in Editors, SaveEdit(e) PROVE LockInv'
  <2>1. editor[e].message \in Messages
    BY <1>6 DEF SaveEdit, EditInv
  <2> QED
    BY <1>1, <1>6, <2>1 DEF SaveEdit, TypeOK
<1>7. ASSUME NEW e \in Editors, EditRefused(e) \/ \E m \in Messages : BeginEdit(e, m)
      PROVE  LockInv'
  BY <1>2, <1>7 DEF EditRefused, BeginEdit
<1>8. ASSUME NEW d \in Deliverers, SelectDue(d) PROVE LockInv'
  <2>1. PICK m \in Due \ Locked :
           deliverer' = [deliverer EXCEPT ![d] =
                           [pc |-> "send", message |-> m, row |-> table[m]]]
    BY <1>8 DEF SelectDue
  <2>2. m \in Messages /\ Pending(m)
    BY <2>1 DEF Due, Pending
  <2>3. deliverer'[d] = [pc |-> "send", message |-> m, row |-> table[m]]
    BY <2>1 DEF TypeOK
  <2>4. \A other \in Deliverers \ {d} : deliverer'[other] = deliverer[other]
    BY <2>1 DEF TypeOK
  <2>5. UNCHANGED <<now, table>>
    BY <1>8 DEF SelectDue
  <2>6. HoldsRow(d)'
    BY <2>2, <2>3, <2>5 DEF HoldsRow, Pending
  <2>7. \A other \in Deliverers \ {d} : HoldsRow(other)'
    BY <2>4, <2>5 DEF LockInv, HoldsRow, Pending
  <2>8. \A other \in Deliverers : deliverer[other].message # m
    BY <2>1 DEF Locked
  <2> QED
    BY <2>3, <2>4, <2>6, <2>7, <2>8 DEF LockInv
<1>9. ASSUME NEW d \in Deliverers, Send(d) PROVE LockInv'
  <2>1. PICK n \in Nat : MarkDelivered(d, n)
    BY <1>9 DEF Send
  <2> QED
    BY <1>3, <2>1 DEF MarkDelivered, TypeOK
<1>10. ASSUME NEW d \in Deliverers, MarkFailed(d) PROVE LockInv'
  BY <1>3, <1>10 DEF MarkFailed, TypeOK
<1>11. ASSUME NEW d \in Deliverers, SendRaises(d) \/ Crash(d) \/ Restart(d) PROVE LockInv'
  BY <1>3, <1>11 DEF SendRaises, Crash, Restart
<1>12. CASE Tick
  BY <1>a, <1>12 DEF Tick, LockInv, HoldsRow, Pending
<1>13. CASE UNCHANGED vars
  BY <1>2, <1>13 DEF vars
<1> QED
  BY <1>4, <1>5, <1>6, <1>7, <1>8, <1>9, <1>10, <1>11, <1>12, <1>13
  DEF Next, Requests, Deliver, Attempt, FailLate, Refuse

\* what Send does to the row and the count of its message
LEMMA SendStep ==
  ASSUME TypeOK, LockInv, NEW d \in Deliverers, Send(d)
  PROVE  \E m \in Messages : \E n \in {0, 1} :
           /\ n = 0 => m \in Reminders
           /\ Pending(m) /\ table[m].save \in 0 .. MaxSaves
           /\ table' = [table EXCEPT ![m].delivered = TRUE]
           /\ sent' = [sent EXCEPT ![m] = [sent[m] EXCEPT ![table[m].save] =
                                             sent[m][table[m].save] + n]]
           /\ UNCHANGED <<now, saved, editor, deleted>>
<1>1. PICK n \in {0, 1} : MarkDelivered(d, n) /\ (n = 0 => deliverer[d].message \in Reminders)
  BY DEF Send
<1>2. /\ deliverer[d].message \in Messages /\ Pending(deliverer[d].message)
      /\ deliverer[d].row = table[deliverer[d].message]
  BY DEF Send, LockInv, HoldsRow
<1>3. table[deliverer[d].message].save \in 0 .. MaxSaves
  BY <1>2 DEF TypeOK, RowType
<1> QED
  BY <1>1, <1>2, <1>3 DEF MarkDelivered

LEMMA StepCounts ==
  ASSUME Inv, [Next]_vars
  PROVE  \A m \in Messages : CountsOf(m)'
<1> USE DEF Inv
<1>a. \A m \in Messages : /\ saved[m] \in 0 .. MaxSaves
                          /\ sent[m] \in [1 .. MaxSaves -> Nat]
                          /\ table[m] \in RowType
  BY DEF TypeOK
<1>1. ASSUME UNCHANGED <<table, saved, sent>> PROVE \A m \in Messages : CountsOf(m)'
  BY <1>1 DEF CountsOf
\* a save by the sender: the row is new, and has not been sent as it is now
<1>2. ASSUME NEW m \in Messages, NEW due,
             table' = [table EXCEPT ![m] = SavedRow(due, saved[m] + 1)],
             saved' = [saved EXCEPT ![m] = saved[m] + 1],
             saved[m] < MaxSaves, UNCHANGED sent
      PROVE  \A other \in Messages : CountsOf(other)'
  <2>1. saved'[m] = saved[m] + 1 /\ table'[m] = SavedRow(due, saved[m] + 1)
    BY <1>2 DEF TypeOK
  <2>2. saved[m] + 1 \in 1 .. MaxSaves
    BY <1>2, <1>a, ScheduledAssumption
  <2>3. \A n \in 1 .. MaxSaves : n > saved[m] + 1 => n > saved[m]
    BY <1>a
  <2>4. CountsOf(m)'
    BY <1>2, <1>a, <2>1, <2>2, <2>3 DEF CountsOf, SavedRow
  <2>5. ASSUME NEW other \in Messages \ {m} PROVE CountsOf(other)'
    <3>1. table'[other] = table[other] /\ saved'[other] = saved[other]
      BY <1>2 DEF TypeOK
    <3> QED
      BY <1>2, <3>1 DEF CountsOf
  <2> QED
    BY <2>4, <2>5
<1>3. ASSUME NEW m \in Messages, check_schedule_message(m)
      PROVE  \A other \in Messages : CountsOf(other)'
  <2>1. saved[m] + 1 = 1 /\ saved[m] < MaxSaves
    BY <1>3, ScheduledAssumption DEF check_schedule_message
  <2> QED
    BY <1>2, <1>3, <2>1 DEF check_schedule_message
<1>4. ASSUME NEW e \in Editors, SaveEdit(e) PROVE \A m \in Messages : CountsOf(m)'
  <2>1. editor[e].message \in Messages
    BY <1>4 DEF SaveEdit, EditInv
  <2> QED
    BY <1>2, <1>4, <2>1 DEF SaveEdit
<1>5. ASSUME NEW m \in Messages, Delete(m) PROVE \A other \in Messages : CountsOf(other)'
  <2>1. ~ table'[m].present /\ UNCHANGED <<saved, sent>>
    BY <1>5 DEF Delete, TypeOK, NoRow
  <2>2. \A other \in Messages \ {m} : table'[other] = table[other]
    BY <1>5 DEF Delete, TypeOK
  <2> QED
    BY <2>1, <2>2 DEF CountsOf
<1>6. ASSUME NEW d \in Deliverers, Send(d) PROVE \A m \in Messages : CountsOf(m)'
  <2>1. PICK m \in Messages, n \in {0, 1} :
           /\ n = 0 => m \in Reminders
           /\ Pending(m)
           /\ table' = [table EXCEPT ![m].delivered = TRUE]
           /\ sent' = [sent EXCEPT ![m] = [sent[m] EXCEPT ![table[m].save] =
                                             sent[m][table[m].save] + n]]
           /\ UNCHANGED <<now, saved, editor, deleted>>
    BY <1>6, SendStep
  <2>2. /\ table'[m].present = table[m].present
        /\ table'[m].save = table[m].save
        /\ table'[m].delivered
    BY <1>a, <2>1 DEF TypeOK, RowType
  <2>3. /\ table[m].save = saved[m] /\ saved[m] \in 1 .. MaxSaves
        /\ sent[m][saved[m]] = 0
    BY <2>1 DEF CountsOf, Pending
  <2>4. sent'[m] = [sent[m] EXCEPT ![saved[m]] = sent[m][saved[m]] + n]
    BY <2>1, <2>3 DEF TypeOK
  <2>5. sent'[m][saved[m]] = n
    <3>1. sent[m][saved[m]] + n = n
      BY <2>3
    <3> QED
      BY <1>a, <2>3, <2>4, <3>1
  <2>6. \A k \in 1 .. MaxSaves : k # saved[m] => sent'[m][k] = sent[m][k]
    BY <1>a, <2>4
  <2>7. CountsOf(m)'
    BY <1>a, <2>1, <2>2, <2>3, <2>5, <2>6 DEF CountsOf
  <2>8. ASSUME NEW other \in Messages \ {m} PROVE CountsOf(other)'
    <3>1. table'[other] = table[other] /\ sent'[other] = sent[other]
      BY <2>1 DEF TypeOK
    <3> QED
      BY <2>1, <3>1 DEF CountsOf
  <2> QED
    BY <2>7, <2>8
<1>7. ASSUME NEW d \in Deliverers, MarkFailed(d), deliverer[d].pc = "send"
      PROVE  \A m \in Messages : CountsOf(m)'
  <2>1. deliverer[d].message \in Messages
    BY <1>7 DEF LockInv, HoldsRow
  <2>2. \A m \in Messages : /\ table'[m].present = table[m].present
                            /\ table'[m].save = table[m].save
                            /\ table'[m].delivered = table[m].delivered
    BY <1>7, <1>a, <2>1 DEF MarkFailed, TypeOK, RowType
  <2> QED
    BY <1>7, <2>2 DEF MarkFailed, CountsOf
<1>8. CASE \/ Tick \/ UNCHANGED vars
           \/ \E e \in Editors : EditRefused(e) \/ \E m \in Messages : BeginEdit(e, m)
           \/ \E d \in Deliverers : SelectDue(d) \/ SendRaises(d) \/ Crash(d) \/ Restart(d)
  BY <1>1, <1>8 DEF Tick, vars, EditRefused, BeginEdit, SelectDue, SendRaises, Crash, Restart
<1> QED
  BY <1>3, <1>4, <1>5, <1>6, <1>7, <1>8
  DEF Next, Requests, Deliver, Attempt, FailLate, Refuse

LEMMA StepEdits == Inv /\ [Next]_vars => EditInv'
<1> SUFFICES ASSUME Inv, [Next]_vars
             PROVE  EditInv'
  OBVIOUS
<1> USE DEF Inv
<1>a. \A m \in Messages : saved[m] \in 0 .. MaxSaves
  BY DEF TypeOK
<1>1. ASSUME UNCHANGED <<editor, saved, deleted>>,
             \A m \in Messages : table'[m].present = table[m].present
      PROVE  EditInv'
  <2>1. deleted \subseteq Messages
    BY DEF TypeOK
  <2> QED
    BY <1>1, <2>1 DEF EditInv, Edited
<1>2. ASSUME NEW m \in Messages, check_schedule_message(m) PROVE EditInv'
  <2>1. m \notin deleted
    BY <1>2, ScheduledAssumption DEF EditInv, check_schedule_message
  <2>2. \A other \in Messages : saved[other] > 0 => saved'[other] > 0
    BY <1>2, <1>a DEF check_schedule_message, TypeOK
  <2>3. \A other \in deleted : table'[other] = table[other]
    BY <1>2, <2>1 DEF check_schedule_message, TypeOK
  <2>4. deleted \subseteq Messages /\ UNCHANGED <<editor, deleted>>
    BY <1>2 DEF check_schedule_message, TypeOK
  <2> QED
    BY <2>2, <2>3, <2>4 DEF EditInv, Edited
<1>3. ASSUME NEW e \in Editors, NEW m \in Messages, BeginEdit(e, m) PROVE EditInv'
  <2>1. m \notin deleted /\ saved[m] > 0
    BY <1>3, <1>a DEF BeginEdit, EditInv, CountsOf
  <2>2. editor'[e].message = m /\ \A other \in Editors \ {e} : editor'[other] = editor[other]
    BY <1>3 DEF BeginEdit, TypeOK
  <2>3. UNCHANGED <<table, saved, deleted>>
    BY <1>3 DEF BeginEdit
  <2> QED
    BY <2>1, <2>2, <2>3 DEF EditInv, Edited
\* an edit ends
<1>4. ASSUME NEW e \in Editors, editor[e] # NoEdit,
             editor' = [editor EXCEPT ![e] = NoEdit], UNCHANGED deleted,
             \A m \in Messages : saved[m] > 0 => saved'[m] > 0,
             \A m \in deleted : table'[m] = table[m]
      PROVE  EditInv'
  <2>1. editor'[e] = NoEdit /\ \A other \in Editors \ {e} : editor'[other] = editor[other]
    BY <1>4 DEF TypeOK
  <2>2. deleted \subseteq Messages /\ None \notin Messages /\ NoEdit.message = None
    BY LockedRows DEF TypeOK, NoEdit
  <2>3. Edited' \subseteq Edited \cup {None}
    BY <2>1, <2>2 DEF Edited
  <2> QED
    BY <1>4, <2>1, <2>2, <2>3 DEF EditInv
<1>5. ASSUME NEW e \in Editors, EditRefused(e) PROVE EditInv'
  BY <1>4, <1>5 DEF EditRefused
<1>6. ASSUME NEW e \in Editors, SaveEdit(e) PROVE EditInv'
  <2>1. editor[e].message \in Messages \ deleted
    BY <1>6 DEF SaveEdit, EditInv, Edited
  <2>2. \A m \in Messages : saved[m] > 0 => saved'[m] > 0
    BY <1>6, <1>a DEF SaveEdit, TypeOK
  <2>3. \A m \in deleted : table'[m] = table[m]
    BY <1>6, <2>1 DEF SaveEdit, TypeOK
  <2> QED
    BY <1>4, <1>6, <2>2, <2>3 DEF SaveEdit
<1>7. ASSUME NEW m \in Messages, Delete(m) PROVE EditInv'
  <2>1. saved[m] > 0
    BY <1>7, <1>a DEF Delete, CountsOf
  <2>2. ~ table'[m].present /\ \A other \in Messages \ {m} : table'[other] = table[other]
    BY <1>7 DEF Delete, TypeOK, NoRow
  <2>3. UNCHANGED <<editor, saved>> /\ deleted' \subseteq deleted \cup {m}
        /\ (m \in Edited => deleted' = deleted)
    BY <1>7 DEF Delete
  <2>4. deleted \subseteq Messages
    BY DEF TypeOK
  <2> QED
    BY <2>1, <2>2, <2>3, <2>4 DEF EditInv, Edited
<1>8. ASSUME NEW d \in Deliverers, Send(d) PROVE EditInv'
  <2>1. PICK m \in Messages : /\ table' = [table EXCEPT ![m].delivered = TRUE]
                              /\ UNCHANGED <<saved, editor, deleted>>
    BY <1>8, SendStep
  <2>2. \A other \in Messages : table'[other].present = table[other].present
    BY <2>1 DEF TypeOK, RowType
  <2> QED
    BY <1>1, <2>1, <2>2
<1>9. ASSUME NEW d \in Deliverers, MarkFailed(d) PROVE EditInv'
  <2>1. \A m \in Messages : table'[m].present = table[m].present
    BY <1>9 DEF MarkFailed, TypeOK, RowType
  <2> QED
    BY <1>1, <1>9, <2>1 DEF MarkFailed
<1>10. CASE \/ Tick \/ UNCHANGED vars
            \/ \E d \in Deliverers : SelectDue(d) \/ SendRaises(d) \/ Crash(d) \/ Restart(d)
  BY <1>1, <1>10 DEF Tick, vars, SelectDue, SendRaises, Crash, Restart
<1> QED
  BY <1>2, <1>3, <1>5, <1>6, <1>7, <1>8, <1>9, <1>10
  DEF Next, Requests, Deliver, Attempt, FailLate, Refuse

LEMMA InvHolds == Spec => []Inv
<1>1. Inv /\ [Next]_vars => Inv'
  BY StepTypeOK, StepLocks, StepCounts, StepEdits DEF Inv
<1> QED
  BY <1>1, InitInv, PTL DEF Spec

(* The flag of a row tells whether its message was sent, and it was sent   *)
(* once: the message and the flag are written in one transaction, and the  *)
(* row lock keeps two deliverers, and the sender, apart.                   *)
THEOREM SentOnceAndFlagged == Spec => []DeliveredIffSent
<1>1. Inv => DeliveredIffSent
  <2> SUFFICES ASSUME Inv, NEW m \in Messages
               PROVE  /\ \A n \in 1 .. MaxSaves : sent[m][n] <= 1
                      /\ (table[m].present /\ m \notin Reminders)
                            => (table[m].delivered <=> sent[m][table[m].save] = 1)
    BY DEF DeliveredIffSent
  <2>1. CountsOf(m)
    BY DEF Inv
  <2>2. table[m].delivered \in BOOLEAN
    BY DEF Inv, TypeOK, RowType
  <2> QED
    BY <2>1, <2>2 DEF CountsOf
<1> QED
  BY <1>1, InvHolds, PTL

(* An accepted edit is honoured: what a deliverer sends, while it holds    *)
(* the row, is what the sender saved last, and it is due.                  *)
THEOREM AcceptedEditsAreSent == Spec => SendsWhatIsSaved
<1>1. ASSUME Inv, [Next]_vars, NEW m \in Messages, NEW n \in 1 .. MaxSaves,
             sent'[m][n] # sent[m][n]
      PROVE  /\ table[m].present /\ table[m].save = n
             /\ ~ table[m].delivered /\ ~ table[m].failed
             /\ table[m].due <= now
  <2>1. PICK d \in Deliverers : Send(d)
    BY <1>1 DEF Next, Requests, Deliver, Attempt, check_schedule_message, Delete, EditRefused,
       SaveEdit, BeginEdit, SelectDue, FailLate, SendRaises, Refuse, MarkFailed, Crash, Restart,
       Tick, vars
  <2>2. PICK other \in Messages, k \in {0, 1} :
           /\ Pending(other) /\ table[other].save \in 0 .. MaxSaves
           /\ sent' = [sent EXCEPT ![other] = [sent[other] EXCEPT ![table[other].save] =
                                                 sent[other][table[other].save] + k]]
    BY <1>1, <2>1, SendStep DEF Inv
  <2>3. other = m
    BY <1>1, <2>2 DEF Inv, TypeOK
  <2>4. table[m].save = n
    BY <1>1, <2>2, <2>3 DEF Inv, TypeOK
  <2> QED
    BY <2>2, <2>3, <2>4 DEF Pending
<1>2. Inv /\ [Next]_vars =>
        [\A m \in Messages : \A n \in 1 .. MaxSaves :
           sent'[m][n] # sent[m][n]
              => /\ table[m].present /\ table[m].save = n
                 /\ ~ table[m].delivered /\ ~ table[m].failed
                 /\ table[m].due <= now]_vars
  BY <1>1
<1> QED
  BY <1>2, InvHolds, PTL DEF Spec, SendsWhatIsSaved

(* A message deleted while nobody edited it has no row, gets none, and is  *)
(* not sent.                                                               *)
THEOREM DeletedMessagesStayUnsent == Spec => DeletedIsNotSent
<1>1. ASSUME Inv, [Next]_vars, NEW m \in deleted
      PROVE  sent'[m] = sent[m]
  <2>1. m \in Messages /\ ~ table[m].present
    BY <1>1 DEF Inv, EditInv, TypeOK
  <2>2. CASE \E d \in Deliverers : Send(d)
    <3>1. PICK other \in Messages, k \in {0, 1} :
             /\ Pending(other)
             /\ sent' = [sent EXCEPT ![other] = [sent[other] EXCEPT ![table[other].save] =
                                                   sent[other][table[other].save] + k]]
      BY <1>1, <2>2, SendStep DEF Inv
    <3>2. other # m
      BY <2>1, <3>1 DEF Pending
    <3> QED
      BY <1>1, <2>1, <3>1, <3>2 DEF Inv, TypeOK
  <2>3. CASE ~ \E d \in Deliverers : Send(d)
    BY <1>1, <2>3 DEF Next, Requests, Deliver, Attempt, check_schedule_message, Delete,
       EditRefused, SaveEdit, BeginEdit, SelectDue, FailLate, SendRaises, Refuse, MarkFailed,
       Crash, Restart, Tick, vars
  <2> QED
    BY <2>2, <2>3
<1>2. Inv /\ [Next]_vars => [\A m \in deleted : sent'[m] = sent[m]]_vars
  BY <1>1
<1> QED
  BY <1>2, InvHolds, PTL DEF Spec, DeletedIsNotSent

(***************************************************************************)
(* What can make a delivered message pending again (SentIsFinal fails).    *)
(***************************************************************************)
\* the view offers no edit of a reminder, so one is saved once at most
Unedited ==
    /\ Edited \cap Reminders = {}
    /\ \A m \in Reminders : saved[m] <= 1

LEMMA InitUnedited == Init => Unedited
<1>1. Init => Edited \subseteq {None}
  BY DEF Init, Edited, NoEdit
<1>2. None \notin Reminders
  BY ScheduledAssumption DEF None
<1>3. Init => \A m \in Reminders : saved[m] = 0
  BY ScheduledAssumption DEF Init
<1> QED
  BY <1>1, <1>2, <1>3 DEF Unedited

LEMMA StepUnedited == Inv /\ Unedited /\ [Next]_vars => Unedited'
<1> SUFFICES ASSUME Inv, Unedited, [Next]_vars
             PROVE  Unedited'
  OBVIOUS
<1> USE DEF Inv, TypeOK
<1>a. None \notin Reminders /\ Reminders \subseteq Messages
  BY ScheduledAssumption DEF None
<1>1. ASSUME NEW m \in Messages, check_schedule_message(m) PROVE Unedited'
  <2>1. \A other \in Messages : saved'[other] = IF other = m THEN 1 ELSE saved[other]
    BY <1>1 DEF check_schedule_message
  <2> QED
    BY <1>a, <1>1, <2>1 DEF check_schedule_message, Unedited, Edited
<1>2. ASSUME NEW e \in Editors, NEW m \in Messages, BeginEdit(e, m) PROVE Unedited'
  <2>1. editor'[e].message = m /\ \A other \in Editors \ {e} : editor'[other] = editor[other]
    BY <1>2 DEF BeginEdit
  <2>2. m \notin Reminders /\ saved' = saved
    BY <1>2 DEF BeginEdit
  <2> QED
    BY <2>1, <2>2 DEF Unedited, Edited
<1>3. ASSUME NEW e \in Editors, EditRefused(e) PROVE Unedited'
  BY <1>a, <1>3 DEF EditRefused, Unedited, Edited, NoEdit
<1>4. ASSUME NEW e \in Editors, SaveEdit(e) PROVE Unedited'
  <2>1. editor[e].message \notin Reminders
    BY <1>4 DEF Unedited, Edited
  <2>2. \A m \in Reminders : saved'[m] = saved[m]
    BY <1>a, <1>4, <2>1 DEF SaveEdit
  <2>3. Edited' \subseteq Edited \cup {None}
    BY <1>4 DEF SaveEdit, Edited, NoEdit
  <2> QED
    BY <1>a, <2>2, <2>3 DEF Unedited
<1>5. ASSUME UNCHANGED <<editor, saved>> PROVE Unedited'
  BY <1>5 DEF Unedited, Edited
<1> QED
  BY <1>1, <1>2, <1>3, <1>4, <1>5
  DEF Next, Requests, Deliver, Attempt, Delete, SelectDue, Send, MarkDelivered, FailLate,
      SendRaises, Refuse, MarkFailed, Crash, Restart, Tick, vars

LEMMA UneditedHolds == Spec => [](Inv /\ Unedited)
<1> QED
  BY InitUnedited, StepUnedited, InvHolds, PTL DEF Spec

(* What was sent becomes a message to be sent again only by the save of an *)
(* edit that read its row before (edit_scheduled_message); deliverers,     *)
(* their crashes, and requests that begin afterwards never undo it.        *)
SentIsFinalButForEdits ==
    [][\A m \in Messages \ Edited :
         (table[m].present /\ table[m].delivered)
            => (table'[m].delivered \/ ~ table'[m].present)]_vars

THEOREM OnlyEditsResend == Spec => SentIsFinalButForEdits
<1>1. ASSUME Inv, [Next]_vars, NEW m \in Messages \ Edited,
             table[m].present, table[m].delivered
      PROVE  table'[m].delivered \/ ~ table'[m].present
  <2> USE <1>1 DEF Inv, TypeOK
  <2>1. ASSUME NEW other \in Messages, check_schedule_message(other)
        PROVE  table'[m] = table[m]
    <3>1. saved[m] # 0
      BY DEF CountsOf
    <3> QED
      BY <2>1, <3>1 DEF check_schedule_message
  <2>2. ASSUME NEW other \in Messages, Delete(other)
        PROVE  table'[m] = table[m] \/ ~ table'[m].present
    BY <2>2 DEF Delete, NoRow
  <2>3. ASSUME NEW e \in Editors, SaveEdit(e)
        PROVE  table'[m] = table[m]
    BY <2>3 DEF SaveEdit, Edited
  <2>4. ASSUME NEW d \in Deliverers, Send(d)
        PROVE  table'[m].delivered
    <3>1. PICK other \in Messages : table' = [table EXCEPT ![other].delivered = TRUE]
      BY <2>4, SendStep
    <3> QED
      BY <3>1 DEF RowType
  <2>5. ASSUME NEW d \in Deliverers, MarkFailed(d)
        PROVE  table'[m].delivered
    BY <2>5 DEF MarkFailed, RowType
  <2>6. ASSUME UNCHANGED table PROVE table'[m].delivered
    BY <2>6
  <2> QED
    BY <2>1, <2>2, <2>3, <2>4, <2>5, <2>6
    DEF Next, Requests, Deliver, Attempt, BeginEdit, EditRefused, SelectDue, FailLate,
        SendRaises, Refuse, Crash, Restart, Tick, vars
<1>2. Inv /\ [Next]_vars =>
        [\A m \in Messages \ Edited :
           (table[m].present /\ table[m].delivered)
              => (table'[m].delivered \/ ~ table'[m].present)]_vars
  BY <1>1
<1> QED
  BY <1>2, InvHolds, PTL DEF Spec, SentIsFinalButForEdits

(* A reminder is sent once at most in all its life: it cannot be edited,   *)
(* so its first save is its only one (send_reminder, edit_scheduled_       *)
(* message).                                                               *)
RemindedOnce ==
    \A m \in Reminders : \A n \in 1 .. MaxSaves :
        sent[m][n] <= 1 /\ (n > 1 => sent[m][n] = 0)

THEOREM RemindersAreSentOnce == Spec => []RemindedOnce
<1>1. Inv /\ Unedited => RemindedOnce
  <2> SUFFICES ASSUME Inv, Unedited, NEW m \in Reminders, NEW n \in 1 .. MaxSaves
               PROVE  sent[m][n] <= 1 /\ (n > 1 => sent[m][n] = 0)
    BY DEF RemindedOnce
  <2>1. CountsOf(m) /\ saved[m] \in Nat
    BY ScheduledAssumption DEF Inv, TypeOK
  <2>2. n > 1 => n > saved[m]
    BY <2>1 DEF Unedited
  <2> QED
    BY <2>1, <2>2 DEF CountsOf
<1> QED
  BY <1>1, UneditedHolds, PTL
=============================================================================
