---------------------------- MODULE Calls_proofs ----------------------------
(***************************************************************************)
(* Proofs about calls.  First the table of call records, CallRecords: its  *)
(* types, the life of a record, and who may create a call.  Then the call  *)
(* service, Calls: it implements that table, posts at most one event per   *)
(* call, and deletes the rooms of dead calls only.                         *)
(***************************************************************************)
EXTENDS Calls, FiniteSetTheorems, TLAPS

(***************************************************************************)
(* The table of call records.                                              *)
(***************************************************************************)
LEMMA InitTypeOK == RecordsInit => RecordsTypeOK
  BY RecordsAssumption
  DEF RecordsInit, RecordsTypeOK, CallRecord, Unused, Idle, InitiateRequest, Active, Terminal

LEMMA StepTypeOK == RecordsTypeOK /\ [RecordsNext]_records => RecordsTypeOK'
<1> SUFFICES ASSUME RecordsTypeOK, [RecordsNext]_records
             PROVE  RecordsTypeOK'
  OBVIOUS
<1> USE RecordsAssumption DEF RecordsTypeOK
<1>1. ASSUME NEW t \in Threads, InitiateBegin(t) PROVE RecordsTypeOK'
  <2>1. PICK pair \in MayCall :
          initiate' = [initiate EXCEPT
             ![t] = [pc |-> "expire_ringing", caller |-> pair[1], callee |-> pair[2],
                     dead |-> {<<c, calls[c].status>> :
                                 c \in Stale(pair[1]) \cup Stale(pair[2])}]]
    BY <1>1 DEF InitiateBegin
  <2>2. {<<c, calls[c].status>> : c \in Stale(pair[1]) \cup Stale(pair[2])}
            \in SUBSET (CallIds \X Active)
    BY DEF Stale, CallsOf
  <2>3. pair[1] \in Profiles /\ pair[2] \in Profiles
    OBVIOUS
  <2>4. initiate' \in [Threads -> InitiateRequest]
    BY <2>1, <2>2, <2>3 DEF InitiateRequest
  <2> QED
    BY <1>1, <2>4 DEF InitiateBegin
<1>2. ASSUME NEW t \in Threads, NEW pc \in {"expire_connected", "caller_busy", "callee_busy", "create"},
             Goto(t, pc)
      PROVE  initiate' \in [Threads -> InitiateRequest]
  BY <1>2 DEF Goto, InitiateRequest
<1>3. ASSUME NEW t \in Threads, Return(t)
      PROVE  initiate' \in [Threads -> InitiateRequest]
  BY <1>3 DEF Return, Idle, InitiateRequest
<1>4. ASSUME NEW t \in Threads, expire_stale_calls(t) PROVE RecordsTypeOK'
  <2>1. \A c \in CallIds : expired(calls[c]) \in CallRecord
    BY DEF expired, CallRecord, Terminal, Active
  <2>2. calls' \in [CallIds -> CallRecord]
    BY <1>4, <2>1 DEF expire_stale_calls, ExpireBoth, UpdateStale
  <2> QED
    BY <1>2, <1>4, <2>2 DEF expire_stale_calls, ExpireBoth, UpdateStale
<1>5. ASSUME NEW t \in Threads, CallerBusyCheck(t) PROVE RecordsTypeOK'
  BY <1>2, <1>3, <1>5 DEF CallerBusyCheck
<1>6. ASSUME NEW t \in Threads, CalleeBusyCheck(t) PROVE RecordsTypeOK'
  BY <1>2, <1>3, <1>6 DEF CalleeBusyCheck
<1>7. ASSUME NEW t \in Threads, TokenFailure(t) PROVE RecordsTypeOK'
  BY <1>3, <1>7 DEF TokenFailure
<1>8. ASSUME NEW t \in Threads, NEW c \in CallIds, CreateRecord(t, c) PROVE RecordsTypeOK'
  <2>1. NewCall(initiate[t].caller, initiate[t].callee) \in CallRecord
    BY DEF NewCall, Unused, CallRecord, InitiateRequest, Active
  <2> QED
    BY <1>3, <1>8, <2>1 DEF CreateRecord
<1>9. ASSUME NEW c \in CallIds, Transaction(c) \/ GrowStale(c) PROVE RecordsTypeOK'
  <2>1. ASSUME NEW call \in CallRecord, calls' = [calls EXCEPT ![c] = call],
               UNCHANGED <<initiate, requests>>
        PROVE  RecordsTypeOK'
    BY <2>1
  <2>2. calls[c] \in CallRecord
    OBVIOUS
  <2>3. CASE GrowStale(c)
    <3>1. [calls[c] EXCEPT !.stale = TRUE] \in CallRecord
      BY <2>2 DEF CallRecord
    <3> QED
      BY <2>1, <2>3, <3>1 DEF GrowStale
  <2>4. CASE Connect(c)
    <3>1. [calls[c] EXCEPT !.status = "connected", !.answered = TRUE, !.stale = FALSE]
             \in CallRecord
      BY <2>2 DEF CallRecord, Active
    <3> QED
      BY <2>1, <2>4, <3>1 DEF Connect
  <2>5. ASSUME NEW from, NEW status \in Terminal,
               NEW reason \in {"callee_declined", "caller_cancelled", "timeout"}
                              \cup HangUpReasons,
               Finish(c, from, status, reason)
        PROVE  RecordsTypeOK'
    <3>1. [calls[c] EXCEPT !.status = status, !.end_reason = reason, !.stale = FALSE]
             \in CallRecord
      BY <2>2 DEF CallRecord, HangUpReasons
    <3> QED
      BY <2>1, <2>5, <3>1 DEF Finish
  <2>6. CASE Decline(c) \/ Cancel(c) \/ Miss(c)
    BY <2>5, <2>6 DEF Decline, Cancel, Miss, Terminal
  <2>7. CASE \E reason \in HangUpReasons : HangUp(c, reason)
    BY <2>5, <2>7 DEF HangUp, Terminal
  <2> QED
    BY <1>9, <2>3, <2>4, <2>6, <2>7 DEF Transaction
<1>10. CASE UNCHANGED records
  BY <1>10 DEF records
<1> QED
  BY <1>1, <1>4, <1>5, <1>6, <1>7, <1>8, <1>9, <1>10 DEF RecordsNext, Initiate

(* The table and the requests keep their types in every behaviour.         *)
THEOREM RecordsTypeCorrect == Records => []RecordsTypeOK
  BY InitTypeOK, StepTypeOK, PTL DEF Records

(***************************************************************************)
(* What one step does to one record.                                       *)
(***************************************************************************)
EndReasons == {"callee_declined", "caller_cancelled", "timeout"} \cup HangUpReasons

Ends(from, status, reason) ==
    \/ from = "ringing" /\ status = "declined" /\ reason = "callee_declined"
    \/ from = "ringing" /\ status = "cancelled" /\ reason = "caller_cancelled"
    \/ from = "ringing" /\ status = "missed" /\ reason = "timeout"
    \/ from = "connected" /\ status = "ended" /\ reason \in HangUpReasons

LEMMA TransactionRecord ==
  ASSUME RecordsTypeOK, NEW d \in CallIds, Transaction(d) \/ GrowStale(d),
         NEW c \in CallIds
  PROVE  \/ calls'[c] = calls[c]
         \/ /\ c = d
            /\ calls'[c] = [calls[c] EXCEPT !.stale = TRUE]
         \/ /\ c = d /\ calls[c].status = "ringing"
            /\ calls'[c] = [calls[c] EXCEPT !.status = "connected", !.answered = TRUE,
                                            !.stale = FALSE]
         \/ /\ c = d
            /\ \E status \in Terminal, reason \in EndReasons :
                 /\ Ends(calls[c].status, status, reason)
                 /\ calls'[c] = [calls[c] EXCEPT !.status = status, !.end_reason = reason,
                                                 !.stale = FALSE]
<1> USE DEF RecordsTypeOK
<1>1. CASE GrowStale(d)
  BY <1>1 DEF GrowStale
<1>2. CASE Connect(d)
  BY <1>2 DEF Connect
<1>3. CASE Decline(d)
  BY <1>3 DEF Decline, Finish, Terminal, EndReasons, Ends
<1>4. CASE Cancel(d)
  BY <1>4 DEF Cancel, Finish, Terminal, EndReasons, Ends
<1>5. CASE Miss(d)
  BY <1>5 DEF Miss, Finish, Terminal, EndReasons, Ends
<1>6. ASSUME NEW reason \in HangUpReasons, HangUp(d, reason)
      PROVE  \/ calls'[c] = calls[c]
             \/ /\ c = d /\ calls[c].status = "connected"
                /\ calls'[c] = [calls[c] EXCEPT !.status = "ended", !.end_reason = reason,
                                                !.stale = FALSE]
  BY <1>6 DEF HangUp, Finish
<1> QED
  BY <1>1, <1>2, <1>3, <1>4, <1>5, <1>6 DEF Transaction, Terminal, EndReasons, Ends

LEMMA StepLegal ==
  RecordsTypeOK /\ [RecordsNext]_records => \A c \in CallIds : LegalStep(c)
<1> SUFFICES ASSUME RecordsTypeOK, [RecordsNext]_records, NEW c \in CallIds
             PROVE  LegalStep(c)
  OBVIOUS
<1> USE DEF RecordsTypeOK, LegalStep
<1>1. CASE calls' = calls
  BY <1>1
<1>2. ASSUME NEW t \in Threads, expire_stale_calls(t) PROVE LegalStep(c)
  <2>1. calls'[c] = calls[c] \/ (calls[c].status \in Active /\ calls'[c] = expired(calls[c]))
    BY <1>2 DEF expire_stale_calls, ExpireBoth, UpdateStale, Stale
  <2> QED
    BY <2>1 DEF expired, Active, Transitions, CallRecord
<1>3. ASSUME NEW t \in Threads, NEW d \in CallIds, CreateRecord(t, d) PROVE LegalStep(c)
  BY <1>3 DEF CreateRecord, NewCall, Unused, Transitions, CallRecord
<1>4. ASSUME NEW d \in CallIds, Transaction(d) \/ GrowStale(d) PROVE LegalStep(c)
  <2>0. calls[c] \in CallRecord
    OBVIOUS
  <2>1. ASSUME NEW status \in Terminal, NEW reason \in EndReasons,
               Ends(calls[c].status, status, reason),
               calls'[c] = [calls[c] EXCEPT !.status = status, !.end_reason = reason,
                                           !.stale = FALSE]
        PROVE  LegalStep(c)
    <3>1. /\ calls'[c].status = status
          /\ calls'[c].caller = calls[c].caller
          /\ calls'[c].callee = calls[c].callee
      BY <2>0, <2>1 DEF CallRecord
    <3> QED
      BY <2>1, <3>1 DEF Transitions, Ends
  <2>2. CASE calls'[c] = [calls[c] EXCEPT !.stale = TRUE]
    BY <2>0, <2>2 DEF CallRecord
  <2>3. CASE /\ calls[c].status = "ringing"
             /\ calls'[c] = [calls[c] EXCEPT !.status = "connected", !.answered = TRUE,
                                             !.stale = FALSE]
    BY <2>0, <2>3 DEF CallRecord, Transitions
  <2> QED
    BY <1>1, <1>4, <2>1, <2>2, <2>3, TransactionRecord
<1> QED
  BY <1>1, <1>2, <1>3, <1>4 DEF RecordsNext, Initiate, InitiateBegin, CallerBusyCheck,
     CalleeBusyCheck, TokenFailure, records

(* Calls move along the legal transitions only, and keep their parties,    *)
(* for any number of calls, profiles and request threads.                  *)
THEOREM LegalLifecycle == Records => Lifecycle
<1>1. RecordsTypeOK /\ [RecordsNext]_records => [\A c \in CallIds : LegalStep(c)]_records
  BY StepLegal
<1> QED
  BY <1>1, RecordsTypeCorrect, PTL DEF Records, Lifecycle

(* Outcome, answer time and reason of every record agree.                  *)
THEOREM RecordsAgree == Records => []RecordsConsistent
<1>1. RecordsInit => RecordsConsistent
  BY DEF RecordsInit, RecordsConsistent, Unused, Agrees
<1>2. RecordsTypeOK /\ RecordsConsistent /\ [RecordsNext]_records => RecordsConsistent'
  <2> SUFFICES ASSUME RecordsTypeOK, RecordsConsistent, [RecordsNext]_records,
                      NEW c \in CallIds
               PROVE  Agrees(calls[c])'
    BY DEF RecordsConsistent
  <2>0. Agrees(calls[c]) /\ calls[c] \in CallRecord
    BY DEF RecordsConsistent, RecordsTypeOK
  <2>1. CASE calls'[c] = calls[c]
    BY <2>0, <2>1 DEF Agrees
  <2>2. ASSUME NEW t \in Threads, expire_stale_calls(t) PROVE Agrees(calls[c])'
    <3>1. \/ calls'[c] = calls[c]
          \/ calls[c].status \in Active /\ calls'[c] = expired(calls[c])
      BY <2>2 DEF expire_stale_calls, ExpireBoth, UpdateStale, Stale
    <3> QED
      BY <2>0, <3>1 DEF expired, Agrees, CallRecord, Active
  <2>3. ASSUME NEW t \in Threads, NEW d \in CallIds, CreateRecord(t, d)
        PROVE  Agrees(calls[c])'
    BY <2>0, <2>3 DEF CreateRecord, NewCall, Unused, Agrees, CallRecord, RecordsTypeOK, Active
  <2>4. ASSUME NEW d \in CallIds, Transaction(d) \/ GrowStale(d) PROVE Agrees(calls[c])'
    <3>1. ASSUME NEW status \in Terminal, NEW reason \in EndReasons,
                 Ends(calls[c].status, status, reason),
                 calls'[c] = [calls[c] EXCEPT !.status = status, !.end_reason = reason,
                                             !.stale = FALSE]
          PROVE  Agrees(calls[c])'
      <4>1. /\ calls'[c].status = status
            /\ calls'[c].answered = calls[c].answered
            /\ calls'[c].end_reason = reason
        BY <2>0, <3>1 DEF CallRecord
      <4> QED
        BY <2>0, <3>1, <4>1 DEF Agrees, Ends, HangUpReasons, Active
    <3>2. CASE calls'[c] = [calls[c] EXCEPT !.stale = TRUE]
      BY <2>0, <3>2 DEF CallRecord, Agrees
    <3>3. CASE /\ calls[c].status = "ringing"
               /\ calls'[c] = [calls[c] EXCEPT !.status = "connected", !.answered = TRUE,
                                               !.stale = FALSE]
      BY <2>0, <3>3 DEF CallRecord, Agrees, Active
    <3> QED
      BY <2>1, <2>4, <3>1, <3>2, <3>3, TransactionRecord
  <2> QED
    BY <2>1, <2>2, <2>3, <2>4 DEF RecordsNext, Initiate, InitiateBegin, CallerBusyCheck,
       CalleeBusyCheck, TokenFailure, records
<1> QED
  BY <1>1, <1>2, RecordsTypeCorrect, PTL DEF Records

(***************************************************************************)
(* One active call per human, up to the race of run calls_race.  A history *)
(* variable remembers for each request which calls were in the table when  *)
(* it checked that its caller is not busy.                                 *)
(***************************************************************************)
VARIABLE known

Remember ==
    known' = [t \in Threads |->
                IF initiate[t].pc = "caller_busy" /\ initiate'[t].pc = "callee_busy"
                THEN {c \in CallIds : calls[c].status # "unused"}
                ELSE known[t]]

RecordsWithHistory ==
    /\ RecordsInit /\ known = [t \in Threads |-> {}]
    /\ [][RecordsNext /\ Remember]_<<records, known>>

\* two active calls of one human
Double(c, d) ==
    /\ c # d /\ calls[c].status \in Active /\ calls[d].status \in Active
    /\ Humans(c) \cap Humans(d) # {}

\* a request creates c, and d was not there when it checked
CreatesBeside(c, d) == \E t \in Threads : CreateRecord(t, c) /\ d \notin known[t]

\* the active calls that a request knows are none of its two humans'
Checked(t) ==
    \A d \in known[t] :
      /\ d \in CallIds /\ calls[d].status # "unused"
      /\ calls[d].status \in Active =>
           /\ initiate[t].pc \in {"callee_busy", "create"} =>
                Human[initiate[t].caller] \notin Humans(d)
           /\ initiate[t].pc = "create" => Human[initiate[t].callee] \notin Humans(d)

CheckedInv == RecordsTypeOK /\ \A t \in Threads : Checked(t)

\* an active call has been active with the same parties since it was created
LEMMA StaysAsItIs ==
  ASSUME RecordsTypeOK, [RecordsNext]_records, NEW c \in CallIds, calls[c].status # "unused"
  PROVE  /\ calls'[c].status # "unused"
         /\ calls'[c].status \in Active =>
              calls[c].status \in Active /\ Humans(c)' = Humans(c)
<1>1. LegalStep(c)
  BY StepLegal
<1> QED
  BY <1>1 DEF LegalStep, Transitions, Active, Humans

\* a record comes into use by a creation only
LEMMA UnusedStep ==
  ASSUME RecordsTypeOK, [RecordsNext]_records, NEW c \in CallIds,
         calls[c].status = "unused", calls'[c].status # "unused"
  PROVE  \E t \in Threads : CreateRecord(t, c)
<1> USE DEF RecordsTypeOK
<1>1. CASE calls' = calls
  BY <1>1
<1>2. ASSUME NEW t \in Threads, expire_stale_calls(t) PROVE FALSE
  BY <1>2 DEF expire_stale_calls, ExpireBoth, UpdateStale, Stale, Active
<1>3. ASSUME NEW d \in CallIds, Transaction(d) \/ GrowStale(d) PROVE FALSE
  BY <1>3 DEF Transaction, GrowStale, Connect, Decline, Cancel, Miss, HangUp, Finish, Active
<1>4. ASSUME NEW t \in Threads, NEW d \in CallIds, CreateRecord(t, d) PROVE d = c
  BY <1>4 DEF CreateRecord
<1> QED
  BY <1>1, <1>2, <1>3, <1>4 DEF RecordsNext, Initiate, InitiateBegin, CallerBusyCheck,
     CalleeBusyCheck, TokenFailure, records

\* how a request comes to its next step
LEMMA RequestStep ==
  ASSUME RecordsTypeOK, [RecordsNext]_records, NEW t \in Threads,
         initiate'[t].pc \in {"callee_busy", "create"}
  PROVE  /\ initiate'[t].caller = initiate[t].caller
         /\ initiate'[t].callee = initiate[t].callee
         /\ \/ initiate'[t].pc = initiate[t].pc
            \/ /\ initiate[t].pc = "caller_busy" /\ initiate'[t].pc = "callee_busy"
               /\ ~ has_active_call(initiate[t].caller) /\ UNCHANGED calls
            \/ /\ initiate[t].pc = "callee_busy" /\ initiate'[t].pc = "create"
               /\ ~ has_active_call(initiate[t].callee) /\ UNCHANGED calls
<1> USE DEF RecordsTypeOK, Goto, Return, Idle, InitiateRequest
<1>1. CASE initiate' = initiate
  BY <1>1
<1>2. ASSUME NEW u \in Threads, InitiateBegin(u) PROVE initiate'[t] = initiate[t]
  BY <1>2 DEF InitiateBegin
<1>3. ASSUME NEW u \in Threads, expire_stale_calls(u) PROVE initiate'[t] = initiate[t]
  BY <1>3 DEF expire_stale_calls, ExpireBoth
<1>4. ASSUME NEW u \in Threads, TokenFailure(u) \/ \E c \in CallIds : CreateRecord(u, c)
      PROVE  initiate'[t] = initiate[t]
  BY <1>4 DEF TokenFailure, CreateRecord
<1>5. ASSUME NEW u \in Threads, CallerBusyCheck(u), u = t
      PROVE  /\ initiate'[t].caller = initiate[t].caller
             /\ initiate'[t].callee = initiate[t].callee
             /\ initiate[t].pc = "caller_busy" /\ initiate'[t].pc = "callee_busy"
             /\ ~ has_active_call(initiate[t].caller) /\ UNCHANGED calls
  BY <1>5 DEF CallerBusyCheck
<1>6. ASSUME NEW u \in Threads, CalleeBusyCheck(u), u = t
      PROVE  /\ initiate'[t].caller = initiate[t].caller
             /\ initiate'[t].callee = initiate[t].callee
             /\ initiate[t].pc = "callee_busy" /\ initiate'[t].pc = "create"
             /\ ~ has_active_call(initiate[t].callee) /\ UNCHANGED calls
  BY <1>6 DEF CalleeBusyCheck
<1>7. ASSUME NEW u \in Threads, CallerBusyCheck(u) \/ CalleeBusyCheck(u), u # t
      PROVE  initiate'[t] = initiate[t]
  BY <1>7 DEF CallerBusyCheck, CalleeBusyCheck
<1>8. ASSUME NEW c \in CallIds, Transaction(c) \/ GrowStale(c) PROVE initiate' = initiate
  BY <1>8 DEF Transaction, GrowStale, Connect, Decline, Cancel, Miss, HangUp, Finish
<1> QED
  BY <1>1, <1>2, <1>3, <1>4, <1>5, <1>6, <1>7, <1>8 DEF RecordsNext, Initiate, records

LEMMA CheckedStep ==
  ASSUME CheckedInv, [RecordsNext]_records, Remember
  PROVE  CheckedInv'
<1> USE DEF CheckedInv
<1>1. RecordsTypeOK'
  BY StepTypeOK
<1>2. ASSUME NEW t \in Threads, NEW d \in known'[t] PROVE
        /\ d \in CallIds /\ calls'[d].status # "unused"
        /\ calls'[d].status \in Active =>
             /\ initiate'[t].pc \in {"callee_busy", "create"} =>
                  Human[initiate'[t].caller] \notin Humans(d)'
             /\ initiate'[t].pc = "create" => Human[initiate'[t].callee] \notin Humans(d)'
  <2>1. \/ d \in known[t]
        \/ /\ initiate[t].pc = "caller_busy" /\ initiate'[t].pc = "callee_busy"
           /\ d \in CallIds /\ calls[d].status # "unused"
    BY <1>2 DEF Remember
  <2>2. d \in CallIds /\ calls[d].status # "unused"
    BY <2>1 DEF Checked
  <2>3. /\ calls'[d].status # "unused"
        /\ calls'[d].status \in Active =>
             calls[d].status \in Active /\ Humans(d)' = Humans(d)
    BY <2>2, StaysAsItIs
  <2> SUFFICES ASSUME calls[d].status \in Active, Humans(d)' = Humans(d),
                      initiate'[t].pc \in {"callee_busy", "create"}
               PROVE  /\ Human[initiate'[t].caller] \notin Humans(d)
                      /\ initiate'[t].pc = "create" =>
                           Human[initiate'[t].callee] \notin Humans(d)
    BY <2>2, <2>3
  <2>4. \A p : ~ has_active_call(p) => Human[p] \notin Humans(d)
    BY <2>2 DEF has_active_call, CallsOf
  <2>5. /\ initiate'[t].caller = initiate[t].caller
        /\ initiate'[t].callee = initiate[t].callee
        /\ \/ initiate'[t].pc = initiate[t].pc
           \/ /\ initiate[t].pc = "caller_busy" /\ initiate'[t].pc = "callee_busy"
              /\ ~ has_active_call(initiate[t].caller)
           \/ /\ initiate[t].pc = "callee_busy" /\ initiate'[t].pc = "create"
              /\ ~ has_active_call(initiate[t].callee)
    BY RequestStep
  <2>6. initiate[t].pc # "caller_busy" => d \in known[t]
    BY <2>1
  <2>7. CASE initiate[t].pc = "caller_busy"
    BY <2>4, <2>5, <2>7
  <2>8. CASE initiate[t].pc # "caller_busy"
    <3>1. Checked(t) /\ d \in known[t]
      BY <2>6, <2>8
    <3> QED
      BY <2>4, <2>5, <2>8, <3>1 DEF Checked
  <2> QED
    BY <2>7, <2>8
<1> QED
  BY <1>1, <1>2 DEF Checked

(* A human gets into a second active call in one way only: a request that  *)
(* had looked for the caller's calls before the other call was in the table*)
(* creates its own - the race of run calls_race.  The two busy checks      *)
(* catch every call that was there, for any number of threads.             *)
THEOREM SecondCallIsARace ==
  RecordsWithHistory =>
    [][\A c, d \in CallIds : Double(c, d)' =>
         Double(c, d) \/ CreatesBeside(c, d) \/ CreatesBeside(d, c)]_<<records, known>>
<1> DEFINE Way == \A c, d \in CallIds : Double(c, d)' =>
                    Double(c, d) \/ CreatesBeside(c, d) \/ CreatesBeside(d, c)
<1>1. RecordsInit /\ known = [t \in Threads |-> {}] => CheckedInv
  BY InitTypeOK DEF CheckedInv, Checked
<1>2. CheckedInv /\ [RecordsNext /\ Remember]_<<records, known>> => CheckedInv'
  <2>1. CASE RecordsNext /\ Remember
    BY <2>1, CheckedStep
  <2>2. ASSUME CheckedInv, UNCHANGED <<records, known>> PROVE CheckedInv'
    BY <2>2 DEF CheckedInv, Checked, RecordsTypeOK, records, Humans
  <2> QED
    BY <2>1, <2>2
\* a new call beside an old one
<1>3. ASSUME CheckedInv, RecordsNext, NEW c \in CallIds, NEW d \in CallIds, Double(c, d)',
             calls[c].status = "unused"
      PROVE  CreatesBeside(c, d)
  <2>1. PICK t \in Threads : CreateRecord(t, c)
    BY <1>3, UnusedStep DEF CheckedInv, Double, Active
  <2>2. /\ calls'[c].caller = initiate[t].caller /\ calls'[c].callee = initiate[t].callee
        /\ calls'[d] = calls[d] /\ initiate[t].pc = "create"
    BY <1>3, <2>1 DEF CreateRecord, NewCall, Unused, Double, CheckedInv, RecordsTypeOK
  <2>3. /\ calls[d].status \in Active
        /\ {Human[initiate[t].caller], Human[initiate[t].callee]} \cap Humans(d) # {}
    BY <1>3, <2>2 DEF Double, Humans
  <2>4. d \notin known[t]
    BY <1>3, <2>2, <2>3 DEF CheckedInv, Checked
  <2> QED
    BY <2>1, <2>4 DEF CreatesBeside
<1>4. ASSUME CheckedInv, [RecordsNext /\ Remember]_<<records, known>>,
             NEW c \in CallIds, NEW d \in CallIds, Double(c, d)'
      PROVE  Double(c, d) \/ CreatesBeside(c, d) \/ CreatesBeside(d, c)
  <2>0. [RecordsNext]_records /\ RecordsTypeOK
    BY <1>4 DEF CheckedInv
  <2>1. CASE calls[c].status # "unused" /\ calls[d].status # "unused"
    BY <1>4, <2>0, <2>1, StaysAsItIs DEF Double
  <2>2. CASE RecordsNext /\ calls[c].status = "unused"
    BY <1>3, <1>4, <2>2
  <2>3. CASE RecordsNext /\ calls[d].status = "unused"
    <3>1. Double(d, c)'
      BY <1>4 DEF Double
    <3> QED
      BY <1>3, <1>4, <2>3, <3>1
  <2>4. CASE UNCHANGED records
    BY <1>4, <2>4 DEF records, Double, Humans
  <2> QED
    BY <1>4, <2>1, <2>2, <2>3, <2>4
<1>5. CheckedInv /\ [RecordsNext /\ Remember]_<<records, known>> => [Way]_<<records, known>>
  BY <1>4
<1> QED
  BY <1>1, <1>2, <1>5, PTL DEF RecordsWithHistory

(***************************************************************************)
(* Dead calls never block, with any number of threads.                     *)
(***************************************************************************)
\* the record has left the status it was found dead in, for good
Left(dead) ==
    /\ calls[dead[1]].status \notin {"unused", dead[2]}
    /\ dead[2] = "connected" => calls[dead[1]].status = "ended"

\* the record is one that an UPDATE of expire_stale_calls will find
ToExpire(t, dead) ==
    /\ \/ initiate[t].pc = "expire_ringing"
       \/ initiate[t].pc = "expire_connected" /\ dead[2] = "connected"
    /\ dead[1] \in Stale(initiate[t].caller) \cup Stale(initiate[t].callee)
    /\ calls[dead[1]].status = dead[2]

DeadInv ==
    /\ RecordsTypeOK
    /\ \A t \in Threads : \A dead \in initiate[t].dead : Left(dead) \/ ToExpire(t, dead)

LEMMA LeftStable ==
  ASSUME RecordsTypeOK, [RecordsNext]_records,
         NEW dead \in CallIds \X Active, Left(dead)
  PROVE  Left(dead)'
<1>1. LegalStep(dead[1])
  BY StepLegal
<1> QED
  BY <1>1 DEF LegalStep, Left, Transitions, Active

LEMMA StaleStep ==
  ASSUME RecordsTypeOK, [RecordsNext]_records,
         NEW c \in CallIds, calls[c].status \in Active, calls[c].stale,
         calls'[c].status = calls[c].status
  PROVE  calls'[c].stale /\ Humans(c)' = Humans(c)
<1> USE DEF RecordsTypeOK
<1>1. calls[c] \in CallRecord
  OBVIOUS
<1>2. LegalStep(c)
  BY StepLegal
<1>3. ASSUME NEW t \in Threads, expire_stale_calls(t) PROVE calls'[c].stale
  <2>1. calls'[c] = calls[c] \/ calls'[c] = expired(calls[c])
    BY <1>3 DEF expire_stale_calls, ExpireBoth, UpdateStale
  <2>2. expired(calls[c]).status \notin Active
    BY <1>1 DEF expired, CallRecord, Active
  <2> QED
    BY <2>1, <2>2
<1>4. ASSUME NEW t \in Threads, NEW d \in CallIds, CreateRecord(t, d) PROVE calls'[c].stale
  BY <1>4 DEF CreateRecord, Active
<1>5. ASSUME NEW d \in CallIds, Transaction(d) \/ GrowStale(d) PROVE calls'[c].stale
  <2>1. ASSUME NEW status \in Terminal,
               NEW reason \in EndReasons,
               calls'[c] = [calls[c] EXCEPT !.status = status, !.end_reason = reason,
                                           !.stale = FALSE]
        PROVE  FALSE
    BY <1>1, <2>1 DEF CallRecord, Active, Terminal
  <2>2. CASE /\ calls[c].status = "ringing"
             /\ calls'[c] = [calls[c] EXCEPT !.status = "connected", !.answered = TRUE,
                                             !.stale = FALSE]
    BY <1>1, <2>2 DEF CallRecord
  <2>3. CASE calls'[c] = [calls[c] EXCEPT !.stale = TRUE]
    BY <1>1, <2>3 DEF CallRecord
  <2> QED
    BY <1>5, <2>1, <2>2, <2>3, TransactionRecord
<1>6. calls'[c].stale
  BY <1>3, <1>4, <1>5 DEF RecordsNext, Initiate, InitiateBegin, CallerBusyCheck,
     CalleeBusyCheck, TokenFailure, records
<1> QED
  BY <1>2, <1>6 DEF LegalStep, Humans, Active

\* a record to expire stays one, or leaves its status for good
LEMMA ToExpireStep ==
  ASSUME RecordsTypeOK, [RecordsNext]_records,
         NEW t \in Threads, initiate'[t] = initiate[t],
         NEW dead \in CallIds \X Active, ToExpire(t, dead)
  PROVE  Left(dead)' \/ ToExpire(t, dead)'
<1>1. LegalStep(dead[1])
  BY StepLegal
<1>2. CASE calls'[dead[1]].status = calls[dead[1]].status
  <2>1. calls[dead[1]].stale
    BY DEF ToExpire, Stale
  <2>2. calls'[dead[1]].stale /\ Humans(dead[1])' = Humans(dead[1])
    BY <1>2, <2>1, StaleStep DEF ToExpire
  <2> QED
    BY <1>2, <2>2 DEF ToExpire, Stale, CallsOf
<1>3. CASE calls'[dead[1]].status # calls[dead[1]].status
  BY <1>1, <1>3 DEF LegalStep, Left, ToExpire, Transitions, Active
<1> QED
  BY <1>2, <1>3

LEMMA DeadStep == DeadInv /\ [RecordsNext]_records => DeadInv'
<1> SUFFICES ASSUME DeadInv, [RecordsNext]_records,
                    NEW t \in Threads, NEW dead \in initiate'[t].dead
             PROVE  Left(dead)' \/ ToExpire(t, dead)'
  BY StepTypeOK DEF DeadInv
<1> USE DEF DeadInv, RecordsTypeOK
<1>0. dead \in CallIds \X Active
  BY StepTypeOK DEF InitiateRequest
<1>1. CASE initiate'[t] = initiate[t]
  BY <1>0, <1>1, LeftStable, ToExpireStep
<1>2. CASE initiate'[t].dead = {}
  BY <1>2
<1>3. CASE InitiateBegin(t)
  <2>1. PICK pair \in MayCall :
          initiate' = [initiate EXCEPT
             ![t] = [pc |-> "expire_ringing", caller |-> pair[1], callee |-> pair[2],
                     dead |-> {<<c, calls[c].status>> :
                                 c \in Stale(pair[1]) \cup Stale(pair[2])}]]
    BY <1>3 DEF InitiateBegin
  <2>2. PICK c \in Stale(pair[1]) \cup Stale(pair[2]) : dead = <<c, calls[c].status>>
    BY <2>1
  <2>3. calls' = calls
    BY <1>3 DEF InitiateBegin
  <2>4. /\ initiate'[t].pc = "expire_ringing"
        /\ initiate'[t].caller = pair[1]
        /\ initiate'[t].callee = pair[2]
    BY <2>1
  <2>5. c \in (Stale(initiate[t].caller) \cup Stale(initiate[t].callee))'
    BY <2>2, <2>3, <2>4 DEF Stale, CallsOf, Humans
  <2> QED
    BY <2>2, <2>3, <2>4, <2>5 DEF ToExpire
<1>4. CASE expire_stale_calls(t)
  <2>1. dead \in initiate[t].dead
    BY <1>4 DEF expire_stale_calls, ExpireBoth, UpdateStale, Goto, InitiateRequest
  <2>2. CASE Left(dead)
    BY <1>0, <2>2, LeftStable
  <2>3. CASE ToExpire(t, dead)
    <3>1. CASE /\ initiate[t].pc = "expire_ringing" /\ dead[2] = "connected"
               /\ Goto(t, "expire_connected")
      <4>1. calls'[dead[1]] = calls[dead[1]]
        BY <1>0, <1>4, <2>3, <3>1
           DEF expire_stale_calls, ExpireBoth, UpdateStale, ToExpire
      <4>2. /\ initiate'[t].pc = "expire_connected"
            /\ initiate'[t].caller = initiate[t].caller
            /\ initiate'[t].callee = initiate[t].callee
        BY <3>1 DEF Goto, InitiateRequest
      <4> QED
        BY <2>3, <3>1, <4>1, <4>2 DEF ToExpire, Stale, CallsOf, Humans
    <3>2. CASE calls'[dead[1]] = expired(calls[dead[1]])
      BY <1>0, <2>3, <3>2 DEF expired, ToExpire, Left, CallRecord, Active
    <3> QED
      BY <1>0, <1>4, <2>3, <3>1, <3>2
         DEF expire_stale_calls, ExpireBoth, UpdateStale, ToExpire, Active
  <2> QED
    BY <2>1, <2>2, <2>3
<1>5. ASSUME NEW u \in Threads, Initiate(u), u # t PROVE initiate'[t] = initiate[t]
  BY <1>5 DEF Initiate, InitiateBegin, expire_stale_calls, ExpireBoth, CallerBusyCheck,
     CalleeBusyCheck, TokenFailure, CreateRecord, Goto, Return
<1>6. CASE CallerBusyCheck(t) \/ CalleeBusyCheck(t) \/ TokenFailure(t)
           \/ \E c \in CallIds : CreateRecord(t, c)
  <2>1. CASE Return(t)
    BY <1>2, <2>1 DEF Return, Idle
  <2>2. CASE /\ initiate[t].pc \in {"caller_busy", "callee_busy"}
             /\ initiate'[t].dead = initiate[t].dead
    BY <1>0, <2>2, LeftStable DEF ToExpire
  <2>3. ASSUME NEW pc, Goto(t, pc) PROVE initiate'[t].dead = initiate[t].dead
    BY <2>3 DEF Goto, InitiateRequest
  <2> QED
    BY <1>6, <2>1, <2>2, <2>3 DEF CallerBusyCheck, CalleeBusyCheck, TokenFailure, CreateRecord
<1>7. ASSUME NEW c \in CallIds, Transaction(c) \/ GrowStale(c)
      PROVE  initiate'[t] = initiate[t]
  BY <1>7 DEF Transaction, GrowStale, Connect, Decline, Cancel, Miss, HangUp, Finish
<1>8. CASE UNCHANGED records
  BY <1>1, <1>8 DEF records
<1> QED
  BY <1>1, <1>3, <1>4, <1>5, <1>6, <1>7, <1>8 DEF RecordsNext, Initiate

(* A record that was dead when a request began is no obstacle to it.       *)
THEOREM DeadCallsNeverBlock == Records => []DeadNeverBlocks
<1>1. RecordsInit => DeadInv
  BY InitTypeOK DEF RecordsInit, DeadInv, Idle
<1>2. DeadInv => DeadNeverBlocks
  BY DEF DeadInv, DeadNeverBlocks, Left, ToExpire
<1> QED
  BY <1>1, <1>2, DeadStep, PTL DEF Records

(***************************************************************************)
(* The call service.                                                       *)
(***************************************************************************)
LEMMA EffectsTyped ==
  /\ \A e \in Events, p \in Parties : Push(e, p) \in Effect
  /\ \A s \in Terminal : Post(s) \in Effect
  /\ DeleteRoom \in Effect
  BY DEF Effect

(***************************************************************************)
(* What a step does to the table and to the effects of a call.             *)
(***************************************************************************)
\* the effects that a transaction ending call c leaves
Ending(c) ==
    \/ /\ Decline(c)
       /\ Then(c, {Push("call_declined", "caller"), DeleteRoom, Post("declined")})
    \/ /\ Cancel(c)
       /\ Then(c, {Push("call_cancelled", "callee"), DeleteRoom, Post("cancelled")})
    \/ /\ Miss(c)
       /\ Then(c, {Push("call_timeout", "callee"), Post("missed")})
    \/ /\ HangUp(c, "caller_hangup")
       /\ Then(c, {Push("call_ended", "callee"), Post("ended")})
    \/ /\ HangUp(c, "callee_hangup")
       /\ Then(c, {Push("call_ended", "caller"), Post("ended")})
    \/ /\ HangUp(c, "room_empty")
       /\ Then(c, {Push("call_ended", "caller"), Push("call_ended", "callee"), Post("ended")})

\* the effect is carried out, or lost
EffectGone(c, e) ==
    /\ e \in todo[c]
    /\ todo' = [todo EXCEPT ![c] = @ \ {e}]
    /\ \/ UNCHANGED thread
       \/ e.do = "post" /\ thread' = [thread EXCEPT ![c] = Append(@, e.what)]
    /\ UNCHANGED records

WebhooksTyped == \A w \in webhooks : w.call \in CallIds

LEMMA WebhookTypedStep == WebhooksTyped /\ [Next]_vars => WebhooksTyped'
<1> SUFFICES ASSUME WebhooksTyped, [Next]_vars, NEW w \in webhooks' PROVE w.call \in CallIds
  BY DEF WebhooksTyped
<1>1. CASE w \in webhooks
  BY <1>1 DEF WebhooksTyped
<1>2. ASSUME NEW c \in CallIds, Room(c), w \notin webhooks PROVE w.call \in CallIds
  BY <1>2 DEF Room, EmptyTimeout, JoinRoom, LeaveRoom, Close, Webhook
<1>3. ASSUME NEW c \in CallIds, NEW e, PerformEffect(c, e), w \notin webhooks
      PROVE  w.call \in CallIds
  BY <1>3 DEF PerformEffect, insert_call_event_message, dispatch_call_event_push,
     delete_room, Close, Webhook
<1>4. ASSUME w \notin webhooks,
             \/ UNCHANGED webhooks
             \/ \E v : webhooks' = webhooks \ {v}
      PROVE  FALSE
  BY <1>4
<1>5. CASE UNCHANGED vars
  BY <1>1, <1>5 DEF vars
<1>6. ASSUME NEW t \in Threads, initiate_call(t) PROVE UNCHANGED webhooks
  BY <1>6 DEF initiate_call
<1>7. ASSUME NEW c \in CallIds, Setup(c) \/ Respond(c) \/ TimePasses(c) PROVE UNCHANGED webhooks
  BY <1>7 DEF Setup, CreateRoom, ReadStatus, dispatch_call_push, Respond, accept_call,
     decline_call, cancel_call, end_call, TimePasses
<1>8. ASSUME NEW c, NEW e, LoseEffect(c, e) PROVE UNCHANGED webhooks
  BY <1>8 DEF LoseEffect
<1>9. ASSUME NEW c, NEW d, Watchdog(c, d) PROVE UNCHANGED webhooks
  BY <1>9 DEF Watchdog
<1>10. ASSUME NEW v, livekit_webhook(v) \/ LoseWebhook(v)
       PROVE  UNCHANGED webhooks \/ webhooks' = webhooks \ {v}
  BY <1>10 DEF livekit_webhook, LoseWebhook
<1>11. ASSUME NEW n, DeliverPush(n) \/ LosePush(n) PROVE UNCHANGED webhooks
  BY <1>11 DEF DeliverPush, LosePush
<1> QED
  BY <1>1, <1>2, <1>3, <1>4, <1>5, <1>6, <1>7, <1>8, <1>9, <1>10, <1>11 DEF Next

LEMMA Steps ==
  ASSUME WebhooksTyped, [Next]_vars
  PROVE  \/ UNCHANGED <<records, todo, thread>>
         \/ /\ UNCHANGED <<todo, thread>>
            /\ \/ \E t \in Threads : Initiate(t)
               \/ \E c \in CallIds : Connect(c) \/ GrowStale(c)
         \/ /\ UNCHANGED thread
            /\ \E c \in CallIds : Ending(c)
         \/ \E c \in CallIds : \E e \in todo[c] : EffectGone(c, e)
<1>1. ASSUME NEW t \in Threads, initiate_call(t)
      PROVE  UNCHANGED <<todo, thread>> /\ Initiate(t)
  BY <1>1 DEF initiate_call, Initiate
<1>2. ASSUME NEW c \in CallIds, Setup(c) \/ Room(c)
      PROVE  UNCHANGED <<records, todo, thread>>
  BY <1>2 DEF Setup, CreateRoom, ReadStatus, dispatch_call_push, Room, EmptyTimeout,
     JoinRoom, LeaveRoom, backend
<1>3. ASSUME NEW c \in CallIds, accept_call(c) \/ TimePasses(c)
      PROVE  UNCHANGED <<todo, thread>> /\ (Connect(c) \/ GrowStale(c))
  BY <1>3 DEF accept_call, TimePasses
<1>4. ASSUME NEW c \in CallIds,
             decline_call(c) \/ cancel_call(c) \/ \E p \in Parties : end_call(c, p)
      PROVE  UNCHANGED thread /\ Ending(c)
  BY <1>4 DEF decline_call, cancel_call, end_call, Ending
<1>5. ASSUME NEW c \in CallIds, NEW e \in todo[c], PerformEffect(c, e) \/ LoseEffect(c, e)
      PROVE  EffectGone(c, e)
  BY <1>5 DEF PerformEffect, LoseEffect, EffectGone, insert_call_event_message,
     dispatch_call_event_push, delete_room
<1>6. ASSUME NEW c, NEW d, Watchdog(c, d)
      PROVE  UNCHANGED <<records, todo, thread>>
  BY <1>6 DEF Watchdog, backend
<1>7. ASSUME NEW n, DeliverPush(n) \/ LosePush(n)
      PROVE  UNCHANGED <<records, todo, thread>>
  BY <1>7 DEF DeliverPush, LosePush, backend
<1>8. ASSUME NEW w, LoseWebhook(w)
      PROVE  UNCHANGED <<records, todo, thread>>
  BY <1>8 DEF LoseWebhook, backend
<1>9. ASSUME NEW w \in webhooks, livekit_webhook(w)
      PROVE  /\ UNCHANGED thread
             /\ \/ UNCHANGED <<records, todo>>
                \/ UNCHANGED todo /\ Connect(w.call)
                \/ Ending(w.call)
  BY <1>9 DEF livekit_webhook, room_finished, participant_joined, participant_left, Ending
<1>10. CASE UNCHANGED vars
  BY <1>10 DEF vars, backend
<1> QED
  BY <1>1, <1>2, <1>3, <1>4, <1>5, <1>6, <1>7, <1>8, <1>9, <1>10 DEF Next, Respond, WebhooksTyped

LEMMA EndingTransaction ==
  ASSUME NEW c \in CallIds, Ending(c)
  PROVE  Transaction(c)
  BY DEF Ending, Transaction, HangUpReasons

LEMMA RecordsStep ==
  ASSUME WebhooksTyped, [Next]_vars
  PROVE  [RecordsNext]_records
  BY Steps, EndingTransaction DEF RecordsNext, Transaction, EffectGone

(* The whole call service, with its threads, webhooks and lost effects,    *)
(* changes the table by the transactions of CallRecords only, so that what *)
(* is proved of CallRecords holds of it.                                   *)
THEOREM CallsImplementRecords == Spec => ImplementsRecords
<1>1. Init => RecordsInit /\ WebhooksTyped
  BY DEF Init, WebhooksTyped
<1>2. WebhooksTyped /\ [Next]_vars => [RecordsNext]_records
  BY RecordsStep
<1> QED
  BY <1>1, <1>2, WebhookTypedStep, PTL DEF Spec, Records, ImplementsRecords

(***************************************************************************)
(* The effects.                                                            *)
(***************************************************************************)
CallEffects(c) ==
    /\ \A e \in todo[c] :
          e.do = "post" => /\ e = Post(calls[c].status)
                           /\ calls[c].status \in Terminal
                           /\ thread[c] = <<>>
    /\ thread[c] \in {<<>>, <<calls[c].status>>}
    /\ thread[c] # <<>> => calls[c].status \in Terminal
    /\ DeleteRoom \in todo[c] => calls[c].status \in {"declined", "cancelled"}

EffectsInv ==
    /\ WebhooksTyped
    /\ RecordsTypeOK
    /\ todo \in [CallIds -> SUBSET Effect]
    /\ thread \in [CallIds -> Seq(Terminal)]
    /\ \A c \in CallIds : CallEffects(c)

LEMMA EffectsInit == Init => EffectsInv
<1> SUFFICES ASSUME Init PROVE EffectsInv
  OBVIOUS
<1>1. RecordsTypeOK
  BY InitTypeOK DEF Init
<1>2. thread \in [CallIds -> Seq(Terminal)]
  BY DEF Init
<1> QED
  BY <1>1, <1>2 DEF Init, EffectsInv, WebhooksTyped, CallEffects

\* a call that is over stays as it is
LEMMA OverIsFinal ==
  ASSUME RecordsTypeOK, [RecordsNext]_records, NEW c \in CallIds,
         calls[c].status \in Terminal
  PROVE  calls'[c].status = calls[c].status
<1>1. LegalStep(c)
  BY StepLegal
<1> QED
  BY <1>1 DEF LegalStep, Transitions, Terminal

\* what has been posted or is pending does not change, whatever happens to
\* the table
LEMMA EffectsKept ==
  ASSUME EffectsInv, [RecordsNext]_records, NEW c \in CallIds,
         todo'[c] = todo[c], thread'[c] = thread[c]
  PROVE  CallEffects(c)'
<1>1. CallEffects(c)
  BY DEF EffectsInv
<1>2. CASE calls[c].status \in Terminal
  <2>1. calls'[c].status = calls[c].status
    BY <1>2, OverIsFinal DEF EffectsInv
  <2> QED
    BY <1>1, <2>1 DEF CallEffects
<1>3. CASE calls[c].status \notin Terminal
  <2>1. /\ \A e \in todo[c] : e.do # "post"
        /\ thread[c] = <<>>
        /\ DeleteRoom \notin todo[c]
    BY <1>1, <1>3 DEF CallEffects, Terminal
  <2> QED
    BY <2>1 DEF CallEffects
<1> QED
  BY <1>2, <1>3

LEMMA EndingEffects ==
  ASSUME EffectsInv, UNCHANGED thread, NEW c \in CallIds, Ending(c)
  PROVE  CallEffects(c)' /\ todo' \in [CallIds -> SUBSET Effect]
                         /\ \A d \in CallIds : d # c => todo'[d] = todo[d]
<1> USE DEF EffectsInv
<1>1. CallEffects(c) /\ calls[c] \in CallRecord
  BY DEF RecordsTypeOK
<1>2. ASSUME NEW from \in Active, NEW status \in Terminal, NEW reason,
             NEW E \in SUBSET Effect,
             Finish(c, from, status, reason), Then(c, E),
             \A e \in E : e.do = "post" => e = Post(status),
             DeleteRoom \in E => status \in {"declined", "cancelled"}
      PROVE  CallEffects(c)' /\ todo' \in [CallIds -> SUBSET Effect]
                             /\ \A d \in CallIds : d # c => todo'[d] = todo[d]
  <2>1. /\ calls[c].status = from
        /\ calls'[c].status = status
    BY <1>1, <1>2 DEF Finish, RecordsTypeOK, CallRecord
  <2>2. /\ todo'[c] = todo[c] \cup E
        /\ todo' \in [CallIds -> SUBSET Effect]
        /\ \A d \in CallIds : d # c => todo'[d] = todo[d]
    BY <1>2 DEF Then
  <2>3. /\ \A e \in todo[c] : e.do # "post"
        /\ thread[c] = <<>>
        /\ DeleteRoom \notin todo[c]
    BY <1>1, <1>2, <2>1 DEF CallEffects, Active, Terminal
  <2> QED
    BY <1>2, <2>1, <2>2, <2>3 DEF CallEffects
<1>3. "ringing" \in Active /\ "connected" \in Active
  BY DEF Active
<1>4. /\ "declined" \in Terminal /\ "cancelled" \in Terminal
      /\ "missed" \in Terminal /\ "ended" \in Terminal
  BY DEF Terminal
<1>5. CASE /\ Decline(c)
           /\ Then(c, {Push("call_declined", "caller"), DeleteRoom, Post("declined")})
  <2>1. {Push("call_declined", "caller"), DeleteRoom, Post("declined")} \in SUBSET Effect
    BY <1>4, EffectsTyped DEF Events, Parties
  <2>2. /\ \A e \in {Push("call_declined", "caller"), DeleteRoom, Post("declined")} : e.do = "post" => e = Post("declined")
        /\ "declined" \in {"declined", "cancelled"}
    BY DEF Push, Post, DeleteRoom
  <2>3. Finish(c, "ringing", "declined", "callee_declined")
    BY <1>5 DEF Decline
  <2> QED
    BY <1>2, <1>3, <1>4, <1>5, <2>1, <2>2, <2>3
<1>6. CASE /\ Cancel(c)
           /\ Then(c, {Push("call_cancelled", "callee"), DeleteRoom, Post("cancelled")})
  <2>1. {Push("call_cancelled", "callee"), DeleteRoom, Post("cancelled")} \in SUBSET Effect
    BY <1>4, EffectsTyped DEF Events, Parties
  <2>2. /\ \A e \in {Push("call_cancelled", "callee"), DeleteRoom, Post("cancelled")} : e.do = "post" => e = Post("cancelled")
        /\ "cancelled" \in {"declined", "cancelled"}
    BY DEF Push, Post, DeleteRoom
  <2>3. Finish(c, "ringing", "cancelled", "caller_cancelled")
    BY <1>6 DEF Cancel
  <2> QED
    BY <1>2, <1>3, <1>4, <1>6, <2>1, <2>2, <2>3
<1>7. CASE /\ Miss(c)
           /\ Then(c, {Push("call_timeout", "callee"), Post("missed")})
  <2>1. {Push("call_timeout", "callee"), Post("missed")} \in SUBSET Effect
    BY <1>4, EffectsTyped DEF Events, Parties
  <2>2. \A e \in {Push("call_timeout", "callee"), Post("missed")} : (e.do = "post" => e = Post("missed")) /\ e # DeleteRoom
    BY DEF Push, Post, DeleteRoom
  <2>3. Finish(c, "ringing", "missed", "timeout")
    BY <1>7 DEF Miss
  <2> QED
    BY <1>2, <1>3, <1>4, <1>7, <2>1, <2>2, <2>3
<1>8. ASSUME NEW reason, HangUp(c, reason),
             NEW E \in SUBSET {Push("call_ended", "caller"), Push("call_ended", "callee"),
                               Post("ended")},
             Then(c, E)
      PROVE  CallEffects(c)' /\ todo' \in [CallIds -> SUBSET Effect]
                             /\ \A d \in CallIds : d # c => todo'[d] = todo[d]
  <2>1. E \in SUBSET Effect
    BY <1>4, EffectsTyped DEF Events, Parties
  <2>2. \A e \in E : (e.do = "post" => e = Post("ended")) /\ e # DeleteRoom
    BY DEF Push, Post, DeleteRoom
  <2>3. Finish(c, "connected", "ended", reason)
    BY <1>8 DEF HangUp
  <2> QED
    BY <1>2, <1>3, <1>4, <1>8, <2>1, <2>2, <2>3
<1>9. ASSUME NEW reason,
             \/ /\ HangUp(c, reason)
                /\ Then(c, {Push("call_ended", "callee"), Post("ended")})
             \/ /\ HangUp(c, reason)
                /\ Then(c, {Push("call_ended", "caller"), Post("ended")})
             \/ /\ HangUp(c, reason)
                /\ Then(c, {Push("call_ended", "caller"), Push("call_ended", "callee"),
                            Post("ended")})
      PROVE  CallEffects(c)' /\ todo' \in [CallIds -> SUBSET Effect]
                             /\ \A d \in CallIds : d # c => todo'[d] = todo[d]
  <2> DEFINE All == {Push("call_ended", "caller"), Push("call_ended", "callee"), Post("ended")}
  <2>1. /\ {Push("call_ended", "callee"), Post("ended")} \in SUBSET All
        /\ {Push("call_ended", "caller"), Post("ended")} \in SUBSET All
        /\ All \in SUBSET All
    OBVIOUS
  <2>2. CASE /\ HangUp(c, reason)
             /\ Then(c, {Push("call_ended", "callee"), Post("ended")})
    BY <1>8, <2>1, <2>2
  <2>3. CASE /\ HangUp(c, reason)
             /\ Then(c, {Push("call_ended", "caller"), Post("ended")})
    BY <1>8, <2>1, <2>3
  <2>4. CASE HangUp(c, reason) /\ Then(c, All)
    BY <1>8, <2>1, <2>4
  <2> QED
    BY <1>9, <2>2, <2>3, <2>4
<1> QED
  BY <1>5, <1>6, <1>7, <1>9 DEF Ending

LEMMA GoneEffects ==
  ASSUME EffectsInv, NEW c \in CallIds, NEW e \in todo[c], EffectGone(c, e)
  PROVE  /\ CallEffects(c)'
         /\ todo' \in [CallIds -> SUBSET Effect]
         /\ thread' \in [CallIds -> Seq(Terminal)]
         /\ \A d \in CallIds : d # c => todo'[d] = todo[d] /\ thread'[d] = thread[d]
<1> USE DEF EffectsInv, EffectGone
<1>1. CallEffects(c)
  OBVIOUS
<1>2. calls' = calls
  BY DEF records
<1>3. /\ todo'[c] = todo[c] \ {e}
      /\ todo' \in [CallIds -> SUBSET Effect]
      /\ \A d \in CallIds : d # c => todo'[d] = todo[d]
  OBVIOUS
<1>4. CASE UNCHANGED thread
  BY <1>1, <1>2, <1>3, <1>4 DEF CallEffects
<1>5. CASE e.do = "post" /\ thread' = [thread EXCEPT ![c] = Append(@, e.what)]
  <2>1. /\ e = Post(calls[c].status)
        /\ calls[c].status \in Terminal
        /\ thread[c] = <<>>
    BY <1>1, <1>5 DEF CallEffects
  <2>2. /\ thread'[c] = <<calls[c].status>>
        /\ thread' \in [CallIds -> Seq(Terminal)]
        /\ \A d \in CallIds : d # c => thread'[d] = thread[d]
    BY <1>5, <2>1 DEF Post
  <2>3. \A f \in todo'[c] : f.do # "post"
    BY <1>1, <1>3, <2>1 DEF CallEffects
  <2> QED
    BY <1>1, <1>2, <1>3, <2>1, <2>2, <2>3 DEF CallEffects
<1> QED
  BY <1>4, <1>5

LEMMA EffectsStep == EffectsInv /\ [Next]_vars => EffectsInv'
<1> SUFFICES ASSUME EffectsInv, [Next]_vars PROVE EffectsInv'
  OBVIOUS
<1>1. [RecordsNext]_records
  BY RecordsStep DEF EffectsInv
<1>2. RecordsTypeOK' /\ WebhooksTyped'
  BY <1>1, StepTypeOK, WebhookTypedStep DEF EffectsInv
<1>3. CASE UNCHANGED <<todo, thread>>
  BY <1>1, <1>2, <1>3, EffectsKept DEF EffectsInv
<1>4. ASSUME UNCHANGED thread, NEW c \in CallIds, Ending(c) PROVE EffectsInv'
  <2>1. /\ CallEffects(c)'
        /\ todo' \in [CallIds -> SUBSET Effect]
        /\ \A d \in CallIds : d # c => todo'[d] = todo[d]
    BY <1>4, EndingEffects
  <2>2. \A d \in CallIds : d # c => CallEffects(d)'
    BY <1>1, <1>4, <2>1, EffectsKept
  <2> QED
    BY <1>2, <1>4, <2>1, <2>2 DEF EffectsInv
<1>5. ASSUME NEW c \in CallIds, NEW e \in todo[c], EffectGone(c, e) PROVE EffectsInv'
  <2>1. /\ CallEffects(c)'
        /\ todo' \in [CallIds -> SUBSET Effect]
        /\ thread' \in [CallIds -> Seq(Terminal)]
        /\ \A d \in CallIds : d # c => todo'[d] = todo[d] /\ thread'[d] = thread[d]
    BY <1>5, GoneEffects
  <2>2. \A d \in CallIds : d # c => CallEffects(d)'
    BY <1>1, <2>1, EffectsKept
  <2> QED
    BY <1>2, <2>1, <2>2 DEF EffectsInv
<1> QED
  BY <1>3, <1>4, <1>5, Steps DEF EffectsInv

LEMMA EffectsHold == Spec => []EffectsInv
  BY EffectsInit, EffectsStep, PTL DEF Spec

(* The thread shows at most one event of a call, and it is its outcome.    *)
THEOREM PostedOnce == Spec => []ThreadOnce
<1>1. EffectsInv => ThreadOnce
  BY DEF EffectsInv, CallEffects, ThreadOnce
<1> QED
  BY <1>1, EffectsHold, PTL

(* No room is deleted unless its call can never connect any more.          *)
THEOREM OnlyDeadRoomsDeleted == Spec => []DeletesDeadRooms
<1>1. EffectsInv => DeletesDeadRooms
  BY DEF EffectsInv, CallEffects, DeletesDeadRooms
<1> QED
  BY <1>1, EffectsHold, PTL

(***************************************************************************)
(* Types of what surrounds the table: set-up threads, rooms, webhooks and  *)
(* pushes.                                                                 *)
(***************************************************************************)
WebhookType ==
    [event : {"room_finished", "participant_joined", "participant_left"},
     call : CallIds, who : Parties \cup {"nobody"}, num_participants : 0 .. 2]

PushType == [call : CallIds, kind : {"ring", "stop"}, device : Devices]

SurroundingsTypeOK ==
    /\ setup \in [CallIds -> {"create_room", "read_status", "dispatch", "done"}]
    /\ room \in [CallIds -> {"none", "open", "closed"}]
    /\ inroom \in [CallIds -> SUBSET Parties]
    /\ joins \in [CallIds -> [Parties -> 0 .. MaxJoins]]
    /\ webhooks \subseteq WebhookType
    /\ pushes \subseteq PushType
    /\ ringing \in [CallIds -> SUBSET Devices]

\* a room has at most two parties
LEMMA PartiesInRoom ==
  ASSUME NEW S \in SUBSET Parties
  PROVE  Cardinality(S) \in 0 .. 2
<1>1. IsFiniteSet(Parties) /\ Cardinality(Parties) \in 0 .. 2
  <2>1. IsFiniteSet({"caller"}) /\ Cardinality({"caller"}) = 1
    BY FS_Singleton
  <2>2. Parties = {"caller"} \cup {"callee"}
    BY DEF Parties
  <2>3. IsFiniteSet(Parties) /\ Cardinality(Parties) \in {1, 2}
    BY <2>1, <2>2, FS_AddElement
  <2> QED
    BY <2>3
<1>2. IsFiniteSet(S) /\ Cardinality(S) <= Cardinality(Parties)
  BY <1>1, FS_Subset
<1>3. Cardinality(S) \in Nat
  BY <1>2, FS_CardinalityType
<1> QED
  BY <1>1, <1>2, <1>3

LEMMA WebhookIsTyped ==
  ASSUME NEW c \in CallIds,
         NEW event \in {"room_finished", "participant_joined", "participant_left"},
         NEW who \in Parties \cup {"nobody"}, NEW n \in 0 .. 2
  PROVE  Webhook(event, c, who, n) \in WebhookType
  BY DEF Webhook, WebhookType

LEMMA DevicesTyped ==
  ASSUME NEW c \in CallIds, NEW kind \in {"ring", "stop"}, NEW D \in SUBSET Devices
  PROVE  ToDevices(c, kind, D) \subseteq PushType
  BY DEF ToDevices, PushType

LEMMA RoomTyped ==
  ASSUME SurroundingsTypeOK, NEW c \in CallIds, Room(c)
  PROVE  SurroundingsTypeOK'
<1>1. ASSUME EmptyTimeout(c) PROVE SurroundingsTypeOK'
  <2>1. Webhook("room_finished", c, "nobody", 0) \in WebhookType
    BY WebhookIsTyped
  <2> QED
    BY <1>1, <2>1 DEF EmptyTimeout, Close, SurroundingsTypeOK, backend, phones
<1>2. ASSUME NEW p \in Parties, JoinRoom(c, p) PROVE SurroundingsTypeOK'
  <2>1. inroom' \in [CallIds -> SUBSET Parties]
    BY <1>2 DEF JoinRoom, SurroundingsTypeOK
  <2>2. Cardinality(inroom'[c]) \in 0 .. 2
    BY <2>1, PartiesInRoom
  <2>3. Webhook("participant_joined", c, p, Cardinality(inroom'[c])) \in WebhookType
    BY <2>2, WebhookIsTyped
  <2>4. webhooks' \subseteq WebhookType
    BY <1>2, <2>3 DEF JoinRoom, SurroundingsTypeOK
  <2>5. joins[c][p] + 1 \in 0 .. MaxJoins
    BY <1>2, CallsAssumption DEF JoinRoom, SurroundingsTypeOK
  <2>6. joins' \in [CallIds -> [Parties -> 0 .. MaxJoins]]
    BY <1>2, <2>5 DEF JoinRoom, SurroundingsTypeOK
  <2> QED
    BY <1>2, <2>1, <2>4, <2>6 DEF JoinRoom, SurroundingsTypeOK, backend, phones
<1>3. ASSUME NEW p \in Parties, LeaveRoom(c, p) PROVE SurroundingsTypeOK'
  <2>1. inroom' \in [CallIds -> SUBSET Parties]
    BY <1>3 DEF LeaveRoom, SurroundingsTypeOK
  <2>2. Cardinality(inroom'[c]) \in 0 .. 2
    BY <2>1, PartiesInRoom
  <2>3. Webhook("participant_left", c, p, Cardinality(inroom'[c])) \in WebhookType
    BY <2>2, WebhookIsTyped
  <2>4. webhooks' \subseteq WebhookType
    BY <1>3, <2>3 DEF LeaveRoom, SurroundingsTypeOK
  <2> QED
    BY <1>3, <2>1, <2>4 DEF LeaveRoom, SurroundingsTypeOK, backend, phones
<1> QED
  BY <1>1, <1>2, <1>3 DEF Room

LEMMA EffectTyped ==
  ASSUME SurroundingsTypeOK, NEW c \in CallIds, NEW e \in todo[c], PerformEffect(c, e)
  PROVE  SurroundingsTypeOK'
<1>1. ASSUME insert_call_event_message(c, e) PROVE SurroundingsTypeOK'
  BY <1>1 DEF PerformEffect, insert_call_event_message, SurroundingsTypeOK, livekit
<1>2. ASSUME dispatch_call_event_push(c, e) PROVE SurroundingsTypeOK'
  <2>1. pushes' \subseteq PushType
    BY <1>2, DevicesTyped DEF dispatch_call_event_push, SurroundingsTypeOK
  <2> QED
    BY <1>2, <2>1 DEF PerformEffect, dispatch_call_event_push, SurroundingsTypeOK, livekit
<1>3. ASSUME delete_room(c, e) PROVE SurroundingsTypeOK'
  <2>1. CASE room[c] = "open"
    <3> DEFINE left == {Webhook("participant_left", c, p, 0) : p \in inroom[c]}
    <3>1. left \subseteq WebhookType
      BY WebhookIsTyped DEF SurroundingsTypeOK
    <3>2. Webhook("room_finished", c, "nobody", 0) \in WebhookType
      BY WebhookIsTyped
    <3>3. Close(c, left)
      BY <1>3, <2>1 DEF delete_room
    <3> HIDE DEF left
    <3> QED
      BY <1>3, <3>1, <3>2, <3>3 DEF PerformEffect, delete_room, Close, SurroundingsTypeOK
  <2>2. CASE room[c] # "open"
    BY <1>3, <2>2 DEF PerformEffect, delete_room, SurroundingsTypeOK
  <2> QED
    BY <2>1, <2>2
<1> QED
  BY <1>1, <1>2, <1>3 DEF PerformEffect

LEMMA SetupTyped ==
  ASSUME SurroundingsTypeOK, NEW c \in CallIds, Setup(c)
  PROVE  SurroundingsTypeOK'
<1>1. ASSUME CreateRoom(c) PROVE SurroundingsTypeOK'
  BY <1>1 DEF CreateRoom, SurroundingsTypeOK, phones
<1>2. ASSUME ReadStatus(c) PROVE SurroundingsTypeOK'
  BY <1>2 DEF ReadStatus, SurroundingsTypeOK, livekit, phones
<1>3. ASSUME dispatch_call_push(c) PROVE SurroundingsTypeOK'
  BY <1>3, DevicesTyped DEF dispatch_call_push, SurroundingsTypeOK, livekit
<1> QED
  BY <1>1, <1>2, <1>3 DEF Setup

LEMMA PhonesTyped ==
  ASSUME SurroundingsTypeOK,
         \/ \E c \in CallIds, d \in Devices : Watchdog(c, d)
         \/ \E n \in pushes : DeliverPush(n) \/ LosePush(n)
  PROVE  SurroundingsTypeOK'
<1>1. ASSUME NEW c \in CallIds, NEW d \in Devices, Watchdog(c, d) PROVE SurroundingsTypeOK'
  BY <1>1 DEF Watchdog, SurroundingsTypeOK, backend, livekit
<1>2. ASSUME NEW n \in pushes, DeliverPush(n) PROVE SurroundingsTypeOK'
  <2>1. n.call \in CallIds /\ n.device \in Devices
    BY DEF SurroundingsTypeOK, PushType
  <2>2. ringing' \in [CallIds -> SUBSET Devices]
    BY <1>2, <2>1 DEF DeliverPush, SurroundingsTypeOK
  <2> QED
    BY <1>2, <2>2 DEF DeliverPush, SurroundingsTypeOK, backend, livekit
<1>3. ASSUME NEW n \in pushes, LosePush(n) PROVE SurroundingsTypeOK'
  BY <1>3 DEF LosePush, SurroundingsTypeOK, backend, livekit
<1> QED
  BY <1>1, <1>2, <1>3

LEMMA SurroundingsStep ==
  SurroundingsTypeOK /\ [Next]_vars => SurroundingsTypeOK'
<1> SUFFICES ASSUME SurroundingsTypeOK, [Next]_vars PROVE SurroundingsTypeOK'
  OBVIOUS
<1>1. ASSUME NEW t \in Threads, initiate_call(t) PROVE SurroundingsTypeOK'
  BY <1>1 DEF initiate_call, SurroundingsTypeOK, livekit, phones
<1>2. ASSUME NEW c \in CallIds, Respond(c) \/ TimePasses(c) PROVE SurroundingsTypeOK'
  BY <1>2 DEF Respond, accept_call, decline_call, cancel_call, end_call, TimePasses,
     SurroundingsTypeOK, livekit, phones
<1>3. ASSUME NEW c \in CallIds, NEW e \in todo[c], LoseEffect(c, e) PROVE SurroundingsTypeOK'
  BY <1>3 DEF LoseEffect, SurroundingsTypeOK, livekit, phones
<1>4. ASSUME NEW w \in webhooks, livekit_webhook(w) \/ LoseWebhook(w) PROVE SurroundingsTypeOK'
  BY <1>4 DEF livekit_webhook, LoseWebhook, SurroundingsTypeOK, backend, livekit, phones
<1>5. CASE UNCHANGED vars
  BY <1>5 DEF vars, SurroundingsTypeOK, backend, livekit, phones
<1> QED
  BY <1>1, <1>2, <1>3, <1>4, <1>5, RoomTyped, EffectTyped, SetupTyped, PhonesTyped DEF Next

(* Types are kept, whatever is lost, late or repeated.                     *)
THEOREM CallsTypeCorrect == Spec => []TypeOK
<1>1. Init => SurroundingsTypeOK
  <2>1. [p \in Parties |-> 0] \in [Parties -> 0 .. MaxJoins]
    BY CallsAssumption
  <2> QED
    BY <2>1 DEF Init, SurroundingsTypeOK
<1>2. EffectsInv /\ SurroundingsTypeOK => TypeOK
  BY DEF EffectsInv, SurroundingsTypeOK, TypeOK, WebhookType, PushType
<1> QED
  BY <1>1, <1>2, SurroundingsStep, EffectsHold, PTL DEF Spec
=============================================================================
