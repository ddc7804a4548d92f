---------------------------- MODULE CallRecords ----------------------------
(***************************************************************************)
(* The CallRecord table (zproject/nodl/models/call_record.py) and every    *)
(* transaction that changes it: the queries of initiate_call, which are    *)
(* transactions of their own, and the locked transactions of the other     *)
(* handlers in views/calls.py and of the webhooks in                       *)
(* views/webhooks_livekit.py.  What the handlers do besides is in Calls.   *)
(***************************************************************************)
EXTENDS Integers, FiniteSets

CONSTANTS
    Profiles,       \* user profiles, one per human and workspace
    Human,          \* the human each profile belongs to
    MayCall,        \* pairs <<caller, callee>> of active profiles of one realm
    CallIds,        \* bound on the call records
    Threads,        \* the server threads that run initiate_call
    MaxRequests     \* bound on the initiate_call requests

ASSUME RecordsAssumption ==
    /\ MayCall \subseteq {pair \in Profiles \X Profiles : pair[1] # pair[2]}
    /\ MaxRequests \in Nat

VARIABLES
    calls,          \* the CallRecord table
    initiate,       \* the initiate_call request each thread runs
    requests        \* number of initiate_call requests so far

records == <<calls, initiate, requests>>

Active == {"ringing", "connected"}
Terminal == {"ended", "missed", "declined", "cancelled"}

CallRecord ==
    [status : Active \cup Terminal \cup {"unused"},
     caller : Profiles \cup {"nobody"},
     callee : Profiles \cup {"nobody"},
     answered : BOOLEAN,        \* answered_at is set
     end_reason : {"none", "caller_hangup", "callee_hangup", "callee_declined",
                   "caller_cancelled", "timeout", "error", "room_empty"},
     stale : BOOLEAN]           \* rings or is connected for longer than its window

Unused == [status |-> "unused", caller |-> "nobody", callee |-> "nobody",
           answered |-> FALSE, end_reason |-> "none", stale |-> FALSE]

NewCall(p, q) == [Unused EXCEPT !.status = "ringing", !.caller = p, !.callee = q]

Idle == [pc |-> "idle", caller |-> "nobody", callee |-> "nobody", dead |-> {}]

(***************************************************************************)
(* initiate_call.                                                          *)
(***************************************************************************)
Humans(c) == {Human[calls[c].caller], Human[calls[c].callee]}

\* the calls of the human behind a profile
CallsOf(p) == {c \in CallIds : calls[c].status # "unused" /\ Human[p] \in Humans(c)}

Stale(p) == {c \in CallsOf(p) : calls[c].status \in Active /\ calls[c].stale}

Goto(t, pc) == initiate' = [initiate EXCEPT ![t].pc = pc]

Return(t) == initiate' = [initiate EXCEPT ![t] = Idle]

InitiateBegin(t) ==
    /\ initiate[t].pc = "idle"
    /\ requests < MaxRequests
    /\ requests' = requests + 1
    /\ \E pair \in MayCall :
         initiate' = [initiate EXCEPT
             ![t] = [pc |-> "expire_ringing", caller |-> pair[1], callee |-> pair[2],
                     dead |-> {<<c, calls[c].status>> :
                                 c \in Stale(pair[1]) \cup Stale(pair[2])}]]
    /\ UNCHANGED calls

expired(call) ==
    IF call.status = "ringing"
    THEN [call EXCEPT !.status = "missed", !.end_reason = "timeout",
                      !.stale = FALSE]
    ELSE [call EXCEPT !.status = "ended", !.end_reason = "error",
                      !.stale = FALSE]

\* one UPDATE, of the stale calls in one status
UpdateStale(status, stale) ==
    /\ calls' = [c \in CallIds |-> IF c \in stale /\ calls[c].status = status
                                   THEN expired(calls[c]) ELSE calls[c]]
    /\ UNCHANGED requests

\* the ringing calls first, then the connected ones
ExpireBoth(t, stale) ==
    \/ /\ initiate[t].pc = "expire_ringing"
       /\ UpdateStale("ringing", stale)
       /\ Goto(t, "expire_connected")
    \/ /\ initiate[t].pc = "expire_connected"
       /\ UpdateStale("connected", stale)
       /\ Goto(t, "caller_busy")

\* mutant: expires the calls of the caller only
expire_stale_callsOfCaller(t) == ExpireBoth(t, Stale(initiate[t].caller))

expire_stale_calls(t) ==
    ExpireBoth(t, Stale(initiate[t].caller) \cup Stale(initiate[t].callee))

has_active_call(p) == \E c \in CallsOf(p) : calls[c].status \in Active

CallerBusyCheck(t) ==
    /\ initiate[t].pc = "caller_busy"
    /\ IF has_active_call(initiate[t].caller) THEN Return(t) ELSE Goto(t, "callee_busy")
    /\ UNCHANGED <<calls, requests>>

CalleeBusyCheck(t) ==
    /\ initiate[t].pc = "callee_busy"
    /\ IF has_active_call(initiate[t].callee) THEN Return(t) ELSE Goto(t, "create")
    /\ UNCHANGED <<calls, requests>>

TokenFailure(t) ==
    /\ initiate[t].pc = "create"
    /\ Return(t)
    /\ UNCHANGED <<calls, requests>>

CreateRecord(t, c) ==
    /\ initiate[t].pc = "create"
    /\ calls[c].status = "unused"
    /\ calls' = [calls EXCEPT ![c] = NewCall(initiate[t].caller, initiate[t].callee)]
    /\ Return(t)
    /\ UNCHANGED requests

(***************************************************************************)
(* The other transactions, each under the lock of its row.                 *)
(***************************************************************************)
Connect(c) ==
    /\ calls[c].status = "ringing"
    /\ calls' = [calls EXCEPT ![c].status = "connected", ![c].answered = TRUE,
                              ![c].stale = FALSE]
    /\ UNCHANGED <<initiate, requests>>

\* mutant: the status is not checked again under the lock
FinishUnchecked(c, from, status, reason) ==
    /\ calls[c].status # "unused"
    /\ calls' = [calls EXCEPT ![c].status = status, ![c].end_reason = reason,
                              ![c].stale = FALSE]
    /\ UNCHANGED <<initiate, requests>>

Finish(c, from, status, reason) ==
    /\ calls[c].status = from
    /\ calls' = [calls EXCEPT ![c].status = status, ![c].end_reason = reason,
                              ![c].stale = FALSE]
    /\ UNCHANGED <<initiate, requests>>

Decline(c) == Finish(c, "ringing", "declined", "callee_declined")
Cancel(c) == Finish(c, "ringing", "cancelled", "caller_cancelled")
Miss(c) == Finish(c, "ringing", "missed", "timeout")
HangUp(c, reason) == Finish(c, "connected", "ended", reason)

(* Time passes: the record outlives the window of its status.              *)
GrowStale(c) ==
    /\ calls[c].status \in Active /\ ~ calls[c].stale
    /\ calls' = [calls EXCEPT ![c].stale = TRUE]
    /\ UNCHANGED <<initiate, requests>>

RecordsInit ==
    /\ calls = [c \in CallIds |-> Unused]
    /\ initiate = [t \in Threads |-> Idle]
    /\ requests = 0

Initiate(t) ==
    \/ InitiateBegin(t) \/ expire_stale_calls(t)
    \/ CallerBusyCheck(t) \/ CalleeBusyCheck(t)
    \/ TokenFailure(t) \/ \E c \in CallIds : CreateRecord(t, c)

HangUpReasons == {"caller_hangup", "callee_hangup", "room_empty"}

Transaction(c) ==
    \/ Connect(c) \/ Decline(c) \/ Cancel(c) \/ Miss(c)
    \/ \E reason \in HangUpReasons : HangUp(c, reason)

RecordsNext ==
    \/ \E t \in Threads : Initiate(t)
    \/ \E c \in CallIds : Transaction(c) \/ GrowStale(c)

Records == RecordsInit /\ [][RecordsNext]_records

(***************************************************************************)
(* Properties.                                                             *)
(***************************************************************************)
InitiateRequest ==
    [pc : {"idle", "expire_ringing", "expire_connected", "caller_busy", "callee_busy",
           "create"},
     caller : Profiles \cup {"nobody"}, callee : Profiles \cup {"nobody"},
     dead : SUBSET (CallIds \X Active)]

RecordsTypeOK ==
    /\ calls \in [CallIds -> CallRecord]
    /\ initiate \in [Threads -> InitiateRequest]
    /\ requests \in 0 .. MaxRequests

(* A call only moves along the transitions of CallRecord, whichever of its *)
(* writers race: a terminal status is final, and the parties of a call     *)
(* never change.                                                           *)
Transitions ==
    {<<"unused", "ringing">>, <<"ringing", "connected">>, <<"connected", "ended">>}
        \cup {<<"ringing", s>> : s \in {"missed", "declined", "cancelled"}}

LegalStep(c) ==
    /\ calls'[c].status # calls[c].status
         => <<calls[c].status, calls'[c].status>> \in Transitions
    /\ calls[c].status # "unused"
         => calls'[c].caller = calls[c].caller /\ calls'[c].callee = calls[c].callee

Lifecycle == [][\A c \in CallIds : LegalStep(c)]_records

(* The outcome, the answer time and the reason of a record agree: a record *)
(* has an answer time exactly if the call connected, and its reason is one *)
(* its status can have.  History and durations are computed from them.     *)
Agrees(call) ==
    /\ call.answered <=> call.status \in {"connected", "ended"}
    /\ call.end_reason = "none" <=> call.status \in {"unused"} \cup Active
    /\ call.end_reason = "timeout" <=> call.status = "missed"
    /\ call.end_reason = "callee_declined" <=> call.status = "declined"
    /\ call.end_reason = "caller_cancelled" <=> call.status = "cancelled"

RecordsConsistent == \A c \in CallIds : Agrees(calls[c])

(* "One active call per HUMAN (across sibling workspace profiles)", the    *)
(* comment on the busy check of initiate_call.                             *)
OneActiveCallPerHuman ==
    \A c, d \in CallIds :
        (calls[c].status \in Active /\ calls[d].status \in Active /\ c # d)
            => Humans(c) \cap Humans(d) = {}

(* "Dead records must never block calls": a call that was dead when a      *)
(* request began is not what makes that request fail as busy; it is gone   *)
(* by then, or somebody has answered it after all.                         *)
DeadNeverBlocks ==
    \A t \in Threads :
        initiate[t].pc \in {"caller_busy", "callee_busy", "create"}
            => \A dead \in initiate[t].dead : calls[dead[1]].status # dead[2]
=============================================================================
