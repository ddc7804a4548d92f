--------------------------- MODULE WorkspaceSync ---------------------------
(***************************************************************************)
(* Workspaces and their members, as nodl-backend describes them, become    *)
(* realms and profiles: nodl/sync/workspace_sync.py, user_sync.py and      *)
(* user_deletion.py, called by nodl/api/views/internal.py, with the        *)
(* mapping of nodl/extensions/mapping.py.                                  *)
(*                                                                         *)
(* Humans who sign in are provisioned by nodl/views/auth_bridge_v2.py at   *)
(* the same time.                                                          *)
(*                                                                         *)
(* A request runs as a sequence of transactions.  Requests are repeated,   *)
(* fail, die between two transactions, overlap one another as far as there *)
(* are Threads, and overlap sign-ins and changes in the backend in any     *)
(* case.  Names, roles, the default stream and the assistant bot are left  *)
(* out: their steps either repeat harmlessly or are swallowed when they    *)
(* fail.                                                                   *)
(***************************************************************************)
EXTENDS Integers, FiniteSets

CONSTANTS
    Workspaces, Humans, Emails, Threads,
    FirstEmail,      \* human -> the address they begin with
    FirstMembers,    \* workspace -> its first members
    Profiles,        \* the ids of UserProfile rows, bounds how many there are
    None,
    MaxAttempts,     \* UserSyncService.MAX_RETRY_ATTEMPTS
    MaxChanges,      \* bound on what the backend changes
    MaxFaults        \* bound on exceptions and deaths of requests

ASSUME SyncAssumption ==
    /\ FirstEmail \in [Humans -> Emails] /\ FirstMembers \in [Workspaces -> SUBSET Humans]
    /\ \A s, x \in Humans : FirstEmail[s] = FirstEmail[x] => s = x
    /\ Profiles \subseteq Nat /\ IsFiniteSet(Profiles)
    /\ None \notin Humans \cup Profiles \cup Workspaces \cup Emails
    /\ MaxAttempts \in Nat \ {0} /\ MaxChanges \in Nat /\ MaxFaults \in Nat

VARIABLES
    members, email, deleted,   \* the backend: who is in which workspace, under
                               \* which address, and which accounts are deleted
    changes, faults,
    erased,                    \* deleted humans whose deletion here succeeded and
                               \* did not overlap a sync that names them
    bridge,                    \* human -> workspaces a sign-in has still to provision
    realm,                     \* workspaces whose string_id a realm has
    realm_extension,           \* workspaces that have a row, linked to their realm
    profiles,                  \* profile -> its row
    user_extension,            \* human -> its row
    mapping,                   \* workspace, human -> profile
    process                    \* thread -> its request

backend == <<members, email, deleted, changes>>
realms  == <<realm, realm_extension>>
users   == <<profiles, user_extension, mapping>>
vars == <<backend, faults, erased, bridge, realms, users, process>>

Status == {"none", "pending", "syncing", "synced", "failed"}

NoProfile == [workspace |-> None, email |-> None, active |-> FALSE]

\* what a deletion leaves under the id: a mirror dummy with a made-up address
Dummy(w) == [workspace |-> w, email |-> None, active |-> FALSE]

NoRow == [status |-> "none", attempts |-> 0, profile |-> None]

Idle == [pc |-> "idle", workspace |-> None, list |-> {}, todo |-> {},
         email |-> [s \in Humans |-> None], human |-> None, row |-> NoRow,
         stale |-> {}, alone |-> FALSE, full |-> FALSE]

Used(p) == profiles[p] # NoProfile

(***************************************************************************)
(* The backend.                                                            *)
(***************************************************************************)
Changed == changes < MaxChanges /\ changes' = changes + 1

AddMember(w, s) ==
    /\ Changed
    /\ s \notin members[w] \cup deleted
    /\ members' = [members EXCEPT ![w] = @ \cup {s}]
    /\ UNCHANGED <<email, deleted, faults, erased, bridge, realms, users, process>>

RemoveMember(w, s) ==
    /\ Changed
    /\ s \in members[w]
    /\ members' = [members EXCEPT ![w] = @ \ {s}]
    /\ UNCHANGED <<email, deleted, faults, erased, bridge, realms, users, process>>

\* an address that was given up may be taken by somebody else
ChangeEmail(s, e) ==
    /\ Changed
    /\ \A x \in Humans : email[x] # e
    /\ email' = [email EXCEPT ![s] = e]
    /\ UNCHANGED <<members, deleted, faults, erased, bridge, realms, users, process>>

DeleteAccount(s) ==
    /\ Changed
    /\ s \notin deleted
    /\ deleted' = deleted \cup {s}
    /\ members' = [w \in Workspaces |-> members[w] \ {s}]
    /\ UNCHANGED <<email, faults, erased, bridge, realms, users, process>>

(***************************************************************************)
(* Requests.                                                               *)
(***************************************************************************)
At(t, pc) == process[t].pc = pc

Workspace(t) == process[t].workspace

Go(t, pc) == process' = [process EXCEPT ![t].pc = pc]

Return(t) == process' = [process EXCEPT ![t] = Idle]

\* the addresses as they are when the request is sent
Sent(S) == [s \in Humans |-> IF s \in S THEN email[s] ELSE None]

sync_workspace(t, w) ==
    /\ At(t, "idle")
    /\ process' = [process EXCEPT ![t] =
                     [Idle EXCEPT !.pc = "realm", !.workspace = w, !.email = Sent(members[w]),
                                  !.list = members[w], !.todo = members[w],
                                  !.full = TRUE]]
    /\ UNCHANGED <<backend, faults, erased, bridge, realms, users>>

\* the endpoint for one user, who joins the members of no list
sync_user_request(t, w, s) ==
    /\ At(t, "idle") /\ s \in members[w]
    /\ process' = [process EXCEPT ![t] =
                     [Idle EXCEPT !.pc = "users", !.workspace = w, !.email = Sent({s}),
                                  !.todo = {s}]]
    /\ UNCHANGED <<backend, faults, erased, bridge, realms, users>>

(***************************************************************************)
(* sync_workspace: the realm and its extension row are two transactions.   *)
(***************************************************************************)
update_realm(t) ==
    LET w == Workspace(t)
    IN  /\ At(t, "realm") /\ w \in realm_extension
        /\ Go(t, "users")
        /\ UNCHANGED <<backend, faults, erased, bridge, realms, users>>

create_realm(t) ==
    LET w == Workspace(t)
    IN  /\ At(t, "realm") /\ w \notin realm_extension \cup realm
        /\ realm' = realm \cup {w}
        /\ Go(t, "extension")
        /\ UNCHANGED <<backend, faults, erased, bridge, realm_extension, users>>

\* "Realm already exists!", and there is no extension to mark as failed
realm_exists(t) ==
    LET w == Workspace(t)
    IN  /\ At(t, "realm") /\ w \in realm \ realm_extension
        /\ Return(t)
        /\ UNCHANGED <<backend, faults, erased, bridge, realms, users>>

link_realm(t) ==
    LET w == Workspace(t)
    IN  /\ At(t, "extension") /\ w \notin realm_extension
        /\ realm_extension' = realm_extension \cup {w}
        /\ Go(t, "users")
        /\ UNCHANGED <<backend, faults, erased, bridge, realm, users>>

(***************************************************************************)
(* sync_user.                                                              *)
(***************************************************************************)
\* by its string_id for the members of a list, by its extension for the endpoint
get_realm_for_workspace(t) ==
    IF process[t].full THEN Workspace(t) \in realm
                       ELSE Workspace(t) \in realm_extension

WithEmail(w, e) == {p \in Profiles : profiles[p].workspace = w /\ profiles[p].email = e}

Active(P) == {p \in P : profiles[p].active}

HasAccess(w, s) == mapping[w][s] # None /\ profiles[mapping[w][s]].active

\* ids come from a sequence
Fresh(p) == ~ Used(p) /\ \A q \in Profiles : q < p => Used(q)

\* the row as get_or_create returns it
RowOf(s) == IF user_extension[s].status = "none"
            THEN [NoRow EXCEPT !.status = "pending"]
            ELSE user_extension[s]

Exhausted(s) == RowOf(s).status = "failed" /\ RowOf(s).attempts >= MaxAttempts

CannotBeLinked(t, s) ==
    ~ get_realm_for_workspace(t)
        \/ Active(WithEmail(Workspace(t), process[t].email[s])) = {}

\* members are synced in the order of the list, the same in every list here
InTurn(t, s) ==
    At(t, "users") /\ process[t].todo # {} /\ s = CHOOSE x \in process[t].todo : TRUE

\* a request that is done with a member
WithoutMember(p, s) ==
    [p EXCEPT !.todo = p.todo \ {s}, !.email = [p.email EXCEPT ![s] = None]]

give_up(t, s) ==
    /\ InTurn(t, s) /\ Exhausted(s) /\ CannotBeLinked(t, s)
    /\ process' = [process EXCEPT ![t] = WithoutMember(process[t], s)]
    /\ UNCHANGED <<backend, faults, erased, bridge, realms, users>>

\* attempts are counted as far as the limit tells them apart
Counted(n) == IF n < MaxAttempts THEN n + 1 ELSE MaxAttempts

mark_syncing(t, s) ==
    LET before == IF Exhausted(s) THEN 0 ELSE RowOf(s).attempts
        row    == [RowOf(s) EXCEPT !.status = "syncing", !.attempts = Counted(before)]
    IN  /\ InTurn(t, s)
        /\ ~ (Exhausted(s) /\ CannotBeLinked(t, s))
        /\ user_extension' = [user_extension EXCEPT ![s] = row]
        /\ process' = [process EXCEPT ![t] =
                         [@ EXCEPT !.pc = "user", !.human = s, !.row = row]]
        /\ UNCHANGED <<backend, faults, erased, bridge, realms, profiles, mapping>>

InTransaction(t) == At(t, "user") /\ get_realm_for_workspace(t)

Linked(t) ==
    LET p == process[t].row.profile
    IN  p # None /\ profiles[p].workspace = Workspace(t)

\* do_reactivate_user refuses a placeholder: deleted since the row was read
LinkedToDummy(t) == At(t, "user") /\ Linked(t) /\ profiles[process[t].row.profile].email = None

\* mutant: profiles of removed members are not found
FoundActive(t) == Active(WithEmail(Workspace(t), process[t].email[process[t].human]))

Found(t) == WithEmail(Workspace(t), process[t].email[process[t].human])

\* record_realm_user_mapping refuses a profile mapped to somebody else
record_realm_user_mapping(w, p, s) ==
    mapping' = IF \E x \in Humans \ {s} : mapping[w][x] = p THEN mapping
               ELSE [mapping EXCEPT ![w][s] = p]

Synced(t, p) ==
    [process[t].row EXCEPT !.status = "synced", !.profile = p]

NextMember(t) ==
    process' = [process EXCEPT ![t] =
                  [WithoutMember(process[t], process[t].human)
                     EXCEPT !.pc = "users", !.human = None, !.row = NoRow]]

\* the transaction ends with p, and the whole row is saved
Link(t, p) ==
    /\ user_extension' = [user_extension EXCEPT ![process[t].human] = Synced(t, p)]
    /\ record_realm_user_mapping(Workspace(t), p, process[t].human)
    /\ NextMember(t)
    /\ UNCHANGED <<backend, faults, erased, bridge, realms>>

Reactivate(p) == profiles' = [profiles EXCEPT ![p].active = TRUE]

sync_linked(t) ==
    /\ InTransaction(t) /\ Linked(t) /\ ~ LinkedToDummy(t)
    /\ Reactivate(process[t].row.profile)
    /\ Link(t, process[t].row.profile)

OtherRows(t, p) == {x \in Humans \ {process[t].human} : user_extension[x].profile = p}

sync_existing(t) ==
    /\ InTransaction(t) /\ ~ Linked(t)
    /\ \E p \in Found(t) :
         /\ OtherRows(t, p) = {}
         /\ Reactivate(p)
         /\ Link(t, p)

\* the row of the other human is used, and this human's deleted
sync_orphan(t) ==
    /\ InTransaction(t) /\ ~ Linked(t)
    /\ \E p \in Found(t) : \E x \in OtherRows(t, p) :
         /\ Reactivate(p)
         /\ user_extension' = [user_extension EXCEPT ![process[t].human] = NoRow,
                                                     ![x].status = "synced"]
         /\ record_realm_user_mapping(Workspace(t), p, process[t].human)
         /\ NextMember(t)
         /\ UNCHANGED <<backend, faults, erased, bridge, realms>>

sync_new(t) ==
    /\ InTransaction(t) /\ ~ Linked(t) /\ Found(t) = {}
    /\ \E p \in Profiles :
         /\ Fresh(p)
         /\ profiles' = [profiles EXCEPT ![p] =
              [workspace |-> Workspace(t), email |-> process[t].email[process[t].human],
               active |-> TRUE]]
         /\ Link(t, p)

\* an exception that has no cause in the model counts against MaxFaults
Fault(caused) == \/ caused /\ UNCHANGED faults
                 \/ faults < MaxFaults /\ faults' = faults + 1

\* no realm, or an exception: rolled back, and the failure is saved
sync_user_fails(t) ==
    LET s == process[t].human
    IN  /\ At(t, "user") /\ user_extension[s].status # "none"
        /\ Fault(~ InTransaction(t) \/ LinkedToDummy(t))
        /\ user_extension' = [user_extension EXCEPT ![s].status = "failed"]
        /\ NextMember(t)
        /\ UNCHANGED <<backend, erased, bridge, realms, profiles, mapping>>

(***************************************************************************)
(* The end of sync_workspace: removed members, then the status.            *)
(***************************************************************************)
\* mutant: only the global rows tell whose profile it is
_deactivate_removed_members_rows(t) ==
    LET p == process[t]
    IN  {q \in Profiles : /\ profiles[q].active /\ profiles[q].workspace = p.workspace
                          /\ \E s \in Humans \ p.list : user_extension[s].profile = q}

_deactivate_removed_members(t) ==
    LET p == process[t]
    IN  {q \in Profiles : /\ profiles[q].active
                          /\ \E s \in Humans \ p.list : mapping[p.workspace][s] = q}

end_of_members(t) ==
    /\ At(t, "users") /\ process[t].todo = {}
    /\ IF ~ process[t].full THEN Return(t)
       ELSE process' = [process EXCEPT ![t] =
                          [@ EXCEPT !.pc = "removal",
                                    !.stale = IF process[t].list = {} THEN {}
                                              ELSE _deactivate_removed_members(t)]]
    /\ UNCHANGED <<backend, faults, erased, bridge, realms, users>>

deactivate_removed(t, p) ==
    /\ At(t, "removal") /\ p \in process[t].stale
    /\ profiles' = [profiles EXCEPT ![p].active = FALSE]
    /\ process' = [process EXCEPT ![t].stale = @ \ {p}]
    /\ UNCHANGED <<backend, faults, erased, bridge, realms, user_extension, mapping>>

\* failures of single deactivations are swallowed
deactivation_fails(t, p) ==
    /\ At(t, "removal") /\ p \in process[t].stale
    /\ Fault(FALSE)
    /\ process' = [process EXCEPT ![t].stale = @ \ {p}]
    /\ UNCHANGED <<backend, erased, bridge, realms, users>>

sync_done(t) ==
    /\ At(t, "removal") /\ process[t].stale = {}
    /\ Return(t)
    /\ UNCHANGED <<backend, faults, erased, bridge, realms, users>>

(***************************************************************************)
(* delete_user.  The profiles are collected first and deleted one by one,  *)
(* each in its transaction; both tables cascade.                           *)
(***************************************************************************)
\* mutant: only the mappings of the realms are followed
LinkedProfilesMapped(s) == {mapping[w][s] : w \in Workspaces} \ {None}

LinkedProfiles(s) ==
    ({mapping[w][s] : w \in Workspaces} \cup {user_extension[s].profile}) \ {None}

Names(t, s) == s \in process[t].list \cup process[t].todo \cup {process[t].human}

delete_user(t, s) ==
    /\ At(t, "idle") /\ s \in deleted
    /\ process' = [process EXCEPT ![t] =
                     [Idle EXCEPT !.pc = "delete", !.human = s,
                                  !.stale = LinkedProfiles(s),
                                  !.alone = bridge[s] = {} /\ \A u \in Threads : ~ Names(u, s)]]
    /\ erased' = erased \ {s}
    /\ UNCHANGED <<backend, faults, bridge, realms, users>>

do_delete_user_preserving_messages(t, p) ==
    /\ At(t, "delete") /\ p \in process[t].stale
    /\ profiles' = [profiles EXCEPT ![p] = Dummy(@.workspace)]
    /\ user_extension' = [x \in Humans |-> IF user_extension[x].profile = p THEN NoRow
                                           ELSE user_extension[x]]
    /\ mapping' = [w \in Workspaces |-> [x \in Humans |->
                     IF mapping[w][x] = p THEN None ELSE mapping[w][x]]]
    /\ process' = [process EXCEPT ![t].stale = @ \ {p}]
    /\ UNCHANGED <<backend, faults, erased, bridge, realms>>

\* a row that is linked to no profile has nothing to cascade from
delete_pending_row(t) ==
    LET s == process[t].human
    IN  /\ At(t, "delete") /\ process[t].stale = {}
        /\ user_extension' = IF user_extension[s].profile # None THEN user_extension
                             ELSE [user_extension EXCEPT ![s] = NoRow]
        /\ erased' = IF process[t].alone THEN erased \cup {s} ELSE erased
        /\ Return(t)
        /\ UNCHANGED <<backend, faults, bridge, realms, profiles, mapping>>

(***************************************************************************)
(* A human signs in (auth_bridge_v2): profiles under the own address that  *)
(* are mapped to nobody are mapped to them, and who has no mapping that is *)
(* active gets a profile in each workspace they were a member of when the  *)
(* backend was asked.                                                      *)
(***************************************************************************)
Unmapped(w, s) ==
    {p \in Active(WithEmail(w, email[s])) : \A x \in Humans : mapping[w][x] # p}

_self_heal_mappings(w, s) ==
    /\ s \notin deleted /\ w \in realm_extension
    /\ \E p \in Unmapped(w, s) : record_realm_user_mapping(w, p, s)
    /\ UNCHANGED <<backend, faults, erased, bridge, realms, profiles, user_extension, process>>

_reconcile_cold_start(s) ==
    /\ s \notin deleted /\ bridge[s] = {}
    /\ \A w \in Workspaces : Unmapped(w, s) = {} /\ ~ HasAccess(w, s)
    /\ bridge' = [bridge EXCEPT ![s] = {w \in realm : s \in members[w]}]
    /\ bridge' # bridge
    /\ UNCHANGED <<backend, faults, erased, realms, users, process>>

\* an inactive profile that holds the address is mapped, and stays inactive
get_or_create_zulip_user(w, s) ==
    /\ w \in bridge[s]
    /\ bridge' = [bridge EXCEPT ![s] = @ \ {w}]
    /\ IF WithEmail(w, email[s]) = {}
       THEN \E p \in Profiles :
              /\ Fresh(p)
              /\ profiles' = [profiles EXCEPT ![p] =
                   [workspace |-> w, email |-> email[s], active |-> TRUE]]
              /\ record_realm_user_mapping(w, p, s)
       ELSE \E p \in WithEmail(w, email[s]) :
              /\ record_realm_user_mapping(w, p, s)
              /\ UNCHANGED profiles
    /\ UNCHANGED <<backend, faults, erased, realms, user_extension, process>>

\* it fails or its process dies between two workspaces
bridge_ends(s) ==
    /\ bridge[s] # {}
    /\ Fault(FALSE)
    /\ bridge' = [bridge EXCEPT ![s] = {}]
    /\ UNCHANGED <<backend, erased, realms, users, process>>

(***************************************************************************)
(* Exceptions that end a request, and deaths of its process.               *)
(***************************************************************************)
\* the row of the realm or of the human is not what the request has read
Overtaken(t) ==
    \/ At(t, "extension") /\ Workspace(t) \in realm_extension
    \/ LinkedToDummy(t) /\ user_extension[process[t].human].status = "none"

\* whether sync_workspace catches an exception or the process is killed: what
\* was committed stays, and what the request had still to do is not done
ends(t) ==
    /\ ~ At(t, "idle")
    /\ Fault(Overtaken(t))
    /\ Return(t)
    /\ UNCHANGED <<backend, erased, bridge, realms, users>>

Init ==
    /\ members = FirstMembers /\ deleted = {}
    /\ email = FirstEmail
    /\ changes = 0 /\ faults = 0 /\ erased = {}
    /\ bridge = [s \in Humans |-> {}]
    /\ realm = {} /\ realm_extension = {}
    /\ profiles = [p \in Profiles |-> NoProfile]
    /\ user_extension = [s \in Humans |-> NoRow]
    /\ mapping = [w \in Workspaces |-> [s \in Humans |-> None]]
    /\ process = [t \in Threads |-> Idle]

Backend ==
    \/ \E w \in Workspaces, s \in Humans : AddMember(w, s) \/ RemoveMember(w, s)
    \/ \E s \in Humans, e \in Emails : ChangeEmail(s, e)
    \/ \E s \in Humans : DeleteAccount(s)

Bridge(s) ==
    \/ \E w \in Workspaces : _self_heal_mappings(w, s) \/ get_or_create_zulip_user(w, s)
    \/ _reconcile_cold_start(s) \/ bridge_ends(s)

Begin(t) ==
    \/ \E w \in Workspaces : sync_workspace(t, w)
    \/ \E w \in Workspaces, s \in Humans : sync_user_request(t, w, s)
    \/ \E s \in Humans : delete_user(t, s)

Continue(t) ==
    \/ update_realm(t) \/ create_realm(t) \/ realm_exists(t) \/ link_realm(t)
    \/ \E s \in Humans : give_up(t, s) \/ mark_syncing(t, s)
    \/ sync_linked(t) \/ sync_existing(t) \/ sync_orphan(t) \/ sync_new(t)
    \/ sync_user_fails(t) \/ end_of_members(t) \/ sync_done(t)
    \/ \E p \in Profiles : deactivate_removed(t, p) \/ deactivation_fails(t, p)
    \/ \E p \in Profiles : do_delete_user_preserving_messages(t, p)
    \/ delete_pending_row(t) \/ ends(t)

Next == Backend \/ (\E s \in Humans : Bridge(s)) \/ \E t \in Threads : Begin(t) \/ Continue(t)

Spec == Init /\ [][Next]_vars

(***************************************************************************)
(* A request that runs comes to an end, and the backend asks for the sync  *)
(* of each workspace again and again.                                      *)
(***************************************************************************)
Fairness ==
    /\ \A t \in Threads : WF_vars(Continue(t))
    /\ \A w \in Workspaces : SF_vars(\E t \in Threads : sync_workspace(t, w))

FairSpec == Spec /\ Fairness

(***************************************************************************)
(* Properties.                                                             *)
(***************************************************************************)
ProfileRow ==
    [workspace : Workspaces \cup {None}, email : Emails \cup {None}, active : BOOLEAN]

UserRow == [status : Status, attempts : 0..MaxAttempts, profile : Profiles \cup {None}]

Request ==
    [pc : {"idle", "realm", "extension", "users", "user", "removal", "delete"},
     workspace : Workspaces \cup {None}, list : SUBSET Humans, todo : SUBSET Humans,
     email : [Humans -> Emails \cup {None}], human : Humans \cup {None}, row : UserRow,
     stale : SUBSET Profiles, alone : BOOLEAN, full : BOOLEAN]

\* The type invariant.
TypeOK ==
    /\ members \in [Workspaces -> SUBSET Humans] /\ email \in [Humans -> Emails]
    /\ deleted \subseteq Humans /\ erased \subseteq deleted
    /\ changes \in 0..MaxChanges /\ faults \in 0..MaxFaults
    /\ bridge \in [Humans -> SUBSET Workspaces]
    /\ realm_extension \subseteq realm /\ realm \subseteq Workspaces
    /\ profiles \in [Profiles -> ProfileRow]
    /\ user_extension \in [Humans -> UserRow]
    /\ mapping \in [Workspaces -> [Humans -> Profiles \cup {None}]]
    /\ process \in [Threads -> Request]

(***************************************************************************)
(* What a deletion that succeeded leaves of a human, as long as no sync    *)
(* that named them ran when it began: no row, no mapping, and so "no       *)
(* identifier survives", whatever failed or died before it was repeated.   *)
(***************************************************************************)
ErasedIsGone ==
    \A s \in erased : /\ user_extension[s] = NoRow
                      /\ \A w \in Workspaces : mapping[w][s] = None

\* a request died between the realm and its row: every sync that follows stops at
\* the string_id that is taken
Stuck(w) == w \in realm \ realm_extension

\* the profiles a human is mapped to, linked to, or found by
Claims(w, s) ==
    {p \in Profiles : /\ profiles[p].workspace = w
                      /\ \/ mapping[w][s] = p \/ user_extension[s].profile = p
                         \/ profiles[p].email = email[s]}

\* an address that changed hands: two humans have a claim to one profile
Disputed(w, s) == \E x \in Humans \ {s} : Claims(w, s) \cap Claims(w, x) # {}

GivenUp(w, s) == Exhausted(s) /\ Active(WithEmail(w, email[s])) = {}

(***************************************************************************)
(* When the backend changes no more and nothing fails any more, the member *)
(* list decides who has access through the profile they are mapped to,     *)
(* except in a workspace that has no members left or whose realm was left  *)
(* without its row, for who was given up, and where addresses changed      *)
(* hands.                                                                  *)
(***************************************************************************)
MembershipSettles ==
    \A w \in Workspaces, s \in Humans :
        <>[] \/ members[w] = {} \/ Stuck(w) \/ GivenUp(w, s) \/ Disputed(w, s)
             \/ HasAccess(w, s) <=> s \in members[w]

\* a sync runs that carries another address
Outdated(s) == \E t \in Threads : process[t].email[s] \notin {None, email[s]}

Settled(w, s) ==
    /\ mapping[w][s] # None /\ Claims(w, s) = {mapping[w][s]}
    /\ profiles[mapping[w][s]].email = email[s]
    /\ ~ Disputed(w, s) /\ ~ Outdated(s)

\* a request has read the row of a human when it named another profile
Relinked(s) ==
    \E t \in Threads : /\ At(t, "user") /\ process[t].human = s
                       /\ process[t].row.profile \notin {None, user_extension[s].profile}

(***************************************************************************)
(* Whose mapping, row and address all name one profile stays mapped to it, *)
(* through removal, failures, sign-ins and return, until it is deleted,    *)
(* except while a request is about to use their row as it was before it    *)
(* named that profile.                                                     *)
(***************************************************************************)
ProfileKept ==
    [][\A w \in Workspaces, s \in Humans :
          Settled(w, s) /\ ~ Relinked(s) => mapping'[w][s] \in {None, mapping[w][s]}]_mapping
=============================================================================
