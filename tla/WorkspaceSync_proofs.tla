------------------------ MODULE WorkspaceSync_proofs ------------------------
(***************************************************************************)
(* Proofs about WorkspaceSync, for any workspaces, humans, addresses,      *)
(* overlapping requests, changes and faults.                               *)
(***************************************************************************)
EXTENDS WorkspaceSync, TLAPS

(***************************************************************************)
(* Type correctness.  A request that runs has the workspace and the human  *)
(* its step needs, and links a realm that exists.                          *)
(***************************************************************************)
RequestOK(t) ==
    /\ process[t].pc \notin {"idle", "delete"} => process[t].workspace \in Workspaces
    /\ process[t].pc \in {"user", "delete"} => process[t].human \in Humans
    /\ process[t].pc = "delete" => process[t].human \in deleted
    /\ process[t].pc = "extension" => process[t].workspace \in realm

TypeInv == TypeOK /\ \A t \in Threads : RequestOK(t)

USE SyncAssumption

LEMMA RowTypes ==
    /\ NoRow \in UserRow
    /\ Idle \in Request
    /\ NoProfile \in ProfileRow
<1>1. NoRow \in UserRow
  BY DEF NoRow, UserRow, Status
<1>2. NoProfile \in ProfileRow
  BY DEF NoProfile, ProfileRow
<1>3. [s \in Humans |-> None] \in [Humans -> Emails \cup {None}]
  OBVIOUS
<1> QED
  BY <1>1, <1>2, <1>3 DEF Idle, Request

\* One request of many changes.
LEMMA ProcessType ==
    ASSUME process \in [Threads -> Request], NEW t \in Threads, NEW r \in Request,
           process' = [process EXCEPT ![t] = r]
    PROVE  /\ process' \in [Threads -> Request]
           /\ process'[t] = r
           /\ \A u \in Threads \ {t} : process'[u] = process[u]
OBVIOUS

\* What holds of the requests stays true when one of them goes on.
LEMMA RequestsStay ==
    ASSUME TypeInv, NEW t \in Threads, deleted \subseteq deleted', realm \subseteq realm',
           \A u \in Threads \ {t} : process'[u] = process[u], RequestOK(t)'
    PROVE  \A u \in Threads : RequestOK(u)'
BY DEF TypeInv, RequestOK

LEMMA InitTypes == Init => TypeInv
<1> SUFFICES ASSUME Init PROVE TypeInv
  OBVIOUS
<1>1. process \in [Threads -> Request] /\ \A t \in Threads : process[t] = Idle
  BY RowTypes DEF Init
<1>2. TypeOK
  BY <1>1, RowTypes DEF Init, TypeOK
<1>3. \A t \in Threads : RequestOK(t)
  BY <1>1 DEF RequestOK, Idle
<1> QED
  BY <1>2, <1>3 DEF TypeInv

LEMMA BackendTypes ==
    ASSUME TypeInv, Backend
    PROVE  TypeInv'
<1> USE DEF TypeInv, TypeOK, RequestOK, users, realms, Changed
<1>1. ASSUME NEW w \in Workspaces, NEW s \in Humans, AddMember(w, s)
      PROVE  TypeInv'
  BY <1>1 DEF AddMember
<1>2. ASSUME NEW w \in Workspaces, NEW s \in Humans, RemoveMember(w, s)
      PROVE  TypeInv'
  BY <1>2 DEF RemoveMember
<1>3. ASSUME NEW s \in Humans, NEW e \in Emails, ChangeEmail(s, e)
      PROVE  TypeInv'
  BY <1>3 DEF ChangeEmail
<1>4. ASSUME NEW s \in Humans, DeleteAccount(s)
      PROVE  TypeInv'
  BY <1>4 DEF DeleteAccount
<1> QED
  BY <1>1, <1>2, <1>3, <1>4 DEF Backend

LEMMA MappingType ==
    ASSUME TypeOK, NEW w \in Workspaces, NEW p \in Profiles, NEW s \in Humans,
           record_realm_user_mapping(w, p, s)
    PROVE  /\ mapping' \in [Workspaces -> [Humans -> Profiles \cup {None}]]
           /\ \A v \in Workspaces, x \in Humans \ {s} : mapping'[v][x] = mapping[v][x]
BY DEF TypeOK, record_realm_user_mapping

LEMMA NewProfileType ==
    ASSUME TypeOK, NEW w \in Workspaces, NEW e \in Emails \cup {None}, NEW p \in Profiles,
           profiles' = [profiles EXCEPT ![p] =
                          [workspace |-> w, email |-> e, active |-> TRUE]]
    PROVE  profiles' \in [Profiles -> ProfileRow]
BY DEF TypeOK, ProfileRow

LEMMA ActiveType ==
    ASSUME TypeOK, NEW p \in Profiles, NEW b \in BOOLEAN,
           profiles' = [profiles EXCEPT ![p].active = b]
    PROVE  profiles' \in [Profiles -> ProfileRow]
<1>1. profiles[p] \in ProfileRow
  BY DEF TypeOK
<1>2. [profiles[p] EXCEPT !.active = b] \in ProfileRow
  BY <1>1 DEF ProfileRow
<1> QED
  BY <1>2 DEF TypeOK

LEMMA BridgeTypes ==
    ASSUME TypeInv, NEW s \in Humans, Bridge(s)
    PROVE  TypeInv'
<1> USE DEF TypeInv, RequestOK
<1>1. ASSUME NEW w \in Workspaces, _self_heal_mappings(w, s)
      PROVE  TypeInv'
  <2>1. PICK p \in Profiles : record_realm_user_mapping(w, p, s)
    BY <1>1 DEF _self_heal_mappings, Unmapped, Active, WithEmail
  <2> QED
    BY <1>1, <2>1, MappingType DEF _self_heal_mappings, TypeOK, backend, realms
<1>2. ASSUME NEW w \in Workspaces, get_or_create_zulip_user(w, s)
      PROVE  TypeInv'
  <2>1. CASE WithEmail(w, email[s]) = {}
    <3>1. PICK p \in Profiles :
            /\ profiles' = [profiles EXCEPT ![p] =
                 [workspace |-> w, email |-> email[s], active |-> TRUE]]
            /\ record_realm_user_mapping(w, p, s)
      BY <1>2, <2>1 DEF get_or_create_zulip_user
    <3>2. profiles' \in [Profiles -> ProfileRow]
      BY <3>1, NewProfileType DEF TypeOK
    <3> QED
      BY <1>2, <3>1, <3>2, MappingType DEF get_or_create_zulip_user, TypeOK, backend, realms
  <2>2. CASE WithEmail(w, email[s]) # {}
    <3>1. PICK p \in Profiles : record_realm_user_mapping(w, p, s) /\ UNCHANGED profiles
      BY <1>2, <2>2 DEF get_or_create_zulip_user, WithEmail
    <3> QED
      BY <1>2, <3>1, MappingType DEF get_or_create_zulip_user, TypeOK, backend, realms
  <2> QED
    BY <2>1, <2>2
<1>3. ASSUME _reconcile_cold_start(s)
      PROVE  TypeInv'
  BY <1>3 DEF _reconcile_cold_start, TypeOK, backend, realms, users
<1>4. ASSUME bridge_ends(s)
      PROVE  TypeInv'
  BY <1>4 DEF bridge_ends, Fault, TypeOK, backend, realms, users
<1> QED
  BY <1>1, <1>2, <1>3, <1>4 DEF Bridge

LEMMA BeginTypes ==
    ASSUME TypeInv, NEW t \in Threads, Begin(t)
    PROVE  TypeInv'
<1> USE DEF TypeInv
<1>1. ASSUME NEW w \in Workspaces, sync_workspace(t, w)
      PROVE  TypeInv'
  <2> DEFINE r == [Idle EXCEPT !.pc = "realm", !.workspace = w, !.email = Sent(members[w]),
                               !.list = members[w], !.todo = members[w], !.full = TRUE]
  <2>1. r \in Request
    BY RowTypes DEF TypeOK, Request, Idle, Sent
  <2>2. process' = [process EXCEPT ![t] = r]
    BY <1>1 DEF sync_workspace
  <2>3. process'[t] = r /\ process' \in [Threads -> Request]
    BY <2>1, <2>2, ProcessType DEF TypeOK
  <2>4. RequestOK(t)'
    BY <2>3 DEF RequestOK, Idle
  <2> HIDE DEF r
  <2> QED
    BY <1>1, <2>1, <2>2, <2>4, ProcessType, RequestsStay
       DEF sync_workspace, TypeOK, backend, realms, users
<1>2. ASSUME NEW w \in Workspaces, NEW s \in Humans, sync_user_request(t, w, s)
      PROVE  TypeInv'
  <2> DEFINE r == [Idle EXCEPT !.pc = "users", !.workspace = w, !.email = Sent({s}),
                               !.todo = {s}]
  <2>1. r \in Request
    BY RowTypes DEF TypeOK, Request, Idle, Sent
  <2>2. process' = [process EXCEPT ![t] = r]
    BY <1>2 DEF sync_user_request
  <2>3. process'[t] = r /\ process' \in [Threads -> Request]
    BY <2>1, <2>2, ProcessType DEF TypeOK
  <2>4. RequestOK(t)'
    BY <2>3 DEF RequestOK, Idle
  <2> HIDE DEF r
  <2> QED
    BY <1>2, <2>1, <2>2, <2>4, ProcessType, RequestsStay
       DEF sync_user_request, TypeOK, backend, realms, users
<1>3. ASSUME NEW s \in Humans, delete_user(t, s)
      PROVE  TypeInv'
  <2> DEFINE a == bridge[s] = {} /\ \A u \in Threads : ~ Names(u, s)
             r == [Idle EXCEPT !.pc = "delete", !.human = s, !.stale = LinkedProfiles(s),
                               !.alone = a]
  <2>1. LinkedProfiles(s) \subseteq Profiles
    BY DEF LinkedProfiles, TypeOK, UserRow
  <2>2. a \in BOOLEAN
    OBVIOUS
  <2> HIDE DEF a
  <2>3. r \in Request
    BY <2>1, <2>2, RowTypes DEF Request, Idle
  <2>4. process' = [process EXCEPT ![t] = r]
    BY <1>3 DEF delete_user, a
  <2>5. process'[t] = r /\ process' \in [Threads -> Request]
    BY <2>3, <2>4, ProcessType DEF TypeOK
  <2>6. RequestOK(t)'
    BY <1>3, <2>5 DEF RequestOK, Idle, delete_user, backend
  <2> HIDE DEF r
  <2> QED
    BY <1>3, <2>3, <2>4, <2>6, ProcessType, RequestsStay
       DEF delete_user, TypeOK, backend, realms, users
<1> QED
  BY <1>1, <1>2, <1>3 DEF Begin

LEMMA RealmTypes ==
    ASSUME TypeInv, NEW t \in Threads,
           update_realm(t) \/ create_realm(t) \/ realm_exists(t) \/ link_realm(t)
    PROVE  TypeInv'
<1> USE DEF TypeInv, At, Workspace
<1> DEFINE r(pc) == [process[t] EXCEPT !.pc = pc]
<1>0. process[t] \in Request
  BY DEF TypeOK
<1>1. \A pc \in {"users", "extension"} : r(pc) \in Request
  BY <1>0 DEF Request
<1>2. ASSUME update_realm(t) PROVE TypeInv'
  <2>1. process' = [process EXCEPT ![t] = r("users")]
    BY <1>2 DEF update_realm, Go, TypeOK
  <2>2. RequestOK(t)'
    BY <1>2, <1>1, <2>1, ProcessType DEF update_realm, RequestOK, TypeOK, Request
  <2> QED
    BY <1>1, <1>2, <2>1, <2>2, ProcessType, RequestsStay
       DEF update_realm, TypeOK, backend, realms, users
<1>3. ASSUME create_realm(t) PROVE TypeInv'
  <2>1. process' = [process EXCEPT ![t] = r("extension")]
    BY <1>3 DEF create_realm, Go, TypeOK
  <2>2. Workspace(t) \in Workspaces
    BY <1>3 DEF create_realm, RequestOK
  <2>3. RequestOK(t)'
    BY <1>3, <1>1, <2>1, <2>2, ProcessType DEF create_realm, RequestOK, TypeOK, Request
  <2> QED
    BY <1>1, <1>3, <2>1, <2>2, <2>3, ProcessType, RequestsStay
       DEF create_realm, TypeOK, backend, realms, users
<1>4. ASSUME realm_exists(t) PROVE TypeInv'
  <2>1. RequestOK(t)'
    BY <1>4, RowTypes, ProcessType DEF realm_exists, Return, RequestOK, TypeOK, Idle
  <2> QED
    BY <1>4, <2>1, RowTypes, ProcessType, RequestsStay
       DEF realm_exists, Return, TypeOK, backend, realms, users
<1>5. ASSUME link_realm(t) PROVE TypeInv'
  <2>1. process' = [process EXCEPT ![t] = r("users")]
    BY <1>5 DEF link_realm, Go, TypeOK
  <2>2. Workspace(t) \in Workspaces /\ Workspace(t) \in realm
    BY <1>5 DEF link_realm, RequestOK
  <2>3. RequestOK(t)'
    BY <1>5, <1>1, <2>1, <2>2, ProcessType DEF link_realm, RequestOK, TypeOK, Request
  <2> QED
    BY <1>1, <1>5, <2>1, <2>2, <2>3, ProcessType, RequestsStay
       DEF link_realm, TypeOK, backend, realms, users
<1> QED
  BY <1>2, <1>3, <1>4, <1>5

\* A request that ends: whatever else it does is typed by itself.
LEMMA ReturnTypes ==
    ASSUME TypeInv, NEW t \in Threads, Return(t), deleted' = deleted, realm' = realm
    PROVE  process' \in [Threads -> Request] /\ \A u \in Threads : RequestOK(u)'
<1>1. RequestOK(t)'
  BY RowTypes, ProcessType DEF Return, RequestOK, TypeInv, TypeOK, Idle
<1> QED
  BY <1>1, RowTypes, ProcessType, RequestsStay DEF Return, TypeInv, TypeOK

\* The choice of the next member is one of those left.
LEMMA InTurnOfList ==
    ASSUME TypeInv, NEW t \in Threads, NEW s \in Humans, InTurn(t, s)
    PROVE  s \in process[t].todo /\ process[t].pc = "users" /\ Workspace(t) \in Workspaces
<1>1. s \in process[t].todo
  BY DEF InTurn
<1> QED
  BY <1>1 DEF InTurn, At, TypeInv, RequestOK, Workspace

LEMMA WithoutType ==
    ASSUME NEW p \in Request, NEW s \in Humans
    PROVE  LET r == WithoutMember(p, s)
           IN  /\ r \in Request
               /\ r.pc = p.pc /\ r.workspace = p.workspace /\ r.human = p.human
               /\ r.list = p.list /\ r.todo \subseteq p.todo
               /\ r.stale = p.stale /\ r.alone = p.alone
<1> DEFINE e == [p.email EXCEPT ![s] = None]
           r == [p EXCEPT !.todo = p.todo \ {s}, !.email = e]
<1>1. e \in [Humans -> Emails \cup {None}]
  BY DEF Request
<1>2. WithoutMember(p, s) = r
  BY DEF WithoutMember
<1> HIDE DEF e
<1>3. /\ r \in Request
      /\ r.pc = p.pc /\ r.workspace = p.workspace /\ r.human = p.human
      /\ r.list = p.list /\ r.todo \subseteq p.todo
      /\ r.stale = p.stale /\ r.alone = p.alone
  BY <1>1 DEF Request
<1> QED
  BY <1>2, <1>3

LEMMA UserTypes ==
    ASSUME TypeInv, NEW t \in Threads, NEW s \in Humans, give_up(t, s) \/ mark_syncing(t, s)
    PROVE  TypeInv'
<1> USE DEF TypeInv
<1>0. process[t] \in Request
  BY DEF TypeOK
<1>1. ASSUME give_up(t, s) PROVE TypeInv'
  <2> DEFINE r == WithoutMember(process[t], s)
  <2>1. r \in Request /\ r.pc = process[t].pc /\ r.workspace = process[t].workspace
        /\ r.human = process[t].human
    BY <1>0, WithoutType
  <2>2. process' = [process EXCEPT ![t] = r]
    BY <1>1 DEF give_up, TypeOK
  <2> HIDE DEF r
  <2>3. process'[t] = r
    BY <2>1, <2>2, ProcessType DEF TypeOK
  <2>4. RequestOK(t)'
    BY <1>1, <2>1, <2>3 DEF RequestOK, give_up, backend, realms
  <2> QED
    BY <1>1, <2>1, <2>2, <2>4, ProcessType, RequestsStay
       DEF give_up, TypeOK, backend, realms, users
<1>2. ASSUME mark_syncing(t, s) PROVE TypeInv'
  <2> DEFINE before == IF Exhausted(s) THEN 0 ELSE RowOf(s).attempts
             row == [RowOf(s) EXCEPT !.status = "syncing", !.attempts = Counted(before)]
             r == [process[t] EXCEPT !.pc = "user", !.human = s, !.row = row]
  <2>1. RowOf(s) \in UserRow
    BY DEF RowOf, NoRow, TypeOK, UserRow, Status
  <2>2. Counted(before) \in 0 .. MaxAttempts
    BY <2>1 DEF Counted, UserRow
  <2> HIDE DEF before
  <2>3. row \in UserRow
    BY <2>1, <2>2 DEF UserRow, Status
  <2>4. /\ user_extension' = [user_extension EXCEPT ![s] = row]
        /\ process' = [process EXCEPT ![t] = r]
        /\ InTurn(t, s)
    BY <1>2 DEF mark_syncing, TypeOK, before
  <2> HIDE DEF row
  <2>5. /\ r \in Request /\ r.pc = "user" /\ r.workspace = Workspace(t) /\ r.human = s
    BY <1>0, <2>3 DEF Request, Workspace
  <2> HIDE DEF r
  <2>6. process'[t] = r
    BY <2>4, <2>5, ProcessType DEF TypeOK
  <2>7. RequestOK(t)'
    BY <2>4, <2>5, <2>6, InTurnOfList DEF RequestOK
  <2>8. /\ process' \in [Threads -> Request] /\ \A u \in Threads \ {t} : process'[u] = process[u]
    BY <2>4, <2>5, ProcessType DEF TypeOK
  <2>9. user_extension' \in [Humans -> UserRow]
    BY <2>3, <2>4 DEF TypeOK
  <2>10. deleted' = deleted /\ realm' = realm
    BY <1>2 DEF mark_syncing, backend, realms
  <2>11. \A u \in Threads : RequestOK(u)'
    BY <2>7, <2>8, <2>10, RequestsStay
  <2>12. TypeOK'
    BY <1>2, <2>8, <2>9 DEF mark_syncing, TypeOK, backend, realms
  <2> QED
    BY <2>11, <2>12
<1> QED
  BY <1>1, <1>2

\* Every end of sync_user goes on with the next member.
LEMMA NextMemberTypes ==
    ASSUME TypeInv, NEW t \in Threads, At(t, "user"), NextMember(t),
           deleted' = deleted, realm' = realm
    PROVE  /\ process' \in [Threads -> Request] /\ \A u \in Threads : RequestOK(u)'
           /\ process'[t].pc = "users" /\ process'[t].human = None
           /\ process'[t].list = process[t].list /\ process'[t].todo \subseteq process[t].todo
           /\ \A u \in Threads \ {t} : process'[u] = process[u]
<1> DEFINE p == WithoutMember(process[t], process[t].human)
           r == [p EXCEPT !.pc = "users", !.human = None, !.row = NoRow]
<1>1. process[t] \in Request /\ process[t].human \in Humans /\ process[t].workspace \in Workspaces
  BY DEF TypeInv, TypeOK, RequestOK, At
<1>2. p \in Request /\ p.workspace = process[t].workspace
      /\ p.list = process[t].list /\ p.todo \subseteq process[t].todo
  BY <1>1, WithoutType
<1>3. process' = [process EXCEPT ![t] = r]
  BY DEF NextMember
<1> HIDE DEF p
<1>4. /\ r \in Request /\ r.pc = "users" /\ r.workspace = p.workspace /\ r.human = None
      /\ r.list = p.list /\ r.todo = p.todo
  BY <1>2, RowTypes DEF Request
<1> HIDE DEF r
<1>5. /\ process' \in [Threads -> Request] /\ process'[t] = r
      /\ \A u \in Threads \ {t} : process'[u] = process[u]
  BY <1>3, <1>4, ProcessType DEF TypeInv, TypeOK
<1>6. RequestOK(t)'
  BY <1>1, <1>2, <1>4, <1>5 DEF RequestOK
<1> QED
  BY <1>2, <1>4, <1>5, <1>6, RequestsStay

LEMMA SyncedType ==
    ASSUME TypeInv, NEW t \in Threads, NEW p \in Profiles
    PROVE  Synced(t, p) \in UserRow /\ Synced(t, p).profile = p
<1>1. process[t].row \in UserRow
  BY DEF TypeInv, TypeOK, Request
<1> QED
  BY <1>1 DEF Synced, UserRow, Status

LEMMA LinkTypes ==
    ASSUME TypeInv, NEW t \in Threads, NEW p \in Profiles, At(t, "user"), Link(t, p),
           profiles' \in [Profiles -> ProfileRow]
    PROVE  TypeInv'
<1>1. process[t].human \in Humans /\ Workspace(t) \in Workspaces
  BY DEF TypeInv, RequestOK, At, Workspace
<1>2. user_extension' \in [Humans -> UserRow]
  BY <1>1, SyncedType DEF Link, TypeInv, TypeOK
<1>3. mapping' \in [Workspaces -> [Humans -> Profiles \cup {None}]]
  BY <1>1, MappingType DEF Link, TypeInv
<1>4. process' \in [Threads -> Request] /\ \A u \in Threads : RequestOK(u)'
  BY NextMemberTypes DEF Link, backend, realms
<1> QED
  BY <1>2, <1>3, <1>4 DEF TypeInv, TypeOK, Link, backend, realms

LEMMA ReactivateTypes ==
    ASSUME TypeInv, NEW p \in Profiles, Reactivate(p)
    PROVE  profiles' \in [Profiles -> ProfileRow]
BY ActiveType DEF Reactivate, TypeInv

LEMMA SyncTypes ==
    ASSUME TypeInv, NEW t \in Threads,
           sync_linked(t) \/ sync_existing(t) \/ sync_orphan(t) \/ sync_new(t)
    PROVE  TypeInv'
<1>0. /\ At(t, "user") /\ process[t].human \in Humans /\ Workspace(t) \in Workspaces
      /\ Found(t) \subseteq Profiles
  BY DEF sync_linked, sync_existing, sync_orphan, sync_new, InTransaction, TypeInv, RequestOK,
         At, Workspace, Found, WithEmail
<1>1. ASSUME sync_linked(t) PROVE TypeInv'
  <2>1. process[t].row.profile \in Profiles
    BY <1>1 DEF sync_linked, Linked, TypeInv, TypeOK, Request, UserRow
  <2> QED
    BY <1>0, <1>1, <2>1, ReactivateTypes, LinkTypes DEF sync_linked
<1>2. ASSUME sync_existing(t) PROVE TypeInv'
  <2>1. PICK p \in Found(t) : Reactivate(p) /\ Link(t, p)
    BY <1>2 DEF sync_existing
  <2> QED
    BY <1>0, <2>1, ReactivateTypes, LinkTypes
<1>3. ASSUME sync_orphan(t) PROVE TypeInv'
  <2>1. PICK p \in Found(t), x \in Humans : 
          /\ x \in OtherRows(t, p)
          /\ Reactivate(p)
          /\ user_extension' = [user_extension EXCEPT ![process[t].human] = NoRow,
                                                      ![x].status = "synced"]
          /\ record_realm_user_mapping(Workspace(t), p, process[t].human)
          /\ NextMember(t)
          /\ UNCHANGED <<backend, faults, erased, bridge, realms>>
    BY <1>3 DEF sync_orphan, OtherRows
  <2>2. profiles' \in [Profiles -> ProfileRow]
    BY <1>0, <2>1, ReactivateTypes
  <2>3. x \in Humans /\ x # process[t].human
    BY <2>1 DEF OtherRows
  <2>4. user_extension[x] \in UserRow
    BY <2>3 DEF TypeInv, TypeOK
  <2>5. [user_extension[x] EXCEPT !.status = "synced"] \in UserRow
    BY <2>4 DEF UserRow, Status
  <2>6. user_extension' \in [Humans -> UserRow]
    BY <1>0, <2>1, <2>3, <2>5, RowTypes DEF TypeInv, TypeOK
  <2>7. mapping' \in [Workspaces -> [Humans -> Profiles \cup {None}]]
    BY <1>0, <2>1, MappingType DEF TypeInv
  <2>8. process' \in [Threads -> Request] /\ \A u \in Threads : RequestOK(u)'
    BY <1>0, <2>1, NextMemberTypes DEF backend, realms
  <2> QED
    BY <2>1, <2>2, <2>6, <2>7, <2>8 DEF TypeInv, TypeOK, backend, realms
<1>4. ASSUME sync_new(t) PROVE TypeInv'
  <2>1. PICK p \in Profiles :
          /\ profiles' = [profiles EXCEPT ![p] =
               [workspace |-> Workspace(t), email |-> process[t].email[process[t].human],
                active |-> TRUE]]
          /\ Link(t, p)
    BY <1>4 DEF sync_new
  <2>2. process[t].email[process[t].human] \in Emails \cup {None}
    BY <1>0 DEF TypeInv, TypeOK, Request
  <2>3. profiles' \in [Profiles -> ProfileRow]
    BY <1>0, <2>1, <2>2, NewProfileType DEF TypeInv
  <2> QED
    BY <1>0, <2>1, <2>3, LinkTypes
<1> QED
  BY <1>1, <1>2, <1>3, <1>4

LEMMA FailureTypes ==
    ASSUME TypeInv, NEW t \in Threads, sync_user_fails(t)
    PROVE  TypeInv'
<1> DEFINE s == process[t].human
<1>1. At(t, "user") /\ s \in Humans
  BY DEF sync_user_fails, TypeInv, RequestOK, At
<1>2. user_extension[s] \in UserRow
  BY <1>1 DEF TypeInv, TypeOK
<1>3. [user_extension[s] EXCEPT !.status = "failed"] \in UserRow
  BY <1>2 DEF UserRow, Status
<1>4. user_extension' \in [Humans -> UserRow]
  BY <1>1, <1>3 DEF sync_user_fails, TypeInv, TypeOK
<1>5. process' \in [Threads -> Request] /\ \A u \in Threads : RequestOK(u)'
  BY <1>1, NextMemberTypes DEF sync_user_fails, backend, realms
<1>6. faults' \in 0 .. MaxFaults
  BY DEF sync_user_fails, Fault, TypeInv, TypeOK
<1> QED
  BY <1>4, <1>5, <1>6 DEF sync_user_fails, TypeInv, TypeOK, backend, realms

\* A step of a loop over profiles takes one of them off the list.
LEMMA LoopTypes ==
    ASSUME TypeInv, NEW t \in Threads, NEW p \in Profiles,
           process' = [process EXCEPT ![t].stale = @ \ {p}],
           deleted' = deleted, realm' = realm
    PROVE  /\ process' \in [Threads -> Request] /\ \A u \in Threads : RequestOK(u)'
           /\ process'[t] = [process[t] EXCEPT !.stale = process[t].stale \ {p}]
           /\ \A u \in Threads \ {t} : process'[u] = process[u]
<1> DEFINE r == [process[t] EXCEPT !.stale = process[t].stale \ {p}]
<1>1. process[t] \in Request
  BY DEF TypeInv, TypeOK
<1>2. r \in Request /\ r.pc = process[t].pc /\ r.workspace = process[t].workspace
      /\ r.human = process[t].human
  BY <1>1 DEF Request
<1>3. process' = [process EXCEPT ![t] = r]
  BY DEF TypeInv, TypeOK
<1>4. /\ process' \in [Threads -> Request] /\ process'[t] = r
      /\ \A u \in Threads \ {t} : process'[u] = process[u]
  BY <1>2, <1>3, ProcessType DEF TypeInv, TypeOK
<1> HIDE DEF r
<1>5. RequestOK(t)'
  BY <1>2, <1>4 DEF RequestOK, TypeInv
<1>6. \A u \in Threads : RequestOK(u)'
  BY <1>4, <1>5, RequestsStay
<1> QED
  BY <1>4, <1>6 DEF r

LEMMA RemovalTypes ==
    ASSUME TypeInv, NEW t \in Threads,
           \/ end_of_members(t) \/ sync_done(t)
           \/ \E p \in Profiles : deactivate_removed(t, p) \/ deactivation_fails(t, p)
    PROVE  TypeInv'
<1>1. ASSUME end_of_members(t) PROVE TypeInv'
  <2>1. CASE ~ process[t].full
    BY <1>1, <2>1, ReturnTypes DEF end_of_members, TypeInv, TypeOK, backend, realms, users
  <2>2. CASE process[t].full
    <3> DEFINE S == IF process[t].list = {} THEN {} ELSE _deactivate_removed_members(t)
               r == [process[t] EXCEPT !.pc = "removal", !.stale = S]
    <3>1. process[t] \in Request /\ process[t].workspace \in Workspaces
      BY <1>1 DEF TypeInv, TypeOK, RequestOK, end_of_members, At
    <3>2. S \subseteq Profiles
      BY DEF _deactivate_removed_members
    <3>3. process' = [process EXCEPT ![t] = r]
      BY <1>1, <2>2 DEF end_of_members, TypeInv, TypeOK
    <3> HIDE DEF S
    <3>4. r \in Request /\ r.pc = "removal" /\ r.workspace = process[t].workspace
      BY <3>1, <3>2 DEF Request
    <3> HIDE DEF r
    <3>5. /\ process' \in [Threads -> Request] /\ process'[t] = r
          /\ \A u \in Threads \ {t} : process'[u] = process[u]
      BY <3>3, <3>4, ProcessType DEF TypeInv, TypeOK
    <3>6. RequestOK(t)'
      BY <3>1, <3>4, <3>5 DEF RequestOK
    <3>7. \A u \in Threads : RequestOK(u)'
      BY <1>1, <3>5, <3>6, RequestsStay DEF end_of_members, backend, realms
    <3> QED
      BY <1>1, <3>5, <3>7 DEF end_of_members, TypeInv, TypeOK, backend, realms, users
  <2> QED
    BY <2>1, <2>2
<1>2. ASSUME sync_done(t) PROVE TypeInv'
  BY <1>2, ReturnTypes DEF sync_done, TypeInv, TypeOK, backend, realms, users
<1>3. ASSUME NEW p \in Profiles, deactivate_removed(t, p) PROVE TypeInv'
  <2>1. profiles' \in [Profiles -> ProfileRow]
    BY <1>3, ActiveType DEF deactivate_removed, TypeInv
  <2> QED
    BY <1>3, <2>1, LoopTypes DEF deactivate_removed, TypeInv, TypeOK, backend, realms
<1>4. ASSUME NEW p \in Profiles, deactivation_fails(t, p) PROVE TypeInv'
  <2>1. faults' \in 0 .. MaxFaults
    BY <1>4 DEF deactivation_fails, Fault, TypeInv, TypeOK
  <2>2. process' \in [Threads -> Request] /\ \A u \in Threads : RequestOK(u)'
    BY <1>4, LoopTypes DEF deactivation_fails, backend, realms
  <2> QED
    BY <1>4, <2>1, <2>2 DEF deactivation_fails, TypeInv, TypeOK, backend, realms, users
<1> QED
  BY <1>1, <1>2, <1>3, <1>4

LEMMA DeletionTypes ==
    ASSUME TypeInv, NEW t \in Threads,
           \/ \E p \in Profiles : do_delete_user_preserving_messages(t, p)
           \/ delete_pending_row(t)
    PROVE  TypeInv'
<1>1. ASSUME NEW p \in Profiles, do_delete_user_preserving_messages(t, p)
      PROVE  TypeInv'
  <2>1. Dummy(profiles[p].workspace) \in ProfileRow
    BY DEF Dummy, ProfileRow, TypeInv, TypeOK
  <2>2. profiles' \in [Profiles -> ProfileRow]
    BY <1>1, <2>1 DEF do_delete_user_preserving_messages, TypeInv, TypeOK
  <2>3. user_extension' \in [Humans -> UserRow]
    BY <1>1, RowTypes DEF do_delete_user_preserving_messages, TypeInv, TypeOK
  <2>4. mapping' \in [Workspaces -> [Humans -> Profiles \cup {None}]]
    BY <1>1 DEF do_delete_user_preserving_messages, TypeInv, TypeOK
  <2>5. process' \in [Threads -> Request] /\ \A u \in Threads : RequestOK(u)'
    BY <1>1, LoopTypes DEF do_delete_user_preserving_messages, backend, realms
  <2> QED
    BY <1>1, <2>2, <2>3, <2>4, <2>5
       DEF do_delete_user_preserving_messages, TypeInv, TypeOK, backend, realms
<1>2. ASSUME delete_pending_row(t)
      PROVE  TypeInv'
  <2> DEFINE s == process[t].human
  <2>1. s \in Humans /\ s \in deleted
    BY <1>2 DEF delete_pending_row, At, TypeInv, RequestOK
  <2>2. user_extension' \in [Humans -> UserRow]
    BY <1>2, <2>1, RowTypes DEF delete_pending_row, TypeInv, TypeOK
  <2>3. erased' \subseteq deleted
    BY <1>2, <2>1 DEF delete_pending_row, TypeInv, TypeOK
  <2>4. process' \in [Threads -> Request] /\ \A u \in Threads : RequestOK(u)'
    BY <1>2, ReturnTypes DEF delete_pending_row, backend, realms
  <2> QED
    BY <1>2, <2>2, <2>3, <2>4 DEF delete_pending_row, TypeInv, TypeOK, backend, realms
<1> QED
  BY <1>1, <1>2

LEMMA EndTypes ==
    ASSUME TypeInv, NEW t \in Threads, ends(t)
    PROVE  TypeInv'
BY ReturnTypes DEF ends, Fault, TypeInv, TypeOK, backend, realms, users

LEMMA ContinueTypes ==
    ASSUME TypeInv, NEW t \in Threads, Continue(t)
    PROVE  TypeInv'
BY RealmTypes, UserTypes, SyncTypes, FailureTypes, RemovalTypes, DeletionTypes, EndTypes
   DEF Continue

LEMMA StutterTypes ==
    ASSUME TypeInv, UNCHANGED vars
    PROVE  TypeInv'
BY DEF vars, backend, realms, users, TypeInv, TypeOK, RequestOK

LEMMA NextTypes == TypeInv /\ [Next]_vars => TypeInv'
BY BackendTypes, BridgeTypes, BeginTypes, ContinueTypes, StutterTypes DEF Next

\* The tables, the requests and what the backend knows keep their types.
THEOREM TypeCorrect == Spec => []TypeOK
<1>1. TypeInv => TypeOK
  BY DEF TypeInv
<1> QED
  BY InitTypes, NextTypes, <1>1, PTL DEF Spec

(***************************************************************************)
(* Deletion.  A human nobody names is touched by no step but a deletion:   *)
(* the invariant follows such a human from the beginning of a deletion,    *)
(* which must reach every profile, to its end and beyond.                  *)
(***************************************************************************)
Untouched(s) ==
    /\ s \in deleted /\ bridge[s] = {}
    /\ \A u \in Threads : process[u].pc # "delete" => ~ Names(u, s)

Gone(s) ==
    /\ user_extension[s] = NoRow
    /\ \A w \in Workspaces : mapping[w][s] = None

Deletes(t, s) == process[t].pc = "delete" /\ process[t].human = s /\ process[t].alone

DeletionInv ==
    /\ \A w \in Workspaces : members[w] \cap deleted = {}
    /\ \A s \in erased : Untouched(s) /\ Gone(s)
    /\ \A t \in Threads, s \in Humans : Deletes(t, s) =>
         Untouched(s) /\ LinkedProfiles(s) \subseteq process[t].stale

\* what a step does to the tables of a human it does not name
Keeps(s) ==
    /\ user_extension'[s].profile = user_extension[s].profile
    /\ user_extension[s] = NoRow => user_extension'[s] = NoRow
    /\ \A w \in Workspaces : mapping'[w][s] = mapping[w][s]

LEMMA InitDeletion == Init => DeletionInv
BY DEF Init, DeletionInv, Deletes, Idle

LEMMA LinkedKept ==
    ASSUME NEW s \in Humans, Keeps(s)
    PROVE  LinkedProfiles(s)' = LinkedProfiles(s)
<1>1. {mapping'[w][s] : w \in Workspaces} = {mapping[w][s] : w \in Workspaces}
  BY DEF Keeps
<1> QED
  BY <1>1 DEF Keeps, LinkedProfiles

LEMMA Frame ==
    ASSUME TypeInv, DeletionInv, erased' = erased,
           \A w \in Workspaces : members'[w] \cap deleted' = {},
           \A s \in Humans : Untouched(s) => Untouched(s)' /\ Keeps(s),
           \A t \in Threads : process'[t].pc = "delete" => process'[t] = process[t]
    PROVE  DeletionInv'
<1>1. \A s \in erased' : Untouched(s)' /\ Gone(s)'
  BY DEF DeletionInv, TypeInv, TypeOK, Keeps, Gone
<1>2. ASSUME NEW t \in Threads, NEW s \in Humans, Deletes(t, s)'
      PROVE  Untouched(s)' /\ LinkedProfiles(s)' \subseteq process'[t].stale
  <2>1. process'[t] = process[t] /\ Deletes(t, s)
    BY <1>2 DEF Deletes
  <2>2. Untouched(s) /\ LinkedProfiles(s) \subseteq process[t].stale
    BY <2>1 DEF DeletionInv
  <2> QED
    BY <2>1, <2>2, LinkedKept
<1> QED
  BY <1>1, <1>2 DEF DeletionInv

LEMMA BackendDeletion ==
    ASSUME TypeInv, DeletionInv, Backend
    PROVE  DeletionInv'
<1>1. UNCHANGED <<faults, erased, bridge, realms, users, process>> /\ deleted \subseteq deleted'
  BY DEF Backend, AddMember, RemoveMember, ChangeEmail, DeleteAccount
<1>2. \A w \in Workspaces : members'[w] \cap deleted' = {}
  <2> USE DEF TypeInv, TypeOK, DeletionInv
  <2>1. ASSUME NEW w \in Workspaces, NEW s \in Humans, AddMember(w, s)
        PROVE  \A v \in Workspaces : members'[v] \cap deleted' = {}
    BY <2>1 DEF AddMember
  <2>2. ASSUME NEW w \in Workspaces, NEW s \in Humans, RemoveMember(w, s)
        PROVE  \A v \in Workspaces : members'[v] \cap deleted' = {}
    BY <2>2 DEF RemoveMember
  <2>3. ASSUME NEW s \in Humans, NEW e \in Emails, ChangeEmail(s, e)
        PROVE  \A v \in Workspaces : members'[v] \cap deleted' = {}
    BY <2>3 DEF ChangeEmail
  <2>4. ASSUME NEW s \in Humans, DeleteAccount(s)
        PROVE  \A v \in Workspaces : members'[v] \cap deleted' = {}
    BY <2>4 DEF DeleteAccount
  <2> QED
    BY <2>1, <2>2, <2>3, <2>4 DEF Backend
<1>3. \A s \in Humans : Untouched(s) => Untouched(s)' /\ Keeps(s)
  BY <1>1 DEF Untouched, Keeps, Names, users
<1> QED
  BY <1>1, <1>2, <1>3, Frame

LEMMA BridgeDeletion ==
    ASSUME TypeInv, DeletionInv, NEW h \in Humans, Bridge(h)
    PROVE  DeletionInv'
<1>1. UNCHANGED <<backend, erased, process, user_extension>>
  BY DEF Bridge, _self_heal_mappings, _reconcile_cold_start, get_or_create_zulip_user,
         bridge_ends, users
<1>2. ~ Untouched(h)
         \/ (bridge' = [bridge EXCEPT ![h] = {}] /\ UNCHANGED mapping)
  <2>1. ASSUME NEW w \in Workspaces, _self_heal_mappings(w, h) \/ get_or_create_zulip_user(w, h)
        PROVE  ~ Untouched(h)
    BY <2>1 DEF _self_heal_mappings, get_or_create_zulip_user, Untouched
  <2>2. ASSUME _reconcile_cold_start(h)
        PROVE  ~ Untouched(h)
    BY <2>2 DEF _reconcile_cold_start, Untouched
  <2>3. ASSUME bridge_ends(h)
        PROVE  bridge' = [bridge EXCEPT ![h] = {}] /\ UNCHANGED mapping
    BY <2>3 DEF bridge_ends, users
  <2> QED
    BY <2>1, <2>2, <2>3 DEF Bridge
<1>3. \A s \in Humans \ {h} : bridge'[s] = bridge[s]
  BY DEF Bridge, _self_heal_mappings, _reconcile_cold_start, get_or_create_zulip_user,
         bridge_ends, TypeInv, TypeOK
<1>4. \A s \in Humans \ {h} : \A w \in Workspaces : mapping'[w][s] = mapping[w][s]
  <2>1. ASSUME NEW w \in Workspaces, _self_heal_mappings(w, h)
        PROVE  \A s \in Humans \ {h} : \A v \in Workspaces : mapping'[v][s] = mapping[v][s]
    <3>1. PICK p \in Profiles : record_realm_user_mapping(w, p, h)
      BY <2>1 DEF _self_heal_mappings, Unmapped, Active, WithEmail
    <3>2. TypeOK
      BY DEF TypeInv
    <3> QED
      BY <3>1, <3>2, MappingType
  <2>2. ASSUME NEW w \in Workspaces, get_or_create_zulip_user(w, h)
        PROVE  \A s \in Humans \ {h} : \A v \in Workspaces : mapping'[v][s] = mapping[v][s]
    <3>1. PICK p \in Profiles : record_realm_user_mapping(w, p, h)
      BY <2>2 DEF get_or_create_zulip_user, WithEmail
    <3>2. TypeOK
      BY DEF TypeInv
    <3> QED
      BY <3>1, <3>2, MappingType
  <2> QED
    BY <2>1, <2>2 DEF Bridge, _reconcile_cold_start, bridge_ends, users
<1>5. \A s \in Humans : Untouched(s) => Untouched(s)' /\ Keeps(s)
  <2>1. \A s \in Humans \ {h} : Untouched(s) => Untouched(s)' /\ Keeps(s)
    BY <1>1, <1>3, <1>4 DEF Untouched, Keeps, Names, backend
  <2>2. Untouched(h) => Untouched(h)' /\ Keeps(h)
    BY <1>1, <1>2 DEF Untouched, Keeps, Names, backend, TypeInv, TypeOK
  <2> QED
    BY <2>1, <2>2
<1>6. \A w \in Workspaces : members'[w] \cap deleted' = {}
  BY <1>1 DEF DeletionInv, backend
<1> QED
  BY <1>1, <1>5, <1>6, Frame

\* A request that begins or goes on, and is no deletion afterwards.
LEMMA RequestFrame ==
    ASSUME TypeInv, DeletionInv, NEW t \in Threads, process'[t].pc # "delete",
           \A u \in Threads \ {t} : process'[u] = process[u],
           UNCHANGED <<backend, erased, bridge>>,
           \A s \in Humans : Untouched(s) => ~ Names(t, s)' /\ Keeps(s)
    PROVE  DeletionInv'
<1>1. \A s \in Humans : Untouched(s) => Untouched(s)' /\ Keeps(s)
  BY DEF Untouched, Names, backend
<1>2. \A w \in Workspaces : members'[w] \cap deleted' = {}
  BY DEF DeletionInv, backend
<1> QED
  BY <1>1, <1>2, Frame

\* ... and touches no table of humans.
LEMMA TablesFrame ==
    ASSUME TypeInv, DeletionInv, NEW t \in Threads, process'[t].pc # "delete",
           \A u \in Threads \ {t} : process'[u] = process[u],
           UNCHANGED <<backend, erased, bridge, user_extension, mapping>>,
           \A s \in Humans : Untouched(s) => ~ Names(t, s)'
    PROVE  DeletionInv'
BY RequestFrame DEF Keeps

LEMMA ReturnDeletion ==
    ASSUME TypeInv, DeletionInv, NEW t \in Threads, Return(t),
           UNCHANGED <<backend, erased, bridge, user_extension, mapping>>
    PROVE  DeletionInv'
<1>1. process'[t] = Idle /\ \A u \in Threads \ {t} : process'[u] = process[u]
  BY RowTypes, ProcessType DEF Return, TypeInv, TypeOK
<1>2. \A s \in Humans : ~ Names(t, s)'
  BY <1>1 DEF Names, Idle
<1> QED
  BY <1>1, <1>2, TablesFrame DEF Idle

LEMMA BeginDeletion ==
    ASSUME TypeInv, DeletionInv, NEW t \in Threads, Begin(t)
    PROVE  DeletionInv'
<1>1. ASSUME NEW w \in Workspaces, sync_workspace(t, w)
      PROVE  DeletionInv'
  <2> DEFINE r == [Idle EXCEPT !.pc = "realm", !.workspace = w, !.email = Sent(members[w]),
                               !.list = members[w], !.todo = members[w], !.full = TRUE]
  <2>1. process' = [process EXCEPT ![t] = r] /\ r.pc = "realm"
        /\ r.list = members[w] /\ r.todo = members[w] /\ r.human = None
    BY <1>1 DEF sync_workspace, Idle
  <2> HIDE DEF r
  <2>2. process'[t] = r /\ \A u \in Threads \ {t} : process'[u] = process[u]
    BY <2>1 DEF TypeInv, TypeOK
  <2>3. \A s \in Humans : Untouched(s) => ~ Names(t, s)'
    BY <2>1, <2>2 DEF Untouched, Names, DeletionInv
  <2> QED
    BY <1>1, <2>1, <2>2, <2>3, TablesFrame DEF sync_workspace, users
<1>2. ASSUME NEW w \in Workspaces, NEW h \in Humans, sync_user_request(t, w, h)
      PROVE  DeletionInv'
  <2> DEFINE r == [Idle EXCEPT !.pc = "users", !.workspace = w, !.email = Sent({h}),
                               !.todo = {h}]
  <2>1. process' = [process EXCEPT ![t] = r] /\ r.pc = "users"
        /\ r.list = {} /\ r.todo = {h} /\ r.human = None /\ h \in members[w]
    BY <1>2 DEF sync_user_request, Idle
  <2> HIDE DEF r
  <2>2. process'[t] = r /\ \A u \in Threads \ {t} : process'[u] = process[u]
    BY <2>1 DEF TypeInv, TypeOK
  <2>3. \A s \in Humans : Untouched(s) => ~ Names(t, s)'
    BY <2>1, <2>2 DEF Untouched, Names, DeletionInv
  <2> QED
    BY <1>2, <2>1, <2>2, <2>3, TablesFrame DEF sync_user_request, users
<1>3. ASSUME NEW h \in Humans, delete_user(t, h)
      PROVE  DeletionInv'
  <2> DEFINE a == bridge[h] = {} /\ \A u \in Threads : ~ Names(u, h)
             r == [Idle EXCEPT !.pc = "delete", !.human = h, !.stale = LinkedProfiles(h),
                               !.alone = a]
  <2> HIDE DEF a
  <2>1. process' = [process EXCEPT ![t] = r] /\ r.pc = "delete" /\ r.human = h
        /\ r.stale = LinkedProfiles(h) /\ r.alone = a
        /\ h \in deleted /\ erased' = erased \ {h}
        /\ UNCHANGED <<backend, bridge, user_extension, mapping>>
    BY <1>3 DEF delete_user, Idle, users, a
  <2> HIDE DEF r
  <2>2. process'[t] = r /\ \A u \in Threads \ {t} : process'[u] = process[u]
    BY <2>1 DEF TypeInv, TypeOK
  <2>3. \A s \in Humans : Untouched(s) => Untouched(s)'
    BY <2>1, <2>2 DEF Untouched, Names, backend
  <2>4. \A s \in Humans : LinkedProfiles(s)' = LinkedProfiles(s) /\ (Gone(s) => Gone(s)')
    BY <2>1 DEF LinkedProfiles, Gone
  <2>5. \A s \in erased' : Untouched(s)' /\ Gone(s)'
    BY <2>1, <2>3, <2>4 DEF DeletionInv, TypeInv, TypeOK
  <2>6. ASSUME NEW u \in Threads, NEW s \in Humans, Deletes(u, s)'
        PROVE  Untouched(s)' /\ LinkedProfiles(s)' \subseteq process'[u].stale
    <3>1. CASE u = t
      <4>1. s = h /\ a
        BY <2>1, <2>2, <2>6, <3>1 DEF Deletes
      <4>2. Untouched(h)
        BY <2>1, <4>1 DEF a, Untouched
      <4> QED
        BY <2>1, <2>2, <2>3, <2>4, <3>1, <4>1, <4>2
    <3>2. CASE u # t
      <4>1. Deletes(u, s) /\ process'[u] = process[u]
        BY <2>2, <2>6, <3>2 DEF Deletes
      <4> QED
        BY <2>3, <2>4, <4>1 DEF DeletionInv
    <3> QED
      BY <3>1, <3>2
  <2>7. \A w \in Workspaces : members'[w] \cap deleted' = {}
    BY <2>1 DEF DeletionInv, backend
  <2> QED
    BY <2>5, <2>6, <2>7 DEF DeletionInv
<1> QED
  BY <1>1, <1>2, <1>3 DEF Begin

LEMMA RealmDeletion ==
    ASSUME TypeInv, DeletionInv, NEW t \in Threads,
           update_realm(t) \/ create_realm(t) \/ realm_exists(t) \/ link_realm(t)
    PROVE  DeletionInv'
<1>1. ASSUME realm_exists(t) PROVE DeletionInv'
  BY <1>1, ReturnDeletion DEF realm_exists, users
<1>2. ASSUME NEW pc \in {"users", "extension"}, Go(t, pc), At(t, "realm") \/ At(t, "extension"),
             UNCHANGED <<backend, erased, bridge, user_extension, mapping>>
      PROVE  DeletionInv'
  <2> DEFINE r == [process[t] EXCEPT !.pc = pc]
  <2>1. process[t] \in Request
    BY DEF TypeInv, TypeOK
  <2>2. /\ r.pc = pc /\ r.list = process[t].list /\ r.todo = process[t].todo
        /\ r.human = process[t].human
    BY <2>1 DEF Request
  <2>3. process' = [process EXCEPT ![t] = r]
    BY <1>2 DEF Go, TypeInv, TypeOK
  <2> HIDE DEF r
  <2>4. process'[t] = r /\ \A u \in Threads \ {t} : process'[u] = process[u]
    BY <2>3 DEF TypeInv, TypeOK
  <2>5. \A s \in Humans : Untouched(s) => ~ Names(t, s)'
    BY <1>2, <2>2, <2>4 DEF Untouched, Names, At
  <2> QED
    BY <1>2, <2>2, <2>4, <2>5, TablesFrame
<1> QED
  BY <1>1, <1>2 DEF update_realm, create_realm, link_realm, users

LEMMA UserDeletion ==
    ASSUME TypeInv, DeletionInv, NEW t \in Threads, NEW h \in Humans,
           give_up(t, h) \/ mark_syncing(t, h)
    PROVE  DeletionInv'
<1>1. process[t] \in Request
  BY DEF TypeInv, TypeOK
<1>2. h \in process[t].todo /\ process[t].pc = "users"
  BY InTurnOfList DEF give_up, mark_syncing
<1>3. ASSUME give_up(t, h) PROVE DeletionInv'
  <2> DEFINE r == WithoutMember(process[t], h)
  <2>1. /\ r.pc = "users" /\ r.human = process[t].human
        /\ r.list = process[t].list /\ r.todo \subseteq process[t].todo
    BY <1>1, <1>2, WithoutType
  <2>2. process' = [process EXCEPT ![t] = r]
    BY <1>3 DEF give_up
  <2> HIDE DEF r
  <2>3. process'[t] = r /\ \A u \in Threads \ {t} : process'[u] = process[u]
    BY <2>2 DEF TypeInv, TypeOK
  <2>4. \A s \in Humans : Untouched(s) => ~ Names(t, s)'
    BY <1>2, <2>1, <2>3 DEF Untouched, Names
  <2> QED
    BY <1>3, <2>1, <2>3, <2>4, TablesFrame DEF give_up, users
<1>4. ASSUME mark_syncing(t, h) PROVE DeletionInv'
  <2>1. PICK row : /\ user_extension' = [user_extension EXCEPT ![h] = row]
                   /\ process' = [process EXCEPT ![t] =
                        [@ EXCEPT !.pc = "user", !.human = h, !.row = row]]
    BY <1>4 DEF mark_syncing
  <2> DEFINE r == [process[t] EXCEPT !.pc = "user", !.human = h, !.row = row]
  <2>2. /\ r.pc = "user" /\ r.human = h
        /\ r.list = process[t].list /\ r.todo = process[t].todo
    BY <1>1 DEF Request
  <2>3. process' = [process EXCEPT ![t] = r]
    BY <2>1 DEF TypeInv, TypeOK
  <2> HIDE DEF r
  <2>4. process'[t] = r /\ \A u \in Threads \ {t} : process'[u] = process[u]
    BY <2>3 DEF TypeInv, TypeOK
  <2>5. \A s \in Humans : Untouched(s) => ~ Names(t, s)' /\ s # h
    BY <1>2, <2>2, <2>4 DEF Untouched, Names
  <2>6. \A s \in Humans : Untouched(s) => Keeps(s)
    BY <1>4, <2>1, <2>5 DEF Keeps, mark_syncing, TypeInv, TypeOK
  <2>7. UNCHANGED <<backend, erased, bridge>>
    BY <1>4 DEF mark_syncing
  <2> QED
    BY <2>2, <2>4, <2>5, <2>6, <2>7, RequestFrame
<1> QED
  BY <1>3, <1>4

\* sync_user writes the row and the mapping of the human it is about, whatever
\* happens to the rows it shares a profile with.
LEMMA MemberDeletion ==
    ASSUME TypeInv, DeletionInv, NEW t \in Threads, At(t, "user"), NextMember(t),
           UNCHANGED <<backend, erased, bridge, realms>>,
           \A s \in Humans \ {process[t].human} : Keeps(s)
    PROVE  DeletionInv'
<1>1. deleted' = deleted /\ realm' = realm
  BY DEF backend, realms
<1>2. /\ process'[t].pc = "users" /\ process'[t].human = None
      /\ process'[t].list = process[t].list /\ process'[t].todo \subseteq process[t].todo
      /\ \A u \in Threads \ {t} : process'[u] = process[u]
  BY <1>1, NextMemberTypes
<1>3. \A s \in Humans : Untouched(s) => ~ Names(t, s)' /\ s # process[t].human
  BY <1>2 DEF Untouched, Names, At
<1>4. UNCHANGED <<backend, erased, bridge>>
  OBVIOUS
<1>5. \A s \in Humans : Untouched(s) => Keeps(s)
  BY <1>3
<1> QED
  BY <1>2, <1>3, <1>4, <1>5, RequestFrame

LEMMA LinkDeletion ==
    ASSUME TypeInv, DeletionInv, NEW t \in Threads, NEW p \in Profiles, At(t, "user"), Link(t, p)
    PROVE  DeletionInv'
<1>1. process[t].human \in Humans /\ Workspace(t) \in Workspaces
  BY DEF TypeInv, RequestOK, At, Workspace
<1>2. \A v \in Workspaces, x \in Humans \ {process[t].human} : mapping'[v][x] = mapping[v][x]
  BY <1>1, MappingType DEF Link, TypeInv
<1>3. \A s \in Humans \ {process[t].human} : Keeps(s)
  BY <1>1, <1>2 DEF Link, Keeps, TypeInv, TypeOK
<1> QED
  BY <1>3, MemberDeletion DEF Link

LEMMA SyncDeletion ==
    ASSUME TypeInv, DeletionInv, NEW t \in Threads,
           \/ sync_linked(t) \/ sync_existing(t) \/ sync_orphan(t) \/ sync_new(t)
           \/ sync_user_fails(t)
    PROVE  DeletionInv'
<1>0. /\ At(t, "user") /\ process[t].human \in Humans /\ Workspace(t) \in Workspaces
      /\ Found(t) \subseteq Profiles
  BY DEF sync_linked, sync_existing, sync_orphan, sync_new, sync_user_fails, InTransaction,
         TypeInv, RequestOK, At, Workspace, Found, WithEmail
<1>1. ASSUME sync_linked(t) PROVE DeletionInv'
  <2>1. process[t].row.profile \in Profiles
    BY <1>1 DEF sync_linked, Linked, TypeInv, TypeOK, Request, UserRow
  <2> QED
    BY <1>0, <1>1, <2>1, LinkDeletion DEF sync_linked
<1>2. ASSUME sync_existing(t) PROVE DeletionInv'
  BY <1>0, <1>2, LinkDeletion DEF sync_existing
<1>3. ASSUME sync_orphan(t) PROVE DeletionInv'
  <2>1. PICK p \in Found(t), x \in Humans :
          /\ x \in OtherRows(t, p)
          /\ user_extension' = [user_extension EXCEPT ![process[t].human] = NoRow,
                                                      ![x].status = "synced"]
          /\ record_realm_user_mapping(Workspace(t), p, process[t].human)
          /\ NextMember(t)
          /\ UNCHANGED <<backend, erased, bridge, realms>>
    BY <1>3 DEF sync_orphan, OtherRows
  <2>2. \A v \in Workspaces, s \in Humans \ {process[t].human} : mapping'[v][s] = mapping[v][s]
    BY <1>0, <2>1, MappingType DEF TypeInv
  <2>3. x # process[t].human /\ user_extension[x].profile = p /\ user_extension[x] \in UserRow
    BY <2>1 DEF OtherRows, TypeInv, TypeOK
  <2>4. user_extension[x] # NoRow
    BY <1>0, <2>3 DEF NoRow
  <2>5. [user_extension[x] EXCEPT !.status = "synced"].profile = user_extension[x].profile
    BY <2>3 DEF UserRow
  <2>6. user_extension'[x].profile = user_extension[x].profile
    BY <1>0, <2>1, <2>3, <2>5 DEF TypeInv, TypeOK
  <2>7. \A s \in Humans \ {process[t].human, x} : user_extension'[s] = user_extension[s]
    BY <1>0, <2>1 DEF TypeInv, TypeOK
  <2>8. \A s \in Humans \ {process[t].human} : Keeps(s)
    BY <2>2, <2>4, <2>6, <2>7 DEF Keeps
  <2> QED
    BY <1>0, <2>1, <2>8, MemberDeletion
<1>4. ASSUME sync_new(t) PROVE DeletionInv'
  BY <1>0, <1>4, LinkDeletion DEF sync_new
<1>5. ASSUME sync_user_fails(t) PROVE DeletionInv'
  <2>1. \A s \in Humans \ {process[t].human} : Keeps(s)
    BY <1>5 DEF sync_user_fails, Keeps, TypeInv, TypeOK
  <2> QED
    BY <1>0, <1>5, <2>1, MemberDeletion DEF sync_user_fails
<1> QED
  BY <1>1, <1>2, <1>3, <1>4, <1>5

LEMMA RemovalDeletion ==
    ASSUME TypeInv, DeletionInv, NEW t \in Threads,
           \/ end_of_members(t) \/ sync_done(t) \/ ends(t)
           \/ \E p \in Profiles : deactivate_removed(t, p) \/ deactivation_fails(t, p)
    PROVE  DeletionInv'
<1>0. process[t] \in Request
  BY DEF TypeInv, TypeOK
<1>1. ASSUME end_of_members(t) PROVE DeletionInv'
  <2>1. CASE ~ process[t].full
    BY <1>1, <2>1, ReturnDeletion DEF end_of_members, users
  <2>2. CASE process[t].full
    <3> DEFINE S == IF process[t].list = {} THEN {} ELSE _deactivate_removed_members(t)
               r == [process[t] EXCEPT !.pc = "removal", !.stale = S]
    <3>1. process' = [process EXCEPT ![t] = r]
      BY <1>1, <2>2 DEF end_of_members, TypeInv, TypeOK
    <3> HIDE DEF S
    <3>2. /\ r.pc = "removal" /\ r.list = process[t].list /\ r.todo = process[t].todo
          /\ r.human = process[t].human
      BY <1>0 DEF Request
    <3> HIDE DEF r
    <3>3. process'[t] = r /\ \A u \in Threads \ {t} : process'[u] = process[u]
      BY <3>1 DEF TypeInv, TypeOK
    <3>4. \A s \in Humans : Untouched(s) => ~ Names(t, s)'
      BY <1>1, <3>2, <3>3 DEF Untouched, Names, At, end_of_members
    <3> QED
      BY <1>1, <3>2, <3>3, <3>4, TablesFrame DEF end_of_members, users
  <2> QED
    BY <2>1, <2>2
<1>2. ASSUME sync_done(t) \/ ends(t) PROVE DeletionInv'
  BY <1>2, ReturnDeletion DEF sync_done, ends, users
<1>3. ASSUME NEW p \in Profiles, deactivate_removed(t, p) \/ deactivation_fails(t, p)
      PROVE  DeletionInv'
  <2> DEFINE r == [process[t] EXCEPT !.stale = process[t].stale \ {p}]
  <2>1. /\ r.pc = process[t].pc /\ r.list = process[t].list /\ r.todo = process[t].todo
        /\ r.human = process[t].human
    BY <1>0 DEF Request
  <2>2. /\ process' = [process EXCEPT ![t].stale = @ \ {p}]
        /\ deleted' = deleted /\ realm' = realm /\ At(t, "removal")
        /\ UNCHANGED <<backend, erased, bridge, user_extension, mapping>>
    BY <1>3 DEF deactivate_removed, deactivation_fails, backend, realms, users
  <2>3. process'[t] = r /\ \A u \in Threads \ {t} : process'[u] = process[u]
    BY <2>2, LoopTypes
  <2> HIDE DEF r
  <2>4. \A s \in Humans : Untouched(s) => ~ Names(t, s)'
    BY <2>1, <2>2, <2>3 DEF Untouched, Names, At
  <2>5. process'[t].pc # "delete"
    BY <2>1, <2>2, <2>3 DEF At
  <2> QED
    BY <2>2, <2>3, <2>4, <2>5, TablesFrame
<1> QED
  BY <1>1, <1>2, <1>3

\* One profile is deleted: what was linked to it is linked to nothing.
LEMMA ProfileDeletion ==
    ASSUME TypeInv, DeletionInv, NEW t \in Threads, NEW p \in Profiles,
           do_delete_user_preserving_messages(t, p)
    PROVE  DeletionInv'
<1> DEFINE r == [process[t] EXCEPT !.stale = process[t].stale \ {p}]
<1>0. process[t] \in Request
  BY DEF TypeInv, TypeOK
<1>1. /\ r.pc = process[t].pc /\ r.human = process[t].human /\ r.alone = process[t].alone
      /\ r.stale = process[t].stale \ {p}
  BY <1>0 DEF Request
<1>2. /\ process' = [process EXCEPT ![t].stale = @ \ {p}]
      /\ deleted' = deleted /\ realm' = realm /\ At(t, "delete")
      /\ UNCHANGED <<backend, erased, bridge>>
  BY DEF do_delete_user_preserving_messages, backend, realms
<1>3. process'[t] = r /\ \A u \in Threads \ {t} : process'[u] = process[u]
  BY <1>2, LoopTypes
<1> HIDE DEF r
<1>4. \A s \in Humans : Untouched(s) => Untouched(s)'
  BY <1>1, <1>2, <1>3 DEF Untouched, Names, backend, At
<1>5. \A x \in Humans : user_extension'[x] = IF user_extension[x].profile = p THEN NoRow
                                             ELSE user_extension[x]
  BY DEF do_delete_user_preserving_messages
<1>6. \A w \in Workspaces, x \in Humans :
        mapping'[w][x] = IF mapping[w][x] = p THEN None ELSE mapping[w][x]
  BY DEF do_delete_user_preserving_messages
<1>7. \A s \in Humans : Gone(s) => Gone(s)'
  BY <1>5, <1>6 DEF Gone
<1>8. \A s \in Humans : LinkedProfiles(s)' \subseteq LinkedProfiles(s) \ {p}
  <2> TAKE s \in Humans
  <2>1. {mapping'[w][s] : w \in Workspaces} \subseteq
          ({mapping[w][s] : w \in Workspaces} \ {p}) \cup {None}
    BY <1>6
  <2>2. user_extension'[s].profile \in ({user_extension[s].profile} \ {p}) \cup {None}
    BY <1>5 DEF NoRow
  <2>3. LinkedProfiles(s)' =
          ({mapping'[w][s] : w \in Workspaces} \cup {user_extension'[s].profile}) \ {None}
    BY DEF LinkedProfiles
  <2>4. LinkedProfiles(s) =
          ({mapping[w][s] : w \in Workspaces} \cup {user_extension[s].profile}) \ {None}
    BY DEF LinkedProfiles
  <2> QED
    BY <2>1, <2>2, <2>3, <2>4
<1>9. \A s \in erased' : Untouched(s)' /\ Gone(s)'
  BY <1>2, <1>4, <1>7 DEF DeletionInv, TypeInv, TypeOK
<1>10. ASSUME NEW u \in Threads, NEW s \in Humans, Deletes(u, s)'
       PROVE  Untouched(s)' /\ LinkedProfiles(s)' \subseteq process'[u].stale
  <2>1. Deletes(u, s) /\ process[u].stale \ {p} \subseteq process'[u].stale
    BY <1>1, <1>3, <1>10 DEF Deletes
  <2>2. Untouched(s) /\ LinkedProfiles(s) \subseteq process[u].stale
    BY <2>1 DEF DeletionInv
  <2> QED
    BY <1>4, <1>8, <2>1, <2>2
<1>11. \A w \in Workspaces : members'[w] \cap deleted' = {}
  BY <1>2 DEF DeletionInv, backend
<1> QED
  BY <1>9, <1>10, <1>11 DEF DeletionInv

\* The last step of a deletion that overlapped nothing: no profile is left.
LEMMA LastDeletion ==
    ASSUME TypeInv, DeletionInv, NEW t \in Threads, delete_pending_row(t)
    PROVE  DeletionInv'
<1>0. PICK h \in Humans : h = process[t].human
  BY DEF delete_pending_row, At, TypeInv, RequestOK
<1>1. /\ process[t].pc = "delete" /\ process[t].stale = {}
      /\ user_extension' = IF user_extension[h].profile # None THEN user_extension
                           ELSE [user_extension EXCEPT ![h] = NoRow]
      /\ erased' = IF process[t].alone THEN erased \cup {h} ELSE erased
      /\ UNCHANGED <<backend, bridge, mapping>> /\ Return(t)
  BY <1>0 DEF delete_pending_row, At
<1>2. process'[t] = Idle /\ \A u \in Threads \ {t} : process'[u] = process[u]
  BY <1>1, RowTypes, ProcessType DEF Return, TypeInv, TypeOK
<1>3. \A s \in Humans : Untouched(s) => Untouched(s)'
  BY <1>1, <1>2 DEF Untouched, Names, Idle, backend
<1> DEFINE row(s) == user_extension'[s] = user_extension[s]
                       \/ (s = h /\ user_extension[s].profile = None /\ user_extension'[s] = NoRow)
<1>4. \A s \in Humans : row(s)
  BY <1>1 DEF TypeInv, TypeOK
<1>5. \A s \in Humans : Gone(s) => Gone(s)'
  BY <1>1, <1>4 DEF Gone
<1>6. \A s \in Humans : LinkedProfiles(s)' = LinkedProfiles(s)
  BY <1>1, <1>4 DEF LinkedProfiles, NoRow
<1>7. process[t].alone => Untouched(h) /\ LinkedProfiles(h) = {}
  <2>1. process[t].alone => Deletes(t, h)
    BY <1>0, <1>1 DEF Deletes
  <2> QED
    BY <1>1, <2>1 DEF DeletionInv
<1>8. process[t].alone => Gone(h)'
  <2>1. LinkedProfiles(h) = {} => /\ user_extension[h].profile = None
                                  /\ \A w \in Workspaces : mapping[w][h] = None
    BY DEF LinkedProfiles
  <2> QED
    BY <1>1, <1>7, <2>1 DEF Gone, TypeInv, TypeOK
<1>9. \A s \in erased' : Untouched(s)' /\ Gone(s)'
  BY <1>1, <1>3, <1>5, <1>7, <1>8 DEF DeletionInv, TypeInv, TypeOK
<1>10. ASSUME NEW u \in Threads, NEW s \in Humans, Deletes(u, s)'
       PROVE  Untouched(s)' /\ LinkedProfiles(s)' \subseteq process'[u].stale
  <2>1. Deletes(u, s) /\ process'[u] = process[u]
    BY <1>2, <1>10 DEF Deletes, Idle
  <2> QED
    BY <1>3, <1>6, <2>1 DEF DeletionInv
<1>11. \A w \in Workspaces : members'[w] \cap deleted' = {}
  BY <1>1 DEF DeletionInv, backend
<1> QED
  BY <1>9, <1>10, <1>11 DEF DeletionInv

LEMMA NextDeletion == TypeInv /\ DeletionInv /\ [Next]_vars => DeletionInv'
<1> SUFFICES ASSUME TypeInv, DeletionInv, [Next]_vars PROVE DeletionInv'
  OBVIOUS
<1>1. ASSUME NEW t \in Threads, Continue(t) PROVE DeletionInv'
  BY <1>1, RealmDeletion, UserDeletion, SyncDeletion, RemovalDeletion, ProfileDeletion,
     LastDeletion DEF Continue
<1>2. CASE UNCHANGED vars
  <2>1. UNCHANGED <<backend, erased, bridge, process, user_extension, mapping>>
    BY <1>2 DEF vars, users
  <2>2. \A s \in Humans : Untouched(s) => Untouched(s)' /\ Keeps(s)
    BY <2>1 DEF Untouched, Names, Keeps, backend
  <2>3. \A w \in Workspaces : members'[w] \cap deleted' = {}
    BY <2>1 DEF DeletionInv, backend
  <2> QED
    BY <2>1, <2>2, <2>3, Frame
<1> QED
  BY <1>1, <1>2, BackendDeletion, BridgeDeletion, BeginDeletion DEF Next

(***************************************************************************)
(* A deletion that overlapped no sync of the human leaves neither row nor  *)
(* mapping of them behind, however often deletions fail, die, overlap and  *)
(* are repeated, and nothing brings either back.                           *)
(***************************************************************************)
THEOREM DeletionLeavesNothing == Spec => []ErasedIsGone
<1>1. DeletionInv => ErasedIsGone
  BY DEF DeletionInv, ErasedIsGone, Gone
<1> QED
  BY InitTypes, NextTypes, InitDeletion, NextDeletion, <1>1, PTL DEF Spec

(***************************************************************************)
(* A profile is kept.  Requests may overlap, so nothing is said of how     *)
(* current the row is that a request has read: that is what Relinked       *)
(* excepts.  What is needed is what a request knows by itself: it carries  *)
(* an address for whom it has still to sync, the current one among them.   *)
(***************************************************************************)
StillToDo(t) == process[t].pc = "user" => process[t].human \in process[t].todo

Addressed(t) == \A s \in process[t].todo : process[t].email[s] # None

KeptInv == \A t \in Threads : StillToDo(t) /\ Addressed(t)

LEMMA InitKept == Init => KeptInv
BY DEF Init, KeptInv, StillToDo, Addressed, Idle

\* a request that reads no row, and forgets addresses of members it is done with
Proceeds(t) ==
    /\ process'[t].pc # "user"
    /\ process'[t].todo \subseteq process[t].todo
    /\ \A s \in process'[t].todo : process'[t].email[s] = process[t].email[s]

Alone(t) == \A u \in Threads \ {t} : process'[u] = process[u]

LEMMA AloneKept ==
    ASSUME KeptInv, NEW t \in Threads, Alone(t), StillToDo(t)', Addressed(t)'
    PROVE  KeptInv'
BY DEF Alone, KeptInv, StillToDo, Addressed

LEMMA ProceedsKept ==
    ASSUME KeptInv, NEW t \in Threads, Alone(t), Proceeds(t)
    PROVE  KeptInv'
<1>1. StillToDo(t)' /\ Addressed(t)'
  BY DEF Proceeds, KeptInv, StillToDo, Addressed
<1> QED
  BY <1>1, AloneKept

LEMMA OthersKept ==
    ASSUME KeptInv, UNCHANGED process
    PROVE  KeptInv'
BY DEF KeptInv, StillToDo, Addressed

LEMMA BeginKept ==
    ASSUME TypeInv, KeptInv, NEW t \in Threads, Begin(t)
    PROVE  KeptInv'
<1> SUFFICES Alone(t) /\ StillToDo(t)' /\ Addressed(t)'
  BY AloneKept
<1> USE DEF TypeInv, TypeOK, Alone
<1>1. ASSUME NEW w \in Workspaces, sync_workspace(t, w)
      PROVE  Alone(t) /\ StillToDo(t)' /\ Addressed(t)'
  BY <1>1 DEF sync_workspace, StillToDo, Addressed, Sent, Idle
<1>2. ASSUME NEW w \in Workspaces, NEW s \in Humans, sync_user_request(t, w, s)
      PROVE  Alone(t) /\ StillToDo(t)' /\ Addressed(t)'
  BY <1>2 DEF sync_user_request, StillToDo, Addressed, Sent, Idle
<1>3. ASSUME NEW s \in Humans, delete_user(t, s)
      PROVE  Alone(t) /\ StillToDo(t)' /\ Addressed(t)'
  BY <1>3 DEF delete_user, StillToDo, Addressed, Idle
<1> QED
  BY <1>1, <1>2, <1>3 DEF Begin

LEMMA ReturnProceeds ==
    ASSUME TypeInv, NEW t \in Threads, Return(t)
    PROVE  Alone(t) /\ Proceeds(t)
BY DEF Return, Alone, Proceeds, Idle, TypeInv, TypeOK

LEMMA MemberDone ==
    ASSUME TypeInv, NEW t \in Threads, NextMember(t)
    PROVE  Alone(t) /\ Proceeds(t)
BY DEF NextMember, WithoutMember, Alone, Proceeds, TypeInv, TypeOK, Request

LEMMA ContinueKept ==
    ASSUME TypeInv, KeptInv, NEW t \in Threads, Continue(t)
    PROVE  KeptInv'
<1>type. process \in [Threads -> Request] /\ process[t] \in Request
  BY DEF TypeInv, TypeOK
<1>1. CASE \E s \in Humans : mark_syncing(t, s)
  <2> PICK s \in Humans : mark_syncing(t, s)
    BY <1>1
  <2>1. s \in process[t].todo
    BY DEF mark_syncing, InTurn
  <2>2. Alone(t) /\ StillToDo(t)' /\ Addressed(t)'
    BY <2>1 DEF mark_syncing, Alone, KeptInv, StillToDo, Addressed, TypeInv, TypeOK
  <2> QED
    BY <2>2, AloneKept
<1>2. CASE ~ \E s \in Humans : mark_syncing(t, s)
  <2> SUFFICES Alone(t) /\ Proceeds(t)
    BY ProceedsKept
  <2>1. ASSUME update_realm(t) \/ create_realm(t) \/ link_realm(t)
        PROVE  Alone(t) /\ Proceeds(t)
    <3>1. PICK pc \in {"users", "extension"} : process' = [process EXCEPT ![t].pc = pc]
      BY <2>1 DEF update_realm, create_realm, link_realm, Go
    <3>2. process'[t] = [process[t] EXCEPT !.pc = pc]
      BY <1>type, <3>1
    <3> QED
      BY <1>type, <3>1, <3>2 DEF Alone, Proceeds, Request
  <2>2. ASSUME realm_exists(t) \/ sync_done(t) \/ delete_pending_row(t) \/ ends(t)
        PROVE  Alone(t) /\ Proceeds(t)
    BY <2>2, ReturnProceeds DEF realm_exists, sync_done, delete_pending_row, ends
  <2>3. ASSUME NEW s \in Humans, give_up(t, s)
        PROVE  Alone(t) /\ Proceeds(t)
    BY <2>3 DEF give_up, InTurn, At, WithoutMember, Alone, Proceeds, TypeInv, TypeOK, Request
  <2>4. ASSUME \/ sync_linked(t) \/ sync_existing(t) \/ sync_orphan(t) \/ sync_new(t)
               \/ sync_user_fails(t)
        PROVE  Alone(t) /\ Proceeds(t)
    BY <2>4, MemberDone
       DEF sync_linked, sync_existing, sync_orphan, sync_new, sync_user_fails, Link
  <2>5. ASSUME end_of_members(t)
        PROVE  Alone(t) /\ Proceeds(t)
    <3>1. CASE process[t].full
      <4> DEFINE P == IF process[t].list = {} THEN {} ELSE _deactivate_removed_members(t)
      <4>1. process' = [process EXCEPT ![t] = [@ EXCEPT !.pc = "removal", !.stale = P]]
        BY <2>5, <3>1 DEF end_of_members
      <4> HIDE DEF P
      <4>2. process'[t] = [process[t] EXCEPT !.pc = "removal", !.stale = P]
        BY <1>type, <4>1
      <4> QED
        BY <1>type, <4>1, <4>2 DEF Alone, Proceeds, Request
    <3>2. CASE ~ process[t].full
      BY <2>5, <3>2, ReturnProceeds DEF end_of_members
    <3> QED
      BY <3>1, <3>2
  <2>6. ASSUME NEW p \in Profiles,
               \/ deactivate_removed(t, p) \/ deactivation_fails(t, p)
               \/ do_delete_user_preserving_messages(t, p)
        PROVE  Alone(t) /\ Proceeds(t)
    <3>1. /\ process' = [process EXCEPT ![t].stale = @ \ {p}]
          /\ process[t].pc \in {"removal", "delete"}
      BY <2>6 DEF deactivate_removed, deactivation_fails,
                  do_delete_user_preserving_messages, At
    <3> QED
      BY <1>type, <3>1 DEF Alone, Proceeds, Request
  <2> QED
    BY <1>2, <2>1, <2>2, <2>3, <2>4, <2>5, <2>6 DEF Continue
<1> QED
  BY <1>1, <1>2

LEMMA NextKept == TypeInv /\ KeptInv /\ [Next]_vars => KeptInv'
<1> SUFFICES ASSUME TypeInv, KeptInv, [Next]_vars PROVE KeptInv'
  OBVIOUS
<1>1. CASE Backend
  BY <1>1, OthersKept DEF Backend, AddMember, RemoveMember, ChangeEmail, DeleteAccount, users
<1>2. CASE \E s \in Humans : Bridge(s)
  BY <1>2, OthersKept
     DEF Bridge, _self_heal_mappings, _reconcile_cold_start, get_or_create_zulip_user,
         bridge_ends, users
<1>3. CASE UNCHANGED vars
  BY <1>3, OthersKept DEF vars, users
<1> QED
  BY <1>1, <1>2, <1>3, BeginKept, ContinueKept DEF Next

(***************************************************************************)
(* Each step that maps a human of whom everything names one profile.       *)
(***************************************************************************)
LEMMA OnlyClaimed ==
    ASSUME TypeInv, NEW w \in Workspaces, NEW s \in Humans, NEW p \in Profiles,
           record_realm_user_mapping(w, p, s),
           NEW v \in Workspaces, NEW x \in Humans, Settled(v, x),
           (v = w /\ x = s) => p \in Claims(w, s)
    PROVE  mapping'[v][x] = mapping[v][x]
BY DEF record_realm_user_mapping, Settled, TypeInv, TypeOK

LEMMA AddressClaims ==
    ASSUME NEW w \in Workspaces, NEW s \in Humans
    PROVE  WithEmail(w, email[s]) \subseteq Claims(w, s)
BY DEF WithEmail, Claims

LEMMA SettledFound ==
    ASSUME TypeInv, NEW w \in Workspaces, NEW s \in Humans, Settled(w, s)
    PROVE  mapping[w][s] \in WithEmail(w, email[s])
BY DEF Settled, Claims, WithEmail

LEMMA BridgeKeeps ==
    ASSUME TypeInv, NEW h \in Humans, Bridge(h),
           NEW v \in Workspaces, NEW x \in Humans, Settled(v, x)
    PROVE  mapping'[v][x] = mapping[v][x]
<1>1. ASSUME NEW w \in Workspaces, _self_heal_mappings(w, h)
      PROVE  mapping'[v][x] = mapping[v][x]
  <2>1. PICK p \in WithEmail(w, email[h]) : record_realm_user_mapping(w, p, h)
    BY <1>1 DEF _self_heal_mappings, Unmapped, Active
  <2>2. p \in Profiles /\ p \in Claims(w, h)
    BY AddressClaims DEF WithEmail
  <2> QED
    BY <2>1, <2>2, OnlyClaimed
<1>2. ASSUME NEW w \in Workspaces, get_or_create_zulip_user(w, h)
      PROVE  mapping'[v][x] = mapping[v][x]
  <2>1. CASE WithEmail(w, email[h]) = {}
    <3>1. ~ (v = w /\ x = h)
      BY <2>1, SettledFound
    <3> QED
      BY <1>2, <2>1, <3>1, OnlyClaimed DEF get_or_create_zulip_user
  <2>2. CASE WithEmail(w, email[h]) # {}
    <3>1. PICK p \in WithEmail(w, email[h]) : record_realm_user_mapping(w, p, h)
      BY <1>2, <2>2 DEF get_or_create_zulip_user
    <3>2. p \in Profiles /\ p \in Claims(w, h)
      BY AddressClaims DEF WithEmail
    <3> QED
      BY <3>1, <3>2, OnlyClaimed
  <2> QED
    BY <2>1, <2>2
<1>3. ASSUME _reconcile_cold_start(h) \/ bridge_ends(h)
      PROVE  mapping'[v][x] = mapping[v][x]
  BY <1>3 DEF _reconcile_cold_start, bridge_ends, users
<1> QED
  BY <1>1, <1>2, <1>3 DEF Bridge

\* whom a request syncs, if settled, is found under the address it carries
LEMMA FoundIsClaimed ==
    ASSUME TypeInv, KeptInv, NEW t \in Threads, InTransaction(t),
           NEW v \in Workspaces, NEW x \in Humans, Settled(v, x),
           v = Workspace(t), x = process[t].human
    PROVE  Found(t) = WithEmail(v, email[x])
<1>1. process[t].email[x] = email[x]
  BY DEF InTransaction, At, KeptInv, StillToDo, Addressed, Settled, Outdated
<1> QED
  BY <1>1 DEF Found, Workspace

LEMMA SyncKeeps ==
    ASSUME TypeInv, KeptInv, NEW t \in Threads,
           sync_linked(t) \/ sync_existing(t) \/ sync_orphan(t) \/ sync_new(t),
           NEW v \in Workspaces, NEW x \in Humans, Settled(v, x), ~ Relinked(x)
    PROVE  mapping'[v][x] = mapping[v][x]
<1>1. /\ InTransaction(t)
      /\ Workspace(t) \in Workspaces /\ process[t].human \in Humans
  BY DEF sync_linked, sync_existing, sync_orphan, sync_new, InTransaction, At, Workspace,
         TypeInv, RequestOK
<1>w. PICK w \in Workspaces : w = Workspace(t)
  BY <1>1
<1>s. PICK s \in Humans : s = process[t].human
  BY <1>1
<1>2. CASE sync_linked(t)
  <2>1. process[t].row.profile \in Profiles
    BY <1>2 DEF sync_linked, Linked, TypeInv, TypeOK, Request, UserRow
  <2>p. PICK p \in Profiles : p = process[t].row.profile
    BY <2>1
  <2>2. profiles[p].workspace = w
    BY <1>w, <1>2, <2>p DEF sync_linked, Linked
  <2>3. record_realm_user_mapping(w, p, s)
    BY <1>w, <1>s, <1>2, <2>p DEF sync_linked, Link, record_realm_user_mapping
  <2>4. x = s => p = user_extension[s].profile
    BY <1>s, <1>1, <2>p DEF InTransaction, At, Relinked
  <2>5. (v = w /\ x = s) => p \in Claims(w, s)
    BY <2>2, <2>4 DEF Claims
  <2> QED
    BY <2>3, <2>5 DEF record_realm_user_mapping, Settled, TypeInv, TypeOK
<1>3. CASE sync_existing(t) \/ sync_orphan(t)
  <2>1. PICK p \in Found(t) : record_realm_user_mapping(w, p, s)
    BY <1>w, <1>s, <1>3 DEF sync_existing, sync_orphan, Link, record_realm_user_mapping
  <2>2. p \in Profiles
    BY DEF Found, WithEmail
  <2>3. (v = w /\ x = s) => p \in Claims(w, s)
    BY <1>1, <1>w, <1>s, FoundIsClaimed, AddressClaims
  <2> QED
    BY <2>1, <2>2, <2>3 DEF record_realm_user_mapping, Settled, TypeInv, TypeOK
<1>4. CASE sync_new(t)
  <2>1. ~ (v = w /\ x = s)
    BY <1>1, <1>w, <1>s, <1>4, FoundIsClaimed, SettledFound DEF sync_new
  <2>2. PICK p \in Profiles : record_realm_user_mapping(w, p, s)
    BY <1>w, <1>s, <1>4 DEF sync_new, Link, record_realm_user_mapping
  <2> QED
    BY <2>1, <2>2, OnlyClaimed
<1> QED
  BY <1>2, <1>3, <1>4

LEMMA NextKeeps ==
    ASSUME TypeInv, KeptInv, [Next]_vars,
           NEW v \in Workspaces, NEW x \in Humans, Settled(v, x), ~ Relinked(x)
    PROVE  mapping'[v][x] \in {None, mapping[v][x]}
<1>1. CASE Backend
  BY <1>1 DEF Backend, AddMember, RemoveMember, ChangeEmail, DeleteAccount, users
<1>2. CASE \E s \in Humans : Bridge(s)
  BY <1>2, BridgeKeeps
<1>3. CASE \E t \in Threads : Begin(t)
  <2>1. UNCHANGED mapping
    <3>1. ASSUME NEW t \in Threads, NEW w \in Workspaces, sync_workspace(t, w)
          PROVE  UNCHANGED mapping
      BY <3>1 DEF sync_workspace, users
    <3>2. ASSUME NEW t \in Threads, NEW w \in Workspaces, NEW s \in Humans,
                 sync_user_request(t, w, s)
          PROVE  UNCHANGED mapping
      BY <3>2 DEF sync_user_request, users
    <3>3. ASSUME NEW t \in Threads, NEW s \in Humans, delete_user(t, s)
          PROVE  UNCHANGED mapping
      BY <3>3 DEF delete_user, users
    <3> QED
      BY <1>3, <3>1, <3>2, <3>3 DEF Begin
  <2> QED
    BY <2>1
<1>4. ASSUME NEW t \in Threads, Continue(t)
      PROVE  mapping'[v][x] \in {None, mapping[v][x]}
  <2>1. CASE sync_linked(t) \/ sync_existing(t) \/ sync_orphan(t) \/ sync_new(t)
    BY <2>1, SyncKeeps
  <2>2. CASE \E p \in Profiles : do_delete_user_preserving_messages(t, p)
    BY <2>2 DEF do_delete_user_preserving_messages
  <2>3. CASE \/ update_realm(t) \/ create_realm(t) \/ realm_exists(t) \/ link_realm(t)
             \/ sync_user_fails(t) \/ end_of_members(t) \/ sync_done(t)
             \/ delete_pending_row(t) \/ ends(t)
    <3>1. UNCHANGED mapping
      BY <2>3 DEF update_realm, create_realm, realm_exists, link_realm, sync_user_fails,
                  end_of_members, sync_done, delete_pending_row, ends, users
    <3> QED
      BY <3>1
  <2>4. ASSUME NEW s \in Humans, give_up(t, s) \/ mark_syncing(t, s)
        PROVE  UNCHANGED mapping
    BY <2>4 DEF give_up, mark_syncing, users
  <2>5. ASSUME NEW p \in Profiles, deactivate_removed(t, p) \/ deactivation_fails(t, p)
        PROVE  UNCHANGED mapping
    BY <2>5 DEF deactivate_removed, deactivation_fails, users
  <2> QED
    BY <1>4, <2>1, <2>2, <2>3, <2>4, <2>5 DEF Continue
<1>5. CASE UNCHANGED vars
  BY <1>5 DEF vars, users
<1> QED
  BY <1>1, <1>2, <1>3, <1>4, <1>5 DEF Next

(***************************************************************************)
(* Whose mapping, row and address all name one profile stays mapped to it  *)
(* until it is deleted, whatever fails, dies, signs in or changes in the   *)
(* backend and however many requests overlap, unless one of them is about  *)
(* to use a row it read when that row named another profile.               *)
(***************************************************************************)
THEOREM ProfilesAreKept == Spec => ProfileKept
<1>1. TypeInv /\ KeptInv /\ [Next]_vars
        => [\A w \in Workspaces, s \in Humans :
              Settled(w, s) /\ ~ Relinked(s)
                => mapping'[w][s] \in {None, mapping[w][s]}]_mapping
  BY NextKeeps
<1> QED
  BY InitTypes, NextTypes, InitKept, NextKept, <1>1, PTL DEF Spec, ProfileKept
=============================================================================
