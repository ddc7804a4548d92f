------------------------- MODULE DerivedCandidates -------------------------
(***************************************************************************)
(* How nodl-backend fetches the messages it may translate                  *)
(* (nodl/api/views/derived_candidates.py): page by page, newest first, for *)
(* a reader who turned translation on (back-fill), or by id, oldest first, *)
(* for translations that are stuck (sweep).  A page is cut by the number   *)
(* of its items and by their bytes, and between two pages messages are     *)
(* sent, edited and deleted.                                               *)
(*                                                                         *)
(* Of a message the model keeps what the pages see.                        *)
(***************************************************************************)
EXTENDS Integers, FiniteSets, FiniteSetsExt

CONSTANTS
    Kinds,          \* what a message may be to the reader
    MaxId,          \* bound on message ids
    Limit,          \* items of a back-fill page (MAX_BACKFILL_ITEMS)
    ScanFactor,     \* SCAN_FACTOR
    MaxBytes,       \* MAX_PAGE_TEXT_BYTES
    Sent,           \* messages at the beginning
    MaxChanges      \* bound on messages sent, edited or deleted

ASSUME CandidatesAssumption ==
    /\ Kinds \subseteq {"hidden", "dropped", "voice", "short", "long"}
    /\ MaxId \in Nat /\ MaxChanges \in Nat /\ Sent \in 0 .. MaxId
    /\ Limit \in Nat \ {0} /\ ScanFactor \in Nat \ {0} /\ MaxBytes \in Nat

VARIABLES
    rows,           \* Message: what each id is to the reader
    newest,         \* the last id given to a message
    changes,
    walk,           \* what the backend is fetching
    before,         \* before_message_id of its next back-fill page
    asked,          \* message_ids of its next sweep
    got,            \* how often each message was returned
    owed            \* messages to return: there since the walk began

messages == <<rows, newest, changes>>
walk_vars == <<messages, walk, before, asked, got, owed>>

Ids == 1 .. MaxId

Gone == "gone"

\* "hidden": the query of the back-fill leaves it out (another stream, a bot,
\* the reader's own); "dropped": the access check or _classify does
Translatable(i) == rows[i] \in {"voice", "short", "long"}

\* _text_size: only text travels; a long one exceeds the cap on its own
Size(kind) == CASE kind = "short" -> 1 [] kind = "long" -> MaxBytes + 1 [] OTHER -> 0

Bytes(S) == MapThenSumSet(LAMBDA i : Size(rows[i]), S)

(***************************************************************************)
(* _backfill_candidates.                                                   *)
(***************************************************************************)
\* mutant: the row of the cursor is part of the next page
OlderRowsFromCursor == {i \in Ids : rows[i] \notin {Gone, "hidden"} /\ i <= before}

OlderRows == {i \in Ids : rows[i] \notin {Gone, "hidden"} /\ i < before}

Window == Limit * ScanFactor

Scanned == {i \in OlderRows : Cardinality({j \in OlderRows : j > i}) < Window}

Items == {i \in Scanned : Translatable(i)}

\* the loop gets to row i: the page is not full before it
Reached(i) == Cardinality({j \in Items : j > i}) < Limit

\* mutant: the first item has to fit too
FitsAlways(i) == Bytes({j \in Items : j > i}) + Size(rows[i]) <= MaxBytes

\* and does not stop at item i: the first one is always taken
Fits(i) ==
    LET taken == {j \in Items : j > i}
    IN  taken = {} \/ Bytes(taken) + Size(rows[i]) <= MaxBytes

Handled == {i \in Scanned : Reached(i) /\ \A j \in Items : j >= i => Fits(j)}

\* mutant: a full scan or a full page, but not a page cut by its bytes
MoreRows == Cardinality(Scanned) = Window \/ Cardinality(Items \cap Handled) >= Limit

More ==
    \/ Cardinality(Scanned) = Window
    \/ Handled # Scanned
    \/ Cardinality(Items \cap Handled) >= Limit

Return(S) == got' = [i \in Ids |-> IF i \in S THEN got[i] + 1 ELSE got[i]]

BackfillPage ==
    /\ walk = "backfill"
    /\ Return(Items \cap Handled)
    /\ \/ ~ More /\ walk' = "done" /\ UNCHANGED before
       \/ /\ More /\ UNCHANGED walk
          /\ before' \in Handled
          /\ \A i \in Handled : before' <= i
    /\ UNCHANGED <<messages, asked, owed>>

(***************************************************************************)
(* _sweep_candidates: a message that no longer translates is returned too. *)
(***************************************************************************)
Found == {i \in asked : rows[i] # Gone}

Picked ==
    {i \in Found : \A j \in Found : j <= i =>
        LET taken == {k \in Found : k < j}
        IN  taken = {} \/ Bytes(taken) + Size(rows[j]) <= MaxBytes}

Truncated == Picked # Found

\* the rest is asked for again
SweepPage ==
    /\ walk = "sweep"
    /\ Return(Picked)
    /\ \/ ~ Truncated /\ walk' = "done" /\ UNCHANGED asked
       \/ Truncated /\ asked' = {i \in asked : \A j \in Picked : j < i} /\ UNCHANGED walk
    /\ UNCHANGED <<messages, before, owed>>

(***************************************************************************)
(* Messages change between two pages.                                      *)
(***************************************************************************)
Start ==
    /\ walk = "idle"
    /\ \/ /\ walk' = "backfill"
          /\ owed' = {i \in Ids : Translatable(i)}
          /\ UNCHANGED asked
       \/ \E S \in (SUBSET (1 .. newest)) \ {{}} :
            /\ walk' = "sweep"
            /\ asked' = S
            /\ owed' = {i \in S : rows[i] # Gone}
    /\ UNCHANGED <<messages, before, got>>

Change(i, kind) ==
    /\ changes < MaxChanges /\ walk # "done"
    /\ rows' = [rows EXCEPT ![i] = kind]
    /\ changes' = changes + 1
    /\ owed' = IF kind = Gone \/ (walk = "backfill" /\ kind = "dropped")
               THEN owed \ {i} ELSE owed
    /\ UNCHANGED <<walk, before, asked, got>>

Send(kind) ==
    /\ newest < MaxId
    /\ newest' = newest + 1
    /\ Change(newest + 1, kind)

\* an edit changes the text; who may read the message stays
Edit(i, kind) ==
    /\ rows[i] \notin {Gone, "hidden"} /\ kind # "hidden"
    /\ Change(i, kind)
    /\ UNCHANGED newest

Delete(i) ==
    /\ rows[i] # Gone
    /\ Change(i, Gone)
    /\ UNCHANGED newest

WalkInit ==
    /\ newest = Sent
    /\ rows \in {r \in [Ids -> Kinds \cup {Gone}] : \A i \in Ids : i > newest => r[i] = Gone}
    /\ changes = 0
    /\ walk = "idle" /\ before = MaxId + 1 /\ asked = {}
    /\ got = [i \in Ids |-> 0] /\ owed = {}

WalkNext ==
    \/ Start \/ BackfillPage \/ SweepPage
    \/ \E kind \in Kinds : Send(kind) \/ \E i \in Ids : Edit(i, kind)
    \/ \E i \in Ids : Delete(i)

WalkSpec == WalkInit /\ [][WalkNext]_walk_vars

\* the backend goes on until the cursor is null
FairWalk ==
    WalkSpec /\ WF_walk_vars(Start) /\ WF_walk_vars(BackfillPage) /\ WF_walk_vars(SweepPage)

WalkTypeOK ==
    /\ rows \in [Ids -> Kinds \cup {Gone}]
    /\ newest \in 0 .. MaxId /\ changes \in 0 .. MaxChanges
    /\ walk \in {"idle", "backfill", "sweep", "done"}
    /\ before \in 1 .. MaxId + 1
    /\ asked \subseteq Ids /\ owed \subseteq Ids
    /\ got \in [Ids -> Nat]

\* One walk returns no message twice, however messages come and go.
AtMostOnce == \A i \in Ids : got[i] <= 1

\* A walk that has ended has returned every message that was there, and
\* translatable, from its beginning to its end.
AllReturned == walk = "done" => \A i \in owed : got[i] > 0

\* A walk ends: every page moves the cursor, even one that is cut by a text
\* longer than the cap and one without items.
WalkEnds == walk # "idle" ~> walk = "done"
=============================================================================
