--------------------------- MODULE DerivedContent ---------------------------
(***************************************************************************)
(* What is derived from one message: the transcript of its voice note or   *)
(* the translation of its text, a block nodl appends to the HTML in        *)
(* rendered_content (nodl/derived_content.py).  The row has four writers,  *)
(* each a transaction that holds its lock: an edit, the attach endpoint,   *)
(* the preview worker and the deletion.  What connects them - the hooks    *)
(* run after a commit, two RabbitMQ queues with a worker each, and the     *)
(* jobs of nodl-backend - runs in between.                                 *)
(*                                                                         *)
(* A content stands for the markdown of a message; Text and Voices say     *)
(* what can be derived from it.  The sender is human.                      *)
(***************************************************************************)
EXTENDS Naturals, Sequences, FiniteSets

CONSTANTS
    Contents,
    Sources,        \* texts to translate
    None,           \* no text to translate, no event, no request
    Text,           \* translation_text of each content, or None
    Paths,          \* voice notes that were uploaded
    Voices,         \* the voice notes each content links to
    Linked,         \* contents with links to preview
    SendsHash,      \* the backend sends source_hash with a translation
    MaxTries,       \* MAX_REQUEST_RETRIES
    MaxEdits,       \* bound on edits
    MaxCrashes      \* bound on crashes of a web process or a worker

ASSUME DerivedAssumption ==
    /\ None \notin Sources \cup Contents
    /\ Text \in [Contents -> Sources \cup {None}]
    /\ Voices \in [Contents -> SUBSET Paths]
    /\ \A c \in Contents : Voices[c] # {} => Text[c] = None
    /\ Linked \subseteq Contents
    /\ SendsHash \in BOOLEAN
    /\ MaxTries \in Nat /\ MaxEdits \in Nat /\ MaxCrashes \in Nat

VARIABLES
    content,        \* Message.content
    rendered,       \* the derived blocks in Message.rendered_content
    deleted,        \* the row has been archived
    edits,          \* number of edits so far
    hooks,          \* on_commit hooks of the send (0) and of each edit to run
    embed_links,    \* the queue of the preview worker
    fetching,       \* the event it fetches previews for
    candidates,     \* the queue nodl_derived_content
    posting,        \* the request its worker sends to the backend
    jobs,           \* requests the backend has accepted and not completed
    crashes,
    lost            \* what the text or voice note should have got was lost

message == <<content, rendered, deleted>>
previews == <<embed_links, fetching>>
derivation == <<candidates, posting, jobs>>
vars == <<message, edits, hooks, previews, derivation, crashes, lost>>

Transcript(paths) == [kind |-> "voice_transcript", of |-> paths]
Translation(text) == [kind |-> "text_translation", of |-> text]
Blocks == {Transcript(p) : p \in (SUBSET Paths) \ {{}}} \cup {Translation(s) : s \in Sources}

LinkEvent(c) == [queue |-> "embed_links", of |-> c]
DerivedEvent(paths) == [queue |-> "nodl_derived_content", of |-> paths]
Events == {LinkEvent(c) : c \in Contents} \cup {DerivedEvent(p) : p \in SUBSET Paths}
Candidates == [paths : SUBSET Paths, tries : 0 .. MaxTries]

(***************************************************************************)
(* Transactions on the row.                                                *)
(***************************************************************************)
LinkHook(c) == IF c \in Linked THEN <<LinkEvent(c)>> ELSE <<>>

\* do_send_messages: the message is there, its hooks are still to run
SendHooks(c) ==
    LinkHook(c) \o IF Voices[c] # {} \/ Text[c] # None
                   THEN <<DerivedEvent(Voices[c])>> ELSE <<>>

same_translation_source(old, new) == Text[old] # None /\ Text[old] = Text[new]

\* mutant: the edit carries transcripts only
carriedTranscripts(new) ==
    {b \in rendered : b.kind = "voice_transcript" /\ Voices[content] \cap Voices[new] # {}}

carried(new) ==
    {b \in rendered :
        \/ b.kind = "voice_transcript" /\ Voices[content] \cap Voices[new] # {}
        \/ b.kind = "text_translation" /\ same_translation_source(content, new)}

EditHooks(new) ==
    LinkHook(new) \o IF Text[new] # None /\ ~ same_translation_source(content, new)
                     THEN <<DerivedEvent({})>> ELSE <<>>

Derives(events) == \E i \in 1 .. Len(events) : events[i].queue = "nodl_derived_content"

check_update_message(new) ==
    /\ ~ deleted /\ edits < MaxEdits
    /\ content' = new
    /\ rendered' = carried(new)
    /\ edits' = edits + 1
    /\ hooks' = [hooks EXCEPT ![edits'] = EditHooks(new)]
    /\ lost' = (lost /\ ~ Derives(EditHooks(new)))
    /\ UNCHANGED <<deleted, previews, derivation, crashes>>

delete_message ==
    /\ ~ deleted
    /\ deleted' = TRUE
    /\ UNCHANGED <<content, rendered, edits, hooks, previews, derivation, crashes, lost>>

(***************************************************************************)
(* queue_event_on_commit: the process that committed publishes its events, *)
(* one by one, unless it dies first.                                       *)
(***************************************************************************)
publish(n) ==
    /\ hooks[n] # <<>>
    /\ LET e == Head(hooks[n])
       IN  IF e.queue = "embed_links"
           THEN /\ embed_links' = Append(embed_links, e.of)
                /\ UNCHANGED candidates
           ELSE /\ candidates' = Append(candidates, [paths |-> e.of, tries |-> 0])
                /\ UNCHANGED embed_links
    /\ hooks' = [hooks EXCEPT ![n] = Tail(@)]
    /\ UNCHANGED <<message, edits, fetching, posting, jobs, crashes, lost>>

\* what an event asks for, as its worker would read the message now
wanted(paths) == IF paths # {} THEN Transcript(paths) ELSE Translation(Text[content])

web_process_dies(n) ==
    /\ crashes < MaxCrashes /\ hooks[n] # <<>>
    /\ hooks' = [hooks EXCEPT ![n] = <<>>]
    /\ crashes' = crashes + 1
    /\ lost' = (lost \/ Derives(hooks[n]))
    /\ UNCHANGED <<message, edits, previews, derivation>>

(***************************************************************************)
(* The preview worker (worker/embed_links.py).  Both workers acknowledge   *)
(* an event after they have consumed it: it stays first in its queue until *)
(* then, and is delivered again when the worker dies.                      *)
(***************************************************************************)
fetch_links ==
    /\ fetching = None /\ embed_links # <<>>
    /\ fetching' = Head(embed_links)
    /\ UNCHANGED <<message, edits, hooks, embed_links, derivation, crashes, lost>>

\* the transaction: rendering from the markdown knows nothing of the block
EmbedPreviews ==
    IF deleted \/ content # fetching THEN UNCHANGED <<rendered, lost>>
    ELSE rendered' = {} /\ lost' = (lost \/ rendered # {})

update_embedded_data ==
    /\ fetching # None
    /\ EmbedPreviews
    /\ fetching' = None /\ embed_links' = Tail(embed_links)
    /\ UNCHANGED <<content, deleted, edits, hooks, derivation, crashes>>

fetch_times_out ==
    /\ fetching # None
    /\ fetching' = None /\ embed_links' = Tail(embed_links)
    /\ UNCHANGED <<message, edits, hooks, derivation, crashes, lost>>

preview_worker_dies ==
    /\ crashes < MaxCrashes /\ fetching # None
    /\ EmbedPreviews \/ UNCHANGED <<rendered, lost>>
    /\ fetching' = None
    /\ crashes' = crashes + 1
    /\ UNCHANGED <<content, deleted, edits, hooks, embed_links, derivation>>

(***************************************************************************)
(* The worker of nodl_derived_content.  It reads the message without a     *)
(* lock and then waits for the backend, which may serve a request whose    *)
(* answer never arrives.                                                   *)
(***************************************************************************)
Wanted(paths) == ~ deleted /\ (paths # {} \/ Text[content] # None)

read_candidate ==
    /\ posting = None /\ candidates # <<>>
    /\ Wanted(Head(candidates).paths)
    /\ posting' = wanted(Head(candidates).paths)
    /\ UNCHANGED <<message, edits, hooks, previews, candidates, jobs, crashes, lost>>

skip_candidate ==
    /\ posting = None /\ candidates # <<>>
    /\ ~ Wanted(Head(candidates).paths)
    /\ candidates' = Tail(candidates)
    /\ UNCHANGED <<message, edits, hooks, previews, posting, jobs, crashes, lost>>

post_accepted ==
    /\ posting # None
    /\ jobs' = jobs \cup {posting}
    /\ candidates' = Tail(candidates)
    /\ posting' = None
    /\ UNCHANGED <<message, edits, hooks, previews, crashes, lost>>

\* retry_event publishes a copy of the event
Retry == Append(candidates, [Head(candidates) EXCEPT !.tries = @ + 1])

\* mutant: the event is acknowledged and not published again
post_failsSilently ==
    /\ posting # None
    /\ jobs' \in {jobs, jobs \cup {posting}}
    /\ candidates' = Tail(candidates) /\ UNCHANGED lost
    /\ posting' = None
    /\ UNCHANGED <<message, edits, hooks, previews, crashes>>

\* a timeout, a connection that breaks, or a status of 500 and more
post_fails ==
    /\ posting # None
    /\ jobs' \in {jobs, jobs \cup {posting}}
    /\ IF Head(candidates).tries < MaxTries
       THEN candidates' = Tail(Retry) /\ UNCHANGED lost
       ELSE candidates' = Tail(candidates) /\ lost' = (lost \/ posting = wanted(Voices[content]))
    /\ posting' = None
    /\ UNCHANGED <<message, edits, hooks, previews, crashes>>

post_rejected ==
    /\ posting # None
    /\ candidates' = Tail(candidates)
    /\ lost' = (lost \/ posting = wanted(Voices[content]))
    /\ posting' = None
    /\ UNCHANGED <<message, edits, hooks, previews, jobs, crashes>>

derived_worker_dies ==
    /\ crashes < MaxCrashes /\ posting # None
    /\ jobs' \in {jobs, jobs \cup {posting}}
    /\ posting' = None
    /\ crashes' = crashes + 1
    /\ UNCHANGED <<message, edits, hooks, previews, candidates, lost>>

(***************************************************************************)
(* nodl-backend: it may ask for the current text on its own account (the   *)
(* sweep), and it attaches a result some time later, and again when the    *)
(* answer of the endpoint is lost.                                         *)
(***************************************************************************)
list_translation_candidates ==
    /\ Wanted(Voices[content])
    /\ jobs' = jobs \cup {wanted(Voices[content])}
    /\ UNCHANGED <<message, edits, hooks, previews, candidates, posting, crashes, lost>>

\* mutant: no comparison of source_hash with the text
StaleNever(b) == FALSE

Stale(b) == SendsHash /\ b.kind = "text_translation" /\ b.of # Text[content]

apply_derived_block(b) == {b}

attach_derived_content(b) ==
    /\ b \in jobs
    /\ jobs' \in {jobs, jobs \ {b}}
    /\ IF deleted \/ Stale(b) THEN UNCHANGED <<rendered, lost>>
       ELSE /\ rendered' = apply_derived_block(b)
            /\ lost' = (lost \/ rendered \ {b} # {})
    /\ UNCHANGED <<content, deleted, edits, hooks, previews, candidates, posting, crashes>>

(***************************************************************************)
(* The specification.                                                      *)
(***************************************************************************)
Init ==
    /\ content \in Contents
    /\ rendered = {}
    /\ deleted = FALSE
    /\ edits = 0
    /\ hooks = [n \in 0 .. MaxEdits |-> IF n = 0 THEN SendHooks(content) ELSE <<>>]
    /\ embed_links = <<>> /\ fetching = None
    /\ candidates = <<>> /\ posting = None /\ jobs = {}
    /\ crashes = 0 /\ lost = FALSE

PreviewWorker == fetch_links \/ update_embedded_data \/ fetch_times_out \/ preview_worker_dies
DerivedWorker ==
    \/ read_candidate \/ skip_candidate \/ post_accepted \/ post_fails
    \/ post_rejected \/ derived_worker_dies

Next ==
    \/ \E c \in Contents : check_update_message(c)
    \/ delete_message
    \/ \E n \in 0 .. MaxEdits : publish(n) \/ web_process_dies(n)
    \/ PreviewWorker
    \/ DerivedWorker
    \/ list_translation_candidates
    \/ \E b \in Blocks : attach_derived_content(b)

Spec == Init /\ [][Next]_vars

\* hooks run, the workers consume and the backend completes its jobs
FairSpec ==
    /\ Spec
    /\ \A n \in 0 .. MaxEdits : WF_vars(publish(n))
    /\ WF_vars(PreviewWorker) /\ WF_vars(DerivedWorker)
    /\ \A b \in Blocks : WF_vars(attach_derived_content(b))

(***************************************************************************)
(* Properties.                                                             *)
(***************************************************************************)
\* Types.  The HTML holds at most one block: an attach replaces the old one,
\* and no re-render appends a carried block to a fresh one.
TypeOK ==
    /\ content \in Contents
    /\ rendered \in {{}} \cup {{b} : b \in Blocks}
    /\ deleted \in BOOLEAN
    /\ edits \in 0 .. MaxEdits
    /\ hooks \in [0 .. MaxEdits -> Seq(Events)]
    /\ embed_links \in Seq(Contents)
    /\ fetching = None \/ (fetching \in Contents /\ embed_links # <<>>)
    /\ candidates \in Seq(Candidates)
    /\ posting = None \/ (posting \in Blocks /\ candidates # <<>>)
    /\ jobs \subseteq Blocks
    /\ crashes \in 0 .. MaxCrashes
    /\ lost \in BOOLEAN

\* No reader is shown a translation of another text than the message has,
\* however late the backend answers and whatever was edited meanwhile.
NoStaleTranslation ==
    SendsHash => \A b \in rendered : b.kind = "text_translation" => b.of = Text[content]

HasTranscript(r) == \E b \in r : b.kind = "voice_transcript"

\* A step on a message that keeps the text s.
StaysOrGoes(s) ==
    /\ SendsHash
    /\ Translation(s) \in rendered
    /\ Text[content'] = s
    => \/ Translation(s) \in rendered'
       \/ HasTranscript(rendered')
       \/ fetching = content /\ fetching' = None

\* A translation of the text the message keeps, over edits and late answers,
\* leaves it only for a transcript or for a re-render with previews (see
\* BlockKept).
TranslationKept == [][\A s \in Sources : StaysOrGoes(s)]_vars

\* What derived.py and carry_text_derived_block say of translations: only a
\* real change of the text drops them.
BlockKept ==
    [][\A s \in Sources :
          /\ Translation(s) \in rendered
          /\ Text[content'] = s
          => Translation(s) \in rendered' \/ HasTranscript(rendered')]_vars

\* A transcript belongs to a voice note the message still links to.
TranscriptOfThisMessage ==
    \A b \in rendered : b.kind = "voice_transcript" => b.of \cap Voices[content] # {}

Promised == Text[content] # None \/ (edits = 0 /\ Voices[content] # {})

\* The message has all it will get.
Settled ==
    \/ deleted \/ ~ Promised
    \/ lost
    \/ rendered # {}

\* A text, and a voice note as it was sent, end up with their block, over
\* retries, redeliveries and edits, unless the event was lost or given up
\* or the preview worker dropped the block.
EventuallyDerived == <>[]Settled
=============================================================================
