------------------------- MODULE Derived_proofs -------------------------
(***************************************************************************)
(* Theorems about derived content.  DerivedContent: the types of the row,  *)
(* its hooks and its queues; no translation of another text is ever shown; *)
(* a translation leaves the text it was made from for two reasons only.    *)
(* DerivedCandidates: the walks of the backend, for any page limits and    *)
(* any number of messages: no message is returned twice, and none that was *)
(* there all the time is left out.                                         *)
(***************************************************************************)
EXTENDS DerivedContent, DerivedCandidates, SequenceTheorems, FiniteSetTheorems,
        WellFoundedInduction, TLAPS

LEMMA BlocksAreBlocks ==
    /\ \A p \in SUBSET Paths : p # {} => Transcript(p) \in Blocks
    /\ \A s \in Sources : Translation(s) \in Blocks
BY DEF Blocks

LEMMA HooksAreEvents ==
    ASSUME NEW c \in Contents, NEW d \in Contents, content \in Contents
    PROVE  /\ SendHooks(c) \in Seq(Events)
           /\ EditHooks(c) \in Seq(Events)
<1>1. Voices[c] \in SUBSET Paths
  BY DerivedAssumption
<1>2. /\ LinkEvent(c) \in Events
      /\ DerivedEvent(Voices[c]) \in Events
      /\ DerivedEvent({}) \in Events
  BY <1>1 DEF Events
<1>3. LinkHook(c) \in Seq(Events)
  BY <1>2 DEF LinkHook
<1>4. SendHooks(c) \in Seq(Events)
  <2> DEFINE h == IF Voices[c] # {} \/ Text[c] # None
                  THEN <<DerivedEvent(Voices[c])>> ELSE <<>>
  <2>1. h \in Seq(Events)
    BY <1>2
  <2> QED BY <1>3, <2>1 DEF SendHooks
<1>5. EditHooks(c) \in Seq(Events)
  <2> DEFINE h == IF Text[c] # None /\ ~ same_translation_source(content, c)
                  THEN <<DerivedEvent({})>> ELSE <<>>
  <2>1. h \in Seq(Events)
    BY <1>2
  <2> QED BY <1>3, <2>1 DEF EditHooks
<1> QED BY <1>4, <1>5

\* A worker asks for a block that exists.
LEMMA WantedIsBlock ==
    ASSUME content \in Contents, NEW paths \in SUBSET Paths, Wanted(paths)
    PROVE  wanted(paths) \in Blocks
<1>1. CASE paths # {}
  BY <1>1, BlocksAreBlocks DEF wanted
<1>2. CASE paths = {}
  <2>1. Text[content] \in Sources
    BY <1>2, DerivedAssumption DEF Wanted
  <2> QED BY <1>2, <2>1, BlocksAreBlocks DEF wanted
<1> QED BY <1>1, <1>2

LEMMA InitTypeOK == Init => TypeOK
<1> SUFFICES ASSUME Init PROVE TypeOK
  OBVIOUS
<1> USE DerivedAssumption DEF Init
<1>1. hooks \in [0 .. MaxEdits -> Seq(Events)]
  <2>1. SendHooks(content) \in Seq(Events)
    BY HooksAreEvents
  <2>2. <<>> \in Seq(Events)
    OBVIOUS
  <2> QED BY <2>1, <2>2
<1> QED BY <1>1 DEF TypeOK

LEMMA EditTypeOK ==
    ASSUME TypeOK, NEW new \in Contents, check_update_message(new)
    PROVE  TypeOK'
<1> USE DEF TypeOK, check_update_message, previews, derivation
<1>1. edits' \in 0 .. MaxEdits
  BY DerivedAssumption
<1>2. EditHooks(new) \in Seq(Events)
  BY HooksAreEvents
<1>3. hooks' \in [0 .. MaxEdits -> Seq(Events)]
  BY <1>1, <1>2
<1>4. rendered' \in {{}} \cup {{b} : b \in Blocks}
  <2>1. rendered' \subseteq rendered
    BY DEF carried
  <2> QED BY <2>1
<1>5. lost' \in BOOLEAN
  OBVIOUS
<1> QED BY <1>1, <1>3, <1>4, <1>5

LEMMA PublishTypeOK ==
    ASSUME TypeOK, NEW n \in 0 .. MaxEdits, publish(n)
    PROVE  TypeOK'
<1> USE DEF TypeOK, publish, message
<1>1. hooks[n] \in Seq(Events) /\ hooks[n] # <<>>
  OBVIOUS
<1>2. Head(hooks[n]) \in Events /\ Tail(hooks[n]) \in Seq(Events)
  BY <1>1, HeadTailProperties
<1>3. hooks' \in [0 .. MaxEdits -> Seq(Events)]
  BY <1>2
<1>4. CASE Head(hooks[n]).queue = "embed_links"
  <2>1. Head(hooks[n]).of \in Contents
    BY <1>2, <1>4 DEF Events, LinkEvent, DerivedEvent
  <2>2. embed_links' = Append(embed_links, Head(hooks[n]).of) /\ candidates' = candidates
    BY <1>4
  <2>3. embed_links' \in Seq(Contents) /\ embed_links' # <<>>
    BY <2>1, <2>2, AppendProperties
  <2> QED BY <1>3, <2>2, <2>3
<1>5. CASE Head(hooks[n]).queue # "embed_links"
  <2>1. Head(hooks[n]).of \in SUBSET Paths
    BY <1>2, <1>5 DEF Events, LinkEvent, DerivedEvent
  <2> DEFINE e == [paths |-> Head(hooks[n]).of, tries |-> 0]
  <2>2. candidates' = Append(candidates, e) /\ embed_links' = embed_links
    BY <1>5
  <2>3. e \in Candidates
    BY <2>1, DerivedAssumption DEF Candidates
  <2>4. candidates' \in Seq(Candidates) /\ candidates' # <<>>
    BY <2>2, <2>3, AppendProperties
  <2> QED BY <1>3, <2>2, <2>4
<1> QED BY <1>4, <1>5

LEMMA WebProcessDiesTypeOK ==
    ASSUME TypeOK, NEW n \in 0 .. MaxEdits, web_process_dies(n)
    PROVE  TypeOK'
<1> USE DEF TypeOK, web_process_dies, message, previews, derivation
<1>1. <<>> \in Seq(Events)
  OBVIOUS
<1>2. hooks' \in [0 .. MaxEdits -> Seq(Events)]
  BY <1>1
<1>3. crashes' \in 0 .. MaxCrashes
  BY DerivedAssumption
<1> QED BY <1>2, <1>3

LEMMA PreviewsTypeOK == ASSUME TypeOK, PreviewWorker PROVE TypeOK'
<1> USE DEF TypeOK
<1>1. CASE fetch_links
  <2>1. Head(embed_links) \in Contents
    BY <1>1, HeadTailProperties DEF fetch_links
  <2> QED BY <1>1, <2>1 DEF fetch_links, message, derivation
<1>2. ASSUME fetching # None PROVE Tail(embed_links) \in Seq(Contents)
  BY <1>2, HeadTailProperties, DerivedAssumption
<1>3. ASSUME EmbedPreviews \/ UNCHANGED <<rendered, lost>>
      PROVE  rendered' \in {{}} \cup {{b} : b \in Blocks} /\ lost' \in BOOLEAN
  <2>1. CASE UNCHANGED <<rendered, lost>>
    BY <2>1
  <2>2. CASE rendered' = {} /\ lost' = (lost \/ rendered # {})
    BY <2>2
  <2> QED BY <1>3, <2>1, <2>2 DEF EmbedPreviews
<1>4. CASE update_embedded_data
  BY <1>2, <1>3, <1>4 DEF update_embedded_data, derivation
<1>5. CASE fetch_times_out
  BY <1>2, <1>5 DEF fetch_times_out, message, derivation
<1>6. CASE preview_worker_dies
  <2>1. crashes' \in 0 .. MaxCrashes
    BY <1>6, DerivedAssumption DEF preview_worker_dies
  <2>2. EmbedPreviews \/ UNCHANGED <<rendered, lost>>
    BY <1>6 DEF preview_worker_dies
  <2> QED BY <1>3, <1>6, <2>1, <2>2 DEF preview_worker_dies, derivation
<1> QED BY <1>1, <1>4, <1>5, <1>6 DEF PreviewWorker

LEMMA DerivedTypeOK == ASSUME TypeOK, DerivedWorker PROVE TypeOK'
<1> USE DEF TypeOK, message, previews
<1>1. ASSUME candidates # <<>>
      PROVE  /\ Head(candidates) \in Candidates
             /\ Head(candidates).paths \in SUBSET Paths
             /\ Tail(candidates) \in Seq(Candidates)
  <2>1. Head(candidates) \in Candidates /\ Tail(candidates) \in Seq(Candidates)
    BY <1>1, HeadTailProperties
  <2> QED BY <2>1 DEF Candidates
<1>2. ASSUME posting # None
      PROVE  /\ posting \in Blocks
             /\ candidates # <<>>
             /\ jobs \cup {posting} \subseteq Blocks
  BY <1>2
<1>3. CASE read_candidate
  <2>1. candidates # <<>> /\ Wanted(Head(candidates).paths)
    BY <1>3 DEF read_candidate
  <2>2. wanted(Head(candidates).paths) \in Blocks
    BY <1>1, <2>1, WantedIsBlock
  <2> QED BY <1>3, <2>1, <2>2 DEF read_candidate
<1>4. CASE skip_candidate
  BY <1>1, <1>4 DEF skip_candidate
<1>5. CASE post_accepted
  BY <1>1, <1>2, <1>5 DEF post_accepted
<1>6. CASE post_fails
  <2>1. posting # None
    BY <1>6 DEF post_fails
  <2>2. jobs' \subseteq Blocks
    BY <1>2, <1>6, <2>1 DEF post_fails
  <2>3. lost' \in BOOLEAN
    BY <1>6 DEF post_fails
  <2>4. candidates' \in Seq(Candidates)
    <3>1. CASE Head(candidates).tries < MaxTries
      <4> DEFINE e == [Head(candidates) EXCEPT !.tries = @ + 1]
      <4>1. e \in Candidates
        <5>1. /\ Head(candidates) \in [paths : SUBSET Paths, tries : 0 .. MaxTries]
              /\ MaxTries \in Nat
          BY <1>1, <1>2, <2>1, DerivedAssumption DEF Candidates
        <5>2. Head(candidates).tries + 1 \in 0 .. MaxTries
          BY <3>1, <5>1
        <5> QED BY <5>1, <5>2 DEF Candidates
      <4>2. Retry \in Seq(Candidates) /\ Retry # <<>>
        BY <4>1, AppendProperties DEF Retry
      <4>3. candidates' = Tail(Retry)
        BY <1>6, <3>1 DEF post_fails
      <4> QED BY <4>2, <4>3, HeadTailProperties
    <3>2. CASE ~ (Head(candidates).tries < MaxTries)
      <4>1. candidates' = Tail(candidates)
        BY <1>6, <3>2 DEF post_fails
      <4> QED BY <1>1, <1>2, <2>1, <4>1
    <3> QED BY <3>1, <3>2
  <2> QED BY <1>6, <2>2, <2>3, <2>4 DEF post_fails
<1>7. CASE post_rejected
  BY <1>1, <1>2, <1>7 DEF post_rejected
<1>8. CASE derived_worker_dies
  <2>1. crashes' \in 0 .. MaxCrashes
    BY <1>8, DerivedAssumption DEF derived_worker_dies
  <2>2. jobs' \subseteq Blocks
    BY <1>2, <1>8 DEF derived_worker_dies
  <2> QED BY <1>8, <2>1, <2>2 DEF derived_worker_dies
<1> QED BY <1>3, <1>4, <1>5, <1>6, <1>7, <1>8 DEF DerivedWorker

LEMMA BackendTypeOK ==
    ASSUME TypeOK,
           list_translation_candidates \/ \E b \in Blocks : attach_derived_content(b)
    PROVE  TypeOK'
<1> USE DEF TypeOK, previews
<1>1. CASE list_translation_candidates
  <2>1. Wanted(Voices[content]) /\ Voices[content] \in SUBSET Paths
    BY <1>1, DerivedAssumption DEF list_translation_candidates
  <2>2. wanted(Voices[content]) \in Blocks
    BY <2>1, WantedIsBlock
  <2> QED BY <1>1, <2>2 DEF list_translation_candidates, message
<1>2. ASSUME NEW b \in Blocks, attach_derived_content(b) PROVE TypeOK'
  <2>1. jobs' \subseteq Blocks
    BY <1>2 DEF attach_derived_content
  <2>2. rendered' \in {{}} \cup {{c} : c \in Blocks} /\ lost' \in BOOLEAN
    BY <1>2 DEF attach_derived_content, apply_derived_block
  <2> QED BY <1>2, <2>1, <2>2 DEF attach_derived_content
<1> QED BY <1>1, <1>2

\* The row holds at most one derived block, and the queues, hooks and jobs
\* hold what their readers expect.
THEOREM TypeCorrect == Spec => []TypeOK
<1>1. TypeOK /\ [Next]_vars => TypeOK'
  <2> SUFFICES ASSUME TypeOK, [Next]_vars PROVE TypeOK'
    OBVIOUS
  <2>1. ASSUME NEW c \in Contents, check_update_message(c) PROVE TypeOK'
    BY <2>1, EditTypeOK
  <2>2. CASE delete_message
    BY <2>2 DEF delete_message, TypeOK, previews, derivation
  <2>3. ASSUME NEW n \in 0 .. MaxEdits, publish(n) PROVE TypeOK'
    BY <2>3, PublishTypeOK
  <2>4. ASSUME NEW n \in 0 .. MaxEdits, web_process_dies(n) PROVE TypeOK'
    BY <2>4, WebProcessDiesTypeOK
  <2>5. CASE UNCHANGED vars
    BY <2>5 DEF vars, message, previews, derivation, TypeOK
  <2> QED
    BY <2>1, <2>2, <2>3, <2>4, <2>5, PreviewsTypeOK, DerivedTypeOK, BackendTypeOK DEF Next
<1> QED BY <1>1, InitTypeOK, PTL DEF Spec

(***************************************************************************)
(* The row is written by four actions; all others leave it alone.          *)
(***************************************************************************)
LEMMA Writers ==
    ASSUME [Next]_vars
    PROVE  \/ \E c \in Contents : check_update_message(c)
           \/ EmbedPreviews /\ fetching' = None /\ UNCHANGED content
           \/ \E b \in Blocks : attach_derived_content(b)
           \/ UNCHANGED <<content, rendered>>
<1>1. ASSUME NEW n \in 0 .. MaxEdits, publish(n) \/ web_process_dies(n)
      PROVE  UNCHANGED <<content, rendered>>
  BY <1>1 DEF publish, web_process_dies, message
<1>2. CASE delete_message \/ list_translation_candidates \/ UNCHANGED vars
  BY <1>2 DEF delete_message, list_translation_candidates, vars, message
<1>3. CASE PreviewWorker
  BY <1>3 DEF PreviewWorker, fetch_links, update_embedded_data, fetch_times_out,
              preview_worker_dies, message
<1>4. CASE DerivedWorker
  BY <1>4 DEF DerivedWorker, read_candidate, skip_candidate, post_accepted, post_fails,
              post_rejected, derived_worker_dies, message
<1> QED BY <1>1, <1>2, <1>3, <1>4 DEF Next

LEMMA StepNoStale == NoStaleTranslation /\ [Next]_vars => NoStaleTranslation'
<1> SUFFICES ASSUME NoStaleTranslation, [Next]_vars, SendsHash,
                    NEW b \in rendered', b.kind = "text_translation"
             PROVE  b.of = Text[content']
  BY DEF NoStaleTranslation
<1> USE DEF NoStaleTranslation
<1>1. ASSUME NEW c \in Contents, check_update_message(c) PROVE b.of = Text[content']
  <2>1. b \in rendered /\ same_translation_source(content, c) /\ content' = c
    BY <1>1 DEF check_update_message, carried
  <2> QED BY <2>1 DEF same_translation_source
<1>2. CASE EmbedPreviews /\ UNCHANGED content
  BY <1>2 DEF EmbedPreviews
<1>3. ASSUME NEW c \in Blocks, attach_derived_content(c) PROVE b.of = Text[content']
  <2>1. CASE b \in rendered
    BY <1>3, <2>1 DEF attach_derived_content
  <2>2. CASE b \notin rendered
    <3>1. b = c /\ ~ Stale(c) /\ content' = content
      BY <1>3, <2>2 DEF attach_derived_content, apply_derived_block
    <3> QED BY <3>1 DEF Stale
  <2> QED BY <2>1, <2>2
<1>4. CASE UNCHANGED <<content, rendered>>
  BY <1>4
<1> QED BY <1>1, <1>2, <1>3, <1>4, Writers

\* No reader is shown a translation of another text than the message has.
THEOREM NoneStale == Spec => []NoStaleTranslation
<1>1. Init => NoStaleTranslation
  BY DEF Init, NoStaleTranslation
<1> QED BY <1>1, StepNoStale, PTL DEF Spec

\* A translation leaves the text it was made from only for a transcript, or
\* when the preview worker renders the message again.
THEOREM OnlyDropped == Spec => TranslationKept
<1>1. NoStaleTranslation /\ [Next]_vars => [\A s \in Sources : StaysOrGoes(s)]_vars
  <2> SUFFICES ASSUME NoStaleTranslation, [Next]_vars, SendsHash, NEW s \in Sources,
                      Translation(s) \in rendered, Text[content'] = s
               PROVE  \/ Translation(s) \in rendered'
                      \/ HasTranscript(rendered')
                      \/ fetching = content /\ fetching' = None
    BY DEF StaysOrGoes
  <2>1. Text[content] = s
    BY DEF NoStaleTranslation, Translation
  <2>2. s # None
    BY DerivedAssumption
  <2>3. ASSUME NEW c \in Contents, check_update_message(c)
        PROVE  Translation(s) \in rendered'
    <3>1. content' = c /\ rendered' = carried(c)
      BY <2>3 DEF check_update_message
    <3>2. same_translation_source(content, c)
      BY <2>1, <2>2, <3>1 DEF same_translation_source
    <3> QED BY <3>1, <3>2 DEF carried, Translation
  <2>4. CASE EmbedPreviews /\ fetching' = None /\ UNCHANGED content
    BY <2>4 DEF EmbedPreviews
  <2>5. ASSUME NEW b \in Blocks, attach_derived_content(b)
        PROVE  Translation(s) \in rendered' \/ HasTranscript(rendered')
    <3>1. CASE deleted \/ Stale(b)
      BY <2>5, <3>1 DEF attach_derived_content
    <3>2. CASE ~ (deleted \/ Stale(b))
      <4>1. rendered' = {b}
        BY <2>5, <3>2 DEF attach_derived_content, apply_derived_block
      <4>2. CASE \E p \in SUBSET Paths : b = Transcript(p)
        BY <4>1, <4>2 DEF HasTranscript, Transcript
      <4>3. CASE \E t \in Sources : b = Translation(t)
        <5>1. PICK t \in Sources : b = Translation(t)
          BY <4>3
        <5>2. t = s
          BY <2>1, <3>2, <5>1 DEF Stale, Translation
        <5> QED BY <4>1, <5>1, <5>2
      <4> QED BY <4>2, <4>3 DEF Blocks
    <3> QED BY <3>1, <3>2
  <2>6. CASE UNCHANGED <<content, rendered>>
    BY <2>6
  <2> QED BY <2>3, <2>4, <2>5, <2>6, Writers
<1> QED BY <1>1, NoneStale, PTL DEF Spec, TranslationKept

(***************************************************************************)
(* DerivedCandidates.  Facts about sets of ids.                            *)
(***************************************************************************)
LEMMA LeastId ==
    ASSUME NEW S \in SUBSET Nat, S # {}
    PROVE  \E m \in S : \A k \in S : m <= k
<1>1. PICK m \in S : \A k \in S : <<k, m>> \notin OpToRel(<, Nat)
  BY NatLessThanWellFounded, WFMin
<1>2. \A k \in S : ~ (k < m)
  BY <1>1 DEF OpToRel
<1> QED BY <1>2

LEMMA GreatestId ==
    ASSUME NEW n \in Nat, NEW S \in SUBSET (1 .. n), S # {}
    PROVE  \E m \in S : \A k \in S : k <= m
<1> DEFINE T == {n - i : i \in S}
<1>1. T \in SUBSET Nat /\ T # {}
  <2>1. \A i \in S : n - i \in Nat
    OBVIOUS
  <2>2. T \subseteq Nat
    BY <2>1
  <2>3. PICK i \in S : TRUE
    OBVIOUS
  <2>4. n - i \in T
    OBVIOUS
  <2> QED BY <2>2, <2>4
<1>2. PICK t \in T : \A k \in T : t <= k
  BY <1>1, LeastId
<1>3. PICK m \in S : t = n - m
  BY <1>2
<1>4. ASSUME NEW k \in S PROVE k <= m
  <2>1. n - k \in T
    OBVIOUS
  <2>2. n - m <= n - k
    BY <1>2, <1>3, <2>1
  <2> QED BY <2>2
<1> QED BY <1>4

\* The newest w of a set are all of it, if they are not w.
LEMMA WindowCovers ==
    ASSUME NEW n \in Nat, NEW S \in SUBSET (1 .. n), NEW w \in Nat,
           NEW T, T = {i \in S : Cardinality({j \in S : j > i}) < w},
           Cardinality(T) # w
    PROVE  T = S
<1>1. \A R \in SUBSET S : IsFiniteSet(R) /\ Cardinality(R) \in Nat
  <2>1. IsFiniteSet(1 .. n)
    BY FS_Interval
  <2> QED BY <2>1, FS_Subset, FS_CardinalityType
<1>2. \A Q, R \in SUBSET S : Q \subseteq R => Cardinality(Q) <= Cardinality(R)
  BY <1>1, FS_Subset
<1> SUFFICES ASSUME S \ T # {} PROVE FALSE
  OBVIOUS
<1>3. PICK m \in S \ T : \A k \in S \ T : k <= m
  BY GreatestId
<1> DEFINE above(i) == {j \in S : j > i}
<1>0. T \subseteq S /\ S \subseteq Nat
  OBVIOUS
<1>4. above(m) \subseteq T
  <2> SUFFICES ASSUME NEW j \in S, j > m, j \notin T PROVE FALSE
    OBVIOUS
  <2>1. j <= m
    BY <1>3
  <2> QED BY <1>0, <2>1
<1>5. Cardinality(above(m)) >= w
  <2>1. ~ (Cardinality(above(m)) < w)
    BY <1>3
  <2>2. Cardinality(above(m)) \in Nat
    BY <1>1
  <2> QED BY <2>1, <2>2
<1>6. w < Cardinality(T) \/ w = Cardinality(T)
  <2>1. Cardinality(above(m)) <= Cardinality(T) /\ Cardinality(T) \in Nat
           /\ Cardinality(above(m)) \in Nat
    BY <1>1, <1>2, <1>4
  <2> QED BY <1>5, <2>1
<1>7. T # {}
  <2>1. CASE T = {}
    <3>1. Cardinality(T) = 0
      BY <2>1, FS_EmptySet
    <3> QED BY <1>6, <3>1
  <2> QED BY <2>1
<1>8. PICK t \in T : \A k \in T : t <= k
  <2>1. T \in SUBSET Nat
    BY <1>0
  <2> QED BY <1>7, <2>1, LeastId
<1>9. T \ {t} \subseteq above(t)
  <2> SUFFICES ASSUME NEW k \in T, k # t PROVE k \in S /\ k > t
    OBVIOUS
  <2>1. t <= k
    BY <1>8
  <2> QED BY <1>0, <2>1
<1>10. Cardinality(T \ {t}) = Cardinality(T) - 1
  BY <1>1, FS_RemoveElement
<1>11. Cardinality(above(t)) < w
  OBVIOUS
<1>12. Cardinality(T \ {t}) <= Cardinality(above(t))
  BY <1>2, <1>9
<1>13. Cardinality(T) \in Nat /\ Cardinality(above(t)) \in Nat
  BY <1>1
<1> QED BY <1>6, <1>10, <1>11, <1>12, <1>13

(***************************************************************************)
(* Types.                                                                  *)
(***************************************************************************)
LEMMA ChangeTypeOK ==
    ASSUME WalkTypeOK, NEW i \in Ids, NEW kind \in Kinds \cup {Gone}, Change(i, kind),
           newest' \in 0 .. MaxId
    PROVE  WalkTypeOK'
<1>1. changes' \in 0 .. MaxChanges
  BY CandidatesAssumption DEF Change, WalkTypeOK
<1>2. rows' \in [Ids -> Kinds \cup {Gone}]
  BY DEF Change, WalkTypeOK
<1>3. owed' \subseteq Ids
  BY DEF Change, WalkTypeOK
<1> QED BY <1>1, <1>2, <1>3 DEF Change, WalkTypeOK

LEMMA StepWalkTypeOK == WalkTypeOK /\ [WalkNext]_walk_vars => WalkTypeOK'
<1> SUFFICES ASSUME WalkTypeOK, [WalkNext]_walk_vars PROVE WalkTypeOK'
  OBVIOUS
<1> USE CandidatesAssumption
<1>1. CASE Start
  <2>1. 1 .. newest \subseteq Ids
    BY DEF WalkTypeOK, Ids
  <2> QED BY <1>1, <2>1 DEF Start, WalkTypeOK, messages
<1>2. ASSUME NEW S, Return(S) PROVE got' \in [Ids -> Nat]
  BY <1>2 DEF Return, WalkTypeOK
<1>3. CASE BackfillPage
  <2>1. got' \in [Ids -> Nat]
    BY <1>2, <1>3 DEF BackfillPage
  <2>2. Handled \subseteq Ids
    BY DEF Handled, Scanned, OlderRows
  <2>3. before' \in 1 .. MaxId + 1
    <3>1. before' = before \/ before' \in Handled
      BY <1>3 DEF BackfillPage
    <3>2. Ids \subseteq 1 .. MaxId + 1
      BY DEF Ids
    <3> QED BY <2>2, <3>1, <3>2 DEF WalkTypeOK
  <2> QED BY <1>3, <2>1, <2>3 DEF BackfillPage, WalkTypeOK, messages
<1>4. CASE SweepPage
  <2>1. got' \in [Ids -> Nat]
    BY <1>2, <1>4 DEF SweepPage
  <2> QED BY <1>4, <2>1 DEF SweepPage, WalkTypeOK, messages
<1>5. ASSUME NEW kind \in Kinds, Send(kind) PROVE WalkTypeOK'
  <2>1. newest + 1 \in Ids /\ newest' \in 0 .. MaxId
    BY <1>5 DEF Send, WalkTypeOK, Ids
  <2> QED BY <1>5, <2>1, ChangeTypeOK DEF Send
<1>6. ASSUME NEW kind \in Kinds, NEW i \in Ids, Edit(i, kind) PROVE WalkTypeOK'
  <2>1. newest' \in 0 .. MaxId
    BY <1>6 DEF Edit, WalkTypeOK
  <2> QED BY <1>6, <2>1, ChangeTypeOK DEF Edit
<1>7. ASSUME NEW i \in Ids, Delete(i) PROVE WalkTypeOK'
  <2>1. newest' \in 0 .. MaxId
    BY <1>7 DEF Delete, WalkTypeOK
  <2> QED BY <1>7, <2>1, ChangeTypeOK DEF Delete
<1>8. CASE UNCHANGED walk_vars
  BY <1>8 DEF walk_vars, messages, WalkTypeOK
<1> QED BY <1>1, <1>3, <1>4, <1>5, <1>6, <1>7, <1>8 DEF WalkNext

\* The walk's cursor stays within the ids it pages through.
THEOREM WalkTypeCorrect == WalkSpec => []WalkTypeOK
<1>1. WalkInit => WalkTypeOK
  BY CandidatesAssumption DEF WalkInit, WalkTypeOK, Ids
<1> QED BY <1>1, StepWalkTypeOK, PTL DEF WalkSpec

(***************************************************************************)
(* What has been returned lies on the far side of the cursor.              *)
(***************************************************************************)
Once ==
    /\ walk = "idle" => before = MaxId + 1 /\ \A i \in Ids : got[i] = 0
    /\ walk = "backfill" => \A i \in Ids : i < before => got[i] = 0
    /\ walk = "sweep" => \A i \in asked : got[i] = 0
    /\ AtMostOnce

LEMMA MessagesChangeOnly ==
    ASSUME [WalkNext]_walk_vars, ~ Start, ~ BackfillPage, ~ SweepPage
    PROVE  UNCHANGED <<walk, before, asked, got>>
<1>1. ASSUME NEW i \in Ids, Delete(i) PROVE UNCHANGED <<walk, before, asked, got>>
  BY <1>1 DEF Delete, Change
<1>2. ASSUME NEW kind \in Kinds, Send(kind) \/ \E i \in Ids : Edit(i, kind)
      PROVE  UNCHANGED <<walk, before, asked, got>>
  BY <1>2 DEF Send, Edit, Change
<1>3. CASE UNCHANGED walk_vars
  BY <1>3 DEF walk_vars
<1> QED BY <1>1, <1>2, <1>3 DEF WalkNext

LEMMA StepOnce == WalkTypeOK /\ Once /\ [WalkNext]_walk_vars => Once'
<1> SUFFICES ASSUME WalkTypeOK, Once, [WalkNext]_walk_vars PROVE Once'
  OBVIOUS
<1>1. CASE Start
  <2>1. \A i \in Ids : got[i] = 0 /\ got' = got /\ before' = before
    BY <1>1 DEF Start, Once
  <2>2. asked' \subseteq Ids \/ walk' # "sweep"
    <3>1. 1 .. newest \subseteq Ids
      BY CandidatesAssumption DEF WalkTypeOK, Ids
    <3>2. ASSUME NEW S \in (SUBSET (1 .. newest)) \ {{}}, asked' = S PROVE asked' \subseteq Ids
      BY <3>1, <3>2
    <3>3. walk' = "backfill" \/ \E S \in (SUBSET (1 .. newest)) \ {{}} : asked' = S
      BY <1>1 DEF Start
    <3> QED BY <3>2, <3>3
  <2> QED BY <1>1, <2>1, <2>2 DEF Start, Once, AtMostOnce
<1>2. CASE BackfillPage
  <2>1. \A i \in Handled : i \in Ids /\ i < before /\ got[i] = 0
    BY <1>2 DEF BackfillPage, Handled, Scanned, OlderRows, Once
  <2>2. \A i \in Ids : got'[i] = IF i \in Items \cap Handled THEN got[i] + 1 ELSE got[i]
    BY <1>2 DEF BackfillPage, Return
  <2>3. AtMostOnce'
    BY <2>1, <2>2 DEF AtMostOnce, Once
  <2>4. ASSUME walk' = "backfill", NEW i \in Ids, i < before' PROVE got'[i] = 0
    <3>1. before' \in Handled /\ \A h \in Handled : before' <= h
      BY <1>2, <2>4 DEF BackfillPage
    <3>2. i \notin Handled /\ i < before
      BY <2>1, <2>4, <3>1 DEF WalkTypeOK, Ids
    <3>3. got[i] = 0
      BY <1>2, <3>2 DEF BackfillPage, Once
    <3> QED BY <2>2, <3>2, <3>3
  <2>5. walk' # "sweep" /\ walk' # "idle"
    BY <1>2 DEF BackfillPage
  <2> QED BY <2>3, <2>4, <2>5 DEF Once
<1>3. CASE SweepPage
  <2>1. \A i \in Picked : i \in Ids /\ got[i] = 0
    BY <1>3 DEF SweepPage, Picked, Found, Once, WalkTypeOK
  <2>2. \A i \in Ids : got'[i] = IF i \in Picked THEN got[i] + 1 ELSE got[i]
    BY <1>3 DEF SweepPage, Return
  <2>3. AtMostOnce'
    BY <2>1, <2>2 DEF AtMostOnce, Once
  <2>4. ASSUME walk' = "sweep", NEW i \in asked' PROVE got'[i] = 0
    <3>1. i \in asked /\ \A j \in Picked : j < i
      BY <1>3, <2>4 DEF SweepPage
    <3>2. i \in Ids /\ i \notin Picked /\ got[i] = 0
      BY <1>3, <3>1 DEF SweepPage, Once, WalkTypeOK, Ids
    <3> QED BY <2>2, <3>2
  <2>5. walk' # "backfill" /\ walk' # "idle"
    BY <1>3 DEF SweepPage
  <2> QED BY <2>3, <2>4, <2>5 DEF Once
<1>4. CASE ~ Start /\ ~ BackfillPage /\ ~ SweepPage
  BY <1>4, MessagesChangeOnly DEF Once, AtMostOnce
<1> QED BY <1>1, <1>2, <1>3, <1>4

\* One walk returns no message twice.
THEOREM ReturnedOnce == WalkSpec => []AtMostOnce
<1>1. WalkInit => Once
  BY DEF WalkInit, Once, AtMostOnce
<1>2. Once => AtMostOnce
  BY DEF Once
<1> QED BY <1>1, <1>2, StepOnce, WalkTypeCorrect, PTL DEF WalkSpec

(***************************************************************************)
(* What is owed and lies on the far side of the cursor has been returned.  *)
(***************************************************************************)
Covered ==
    /\ \A i \in Ids : i > newest => rows[i] = Gone
    /\ walk = "backfill" => \A i \in owed : Translatable(i) /\ (i < before \/ got[i] > 0)
    /\ walk = "sweep" => \A i \in owed : rows[i] # Gone /\ (i \in asked \/ got[i] > 0)
    /\ AllReturned

\* The loop handles every row down to the last one it handles.
LEMMA HandledDownTo ==
    ASSUME WalkTypeOK, NEW c \in Handled, NEW i \in OlderRows, i >= c
    PROVE  i \in Handled
<1>1. OlderRows \subseteq Ids /\ Ids \subseteq Nat /\ Ids \in SUBSET Nat
  BY DEF OlderRows, Ids
<1>2. c \in OlderRows /\ c \in Scanned
  BY DEF Handled, Scanned
<1>3. IsFiniteSet(Ids)
  BY CandidatesAssumption, FS_Interval DEF Ids
<1>4. \A Q, R \in SUBSET Ids : Q \subseteq R =>
          /\ Cardinality(Q) \in Nat /\ Cardinality(R) \in Nat
          /\ Cardinality(Q) <= Cardinality(R)
  BY <1>3, FS_Subset, FS_CardinalityType
<1>5. \A j \in Ids : j > i => j > c
  BY <1>1, <1>2
<1>6. i \in Scanned
  <2> DEFINE Q == {j \in OlderRows : j > i}
             R == {j \in OlderRows : j > c}
  <2>1. Q \subseteq R /\ Q \in SUBSET Ids /\ R \in SUBSET Ids
    BY <1>1, <1>5
  <2>2. Cardinality(R) < Window
    BY <1>2 DEF Scanned
  <2>3. Cardinality(Q) < Window
    BY <1>4, <2>1, <2>2, CandidatesAssumption DEF Window
  <2> QED BY <2>3 DEF Scanned
<1>7. Reached(i)
  <2> DEFINE Q == {j \in Items : j > i}
             R == {j \in Items : j > c}
  <2>1. Q \subseteq R /\ Q \in SUBSET Ids /\ R \in SUBSET Ids
    BY <1>1, <1>5 DEF Items, Scanned
  <2>2. Cardinality(R) < Limit
    BY DEF Handled, Reached
  <2>3. Cardinality(Q) < Limit
    BY <1>4, <2>1, <2>2, CandidatesAssumption
  <2> QED BY <2>3 DEF Reached
<1>8. ASSUME NEW j \in Items, j >= i PROVE Fits(j)
  <2>1. j >= c
    BY <1>1, <1>2, <1>8 DEF Items, Scanned
  <2> QED BY <2>1 DEF Handled
<1> QED BY <1>6, <1>7, <1>8 DEF Handled

\* The last page has handled everything there is.
LEMMA LastPage == ASSUME WalkTypeOK, ~ More PROVE Handled = OlderRows
<1>1. Handled = Scanned /\ Cardinality(Scanned) # Window
  BY DEF More
<1>2. OlderRows \in SUBSET (1 .. MaxId) /\ MaxId \in Nat
  BY CandidatesAssumption DEF OlderRows, Ids
<1>3. Window \in Nat
  BY CandidatesAssumption DEF Window
<1>4. Scanned = {i \in OlderRows : Cardinality({j \in OlderRows : j > i}) < Window}
  BY DEF Scanned
<1>5. Scanned = OlderRows
  BY <1>1, <1>2, <1>3, <1>4, WindowCovers
<1> QED BY <1>1, <1>5

LEMMA ChangeCovered ==
    ASSUME WalkTypeOK, Covered, NEW i \in Ids, NEW kind \in Kinds \cup {Gone}, Change(i, kind),
           newest' \in 0 .. MaxId, newest <= newest',
           i <= newest' \/ kind = Gone,
           walk = "backfill" /\ kind = "hidden" => i \notin owed
    PROVE  Covered'
<1>1. \A j \in Ids : rows'[j] = IF j = i THEN kind ELSE rows[j]
  BY DEF Change, WalkTypeOK
<1>2. owed' \subseteq owed /\ owed \subseteq Ids /\ UNCHANGED <<walk, before, asked, got>>
  BY DEF Change, WalkTypeOK
<1>3. walk # "done"
  BY DEF Change
<1>4. \A j \in Ids : j > newest' => rows'[j] = Gone
  BY <1>1 DEF Covered, WalkTypeOK, Ids
<1>5. ASSUME walk = "backfill", NEW j \in owed' PROVE Translatable(j)'
  <2>1. j = i => kind \notin {Gone, "dropped", "hidden"}
    BY <1>5, <1>2 DEF Change
  <2>2. CASE j = i
    BY <1>1, <1>2, <2>1, <2>2, CandidatesAssumption DEF Translatable
  <2>3. CASE j # i
    BY <1>1, <1>2, <1>5, <2>3 DEF Covered, Translatable
  <2> QED BY <2>2, <2>3
<1>6. ASSUME walk = "sweep", NEW j \in owed' PROVE rows'[j] # Gone
  <2>1. j = i => kind # Gone
    BY <1>6 DEF Change
  <2> QED BY <1>1, <1>2, <1>6, <2>1 DEF Covered
<1> QED BY <1>2, <1>3, <1>4, <1>5, <1>6 DEF Covered, AllReturned

LEMMA StepCovered == WalkTypeOK /\ Once /\ Covered /\ [WalkNext]_walk_vars => Covered'
<1> SUFFICES ASSUME WalkTypeOK, Once, Covered, [WalkNext]_walk_vars PROVE Covered'
  OBVIOUS
<1>1. CASE Start
  <2>1. UNCHANGED <<rows, newest, before, got>>
    BY <1>1 DEF Start, messages
  <2>2. ASSUME walk' = "backfill", NEW i \in owed' PROVE Translatable(i)' /\ i < before'
    <3>1. owed' = {j \in Ids : Translatable(j)}
      BY <1>1, <2>2 DEF Start
    <3>2. before = MaxId + 1 /\ \A j \in Ids : j < MaxId + 1
      BY <1>1, CandidatesAssumption DEF Start, Once, Ids
    <3> QED BY <2>1, <3>1, <3>2 DEF Translatable
  <2>3. ASSUME walk' = "sweep", NEW i \in owed' PROVE rows'[i] # Gone /\ i \in asked'
    BY <1>1, <2>1, <2>3 DEF Start
  <2> QED BY <1>1, <2>1, <2>2, <2>3 DEF Start, Covered, AllReturned
<1>2. CASE BackfillPage
  <2>1. UNCHANGED <<rows, newest, owed>> /\ walk = "backfill"
    BY <1>2 DEF BackfillPage, messages
  <2>2. \A i \in Ids : got'[i] = IF i \in Items \cap Handled THEN got[i] + 1 ELSE got[i]
    BY <1>2 DEF BackfillPage, Return
  <2>3. \A i \in Ids : got[i] \in Nat
    BY DEF WalkTypeOK
  <2>4. ASSUME NEW i \in owed, i \in Handled \/ ~ (i < before) PROVE got'[i] > 0
    <3>1. i \in Ids /\ Translatable(i)
      BY <2>1 DEF WalkTypeOK, Covered
    <3>2. CASE i \in Handled
      <4>1. i \in Items
        BY <3>1, <3>2 DEF Items, Handled
      <4> QED BY <2>2, <2>3, <3>1, <3>2, <4>1
    <3>3. CASE ~ (i < before)
      <4>1. got[i] > 0
        BY <2>1, <3>3 DEF Covered
      <4> QED BY <2>2, <2>3, <3>1, <4>1
    <3> QED BY <2>4, <3>2, <3>3
  <2>5. ASSUME NEW i \in owed, i < before PROVE i \in OlderRows
    BY <2>1, <2>5 DEF WalkTypeOK, Covered, OlderRows, Translatable, Gone
  <2>6. ASSUME walk' = "backfill", NEW i \in owed PROVE i < before' \/ got'[i] > 0
    <3>1. before' \in Handled
      BY <1>2, <2>6 DEF BackfillPage
    <3>2. i \in Ids /\ before' \in Ids /\ Ids \subseteq Nat
      BY <3>1 DEF WalkTypeOK, Handled, Scanned, OlderRows, Ids
    <3>3. CASE i < before /\ i >= before'
      BY <2>4, <2>5, <3>1, <3>3, HandledDownTo
    <3> QED BY <2>4, <3>2, <3>3
  <2>7. ASSUME walk' = "done", NEW i \in owed PROVE got'[i] > 0
    <3>1. ~ More
      BY <1>2, <2>7 DEF BackfillPage
    <3> QED BY <2>4, <2>5, <3>1, LastPage
  <2>8. walk' \in {"backfill", "done"}
    BY <1>2 DEF BackfillPage
  <2> QED BY <2>1, <2>6, <2>7, <2>8 DEF Covered, AllReturned, Translatable
<1>3. CASE SweepPage
  <2>1. UNCHANGED <<rows, newest, owed>> /\ walk = "sweep"
    BY <1>3 DEF SweepPage, messages
  <2>2. \A i \in Ids : got'[i] = IF i \in Picked THEN got[i] + 1 ELSE got[i]
    BY <1>3 DEF SweepPage, Return
  <2>3. \A i \in Ids : got[i] \in Nat
    BY DEF WalkTypeOK
  <2>4. ASSUME NEW i \in owed, i \in Picked \/ i \notin asked PROVE got'[i] > 0
    <3>1. i \in Ids
      BY DEF WalkTypeOK
    <3>2. CASE i \in Picked
      BY <2>2, <2>3, <3>1, <3>2
    <3>3. CASE i \notin asked
      <4>1. got[i] > 0
        BY <2>1, <3>3 DEF Covered
      <4> QED BY <2>2, <2>3, <3>1, <4>1
    <3> QED BY <2>4, <3>2, <3>3
  <2>5. ASSUME NEW i \in owed, i \in asked PROVE i \in Found
    BY <2>1, <2>5 DEF Covered, Found
  <2>6. ASSUME walk' = "sweep", NEW i \in owed, i \notin asked' PROVE got'[i] > 0
    <3>1. asked' = {j \in asked : \A k \in Picked : k < j}
      BY <1>3, <2>6 DEF SweepPage
    <3>2. CASE i \in asked
      <4>1. PICK k \in Picked : ~ (k < i)
        BY <2>6, <3>1, <3>2
      <4>2. i \in Found /\ k \in Found /\ Found \subseteq Nat
        <5>1. asked \subseteq Nat
          BY DEF WalkTypeOK, Ids
        <5>2. Found \subseteq asked /\ k \in Found
          BY DEF Found, Picked
        <5> QED BY <2>5, <3>2, <5>1, <5>2
      <4>3. \A j \in Found : j <= i => j <= k
        BY <4>1, <4>2
      <4>4. i \in Picked
        BY <4>2, <4>3 DEF Picked
      <4> QED BY <2>4, <4>4
    <3> QED BY <2>4, <3>2
  <2>7. ASSUME walk' = "done", NEW i \in owed PROVE got'[i] > 0
    <3>1. Picked = Found
      BY <1>3, <2>7 DEF SweepPage, Truncated
    <3> QED BY <2>4, <2>5, <3>1
  <2>8. walk' \in {"sweep", "done"}
    BY <1>3 DEF SweepPage
  <2> QED BY <2>1, <2>6, <2>7, <2>8 DEF Covered, AllReturned
<1>4. ASSUME NEW kind \in Kinds, Send(kind) PROVE Covered'
  <2>1. newest + 1 \in Ids /\ newest' = newest + 1 /\ newest' \in 0 .. MaxId
    BY <1>4, CandidatesAssumption DEF Send, WalkTypeOK, Ids
  <2>2. rows[newest + 1] = Gone
    BY <2>1 DEF Covered, WalkTypeOK
  <2>3. walk = "backfill" => newest + 1 \notin owed
    BY <2>2 DEF Covered, Translatable, Gone
  <2> QED BY <1>4, <2>1, <2>3, ChangeCovered DEF Send, WalkTypeOK
<1>5. ASSUME NEW kind \in Kinds, NEW i \in Ids, Edit(i, kind) PROVE Covered'
  <2>1. i <= newest
    BY <1>5 DEF Edit, Covered, WalkTypeOK, Ids
  <2>2. newest' = newest /\ newest \in 0 .. MaxId /\ kind # "hidden" /\ Change(i, kind)
    BY <1>5 DEF Edit, WalkTypeOK
  <2> QED BY <2>1, <2>2, ChangeCovered
<1>6. ASSUME NEW i \in Ids, Delete(i) PROVE Covered'
  <2>1. newest' = newest /\ newest \in 0 .. MaxId /\ Change(i, Gone) /\ Gone # "hidden"
    BY <1>6 DEF Delete, WalkTypeOK, Gone
  <2> QED BY <2>1, ChangeCovered
<1>7. CASE UNCHANGED walk_vars
  BY <1>7 DEF walk_vars, messages, Covered, AllReturned, Translatable
<1> QED BY <1>1, <1>2, <1>3, <1>4, <1>5, <1>6, <1>7 DEF WalkNext

\* No message that is there, and translatable, all the time is left out.
THEOREM NothingLeftOut == WalkSpec => []AllReturned
<1>1. WalkInit => Once /\ Covered
  BY DEF WalkInit, Once, AtMostOnce, Covered, AllReturned
<1>2. Covered => AllReturned
  BY DEF Covered
<1> QED BY <1>1, <1>2, StepOnce, StepCovered, WalkTypeCorrect, PTL DEF WalkSpec
=============================================================================
