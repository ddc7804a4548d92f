-------------------------- MODULE EventQueue_proofs --------------------------
(***************************************************************************)
(* Theorems about EventQueue, for any number of messages, flags, event     *)
(* types and events: the queue is well formed, its responses are in id     *)
(* order, it implements the set of events of AbstractEventQueue, and       *)
(* updates of a flag in one direction arrive however they are compressed.  *)
(***************************************************************************)
EXTENDS EventQueue, SequenceTheorems, FiniteSetTheorems, WellFoundedInduction, TLAPS

(***************************************************************************)
(* Induction on naturals, over a set.                                      *)
(***************************************************************************)
LEMMA LeastNumber ==
    ASSUME NEW S \in SUBSET Nat, S # {}
    PROVE  \E m \in S : \A k \in S : m <= k
<1>1. PICK m \in S : \A k \in S : <<k, m>> \notin OpToRel(<, Nat)
  BY NatLessThanWellFounded, WFMin
<1>2. \A k \in S : ~ (k < m)
  BY <1>1 DEF OpToRel
<1> QED BY <1>2

LEMMA UpTo ==
    ASSUME NEW n \in Nat, NEW T, 0 \in T,
           \A i \in 1 .. n : i - 1 \in T => i \in T
    PROVE  0 .. n \subseteq T
<1> DEFINE Rest == {i \in 0 .. n : i \notin T}
<1> SUFFICES ASSUME Rest # {} PROVE FALSE
  OBVIOUS
<1>1. PICK i \in Rest : \A k \in Rest : i <= k
  <2>1. Rest \in SUBSET Nat
    OBVIOUS
  <2> QED BY <2>1, LeastNumber
<1>2. i \in 1 .. n /\ i - 1 \in 0 .. n
  BY <1>1
<1>3. i - 1 \in T
  BY <1>1, <1>2
<1> QED BY <1>2, <1>3

\* The recursive function on 0 .. n that starts with a and goes on by F.
Steps(F, n, S) == \A i \in 1 .. n, x \in S : F[i][x] \in S

Recursion(g, n, S, a, F) ==
    /\ g \in [0 .. n -> S]
    /\ g[0] = a
    /\ \A i \in 1 .. n : g[i] = F[i][g[i - 1]]

LEMMA RecursionExists ==
    ASSUME NEW S, NEW a \in S, NEW n \in Nat, NEW F, Steps(F, n, S)
    PROVE  \E g : Recursion(g, n, S, a, F)
<1> DEFINE Good(g, k) == g[0] = a /\ \A i \in 1 .. k : g[i] = F[i][g[i - 1]]
           T == {k \in 0 .. n : \E g \in [0 .. k -> S] : Good(g, k)}
<1>1. 0 \in T
  <2> DEFINE h == [i \in 0 .. 0 |-> a]
  <2>1. h \in [0 .. 0 -> S] /\ Good(h, 0)
    OBVIOUS
  <2> HIDE DEF h, Good
  <2>2. \E g \in [0 .. 0 -> S] : Good(g, 0)
    BY <2>1
  <2> QED BY <2>2
<1>2. ASSUME NEW k \in 1 .. n, k - 1 \in T PROVE k \in T
  <2>1. PICK g \in [0 .. k - 1 -> S] : Good(g, k - 1)
    BY <1>2
  <2> DEFINE h == [i \in 0 .. k |-> IF i = k THEN F[k][g[k - 1]] ELSE g[i]]
  <2>2. F[k][g[k - 1]] \in S
    BY <2>1 DEF Steps
  <2>3. h \in [0 .. k -> S]
    BY <2>1, <2>2
  <2>4. h[0] = a
    BY <2>1
  <2>5. ASSUME NEW i \in 1 .. k PROVE h[i] = F[i][h[i - 1]]
    <3>1. i - 1 \in 0 .. k /\ i - 1 # k /\ h[i - 1] = g[i - 1]
      OBVIOUS
    <3>2. CASE i = k
      BY <3>1, <3>2
    <3>3. CASE i # k
      <4>1. i \in 1 .. k - 1 /\ h[i] = g[i]
        BY <3>3
      <4> QED BY <2>1, <3>1, <4>1
    <3> QED BY <3>2, <3>3
  <2>6. Good(h, k)
    BY <2>4, <2>5
  <2> HIDE DEF h, Good
  <2>7. \E f \in [0 .. k -> S] : Good(f, k)
    BY <2>3, <2>6
  <2> QED BY <2>7
<1> HIDE DEF T
<1>3. 0 .. n \subseteq T
  BY <1>1, <1>2, UpTo
<1>4. n \in T
  BY <1>3
<1>5. PICK g \in [0 .. n -> S] : Good(g, n)
  BY <1>4 DEF T
<1>6. Recursion(g, n, S, a, F)
  BY <1>5 DEF Recursion
<1> QED BY <1>6

(***************************************************************************)
(* Sequences of events.                                                    *)
(***************************************************************************)
LEMMA ConcatOrdered ==
    ASSUME NEW s \in Seq(Event), NEW t \in Seq(Event), ById(s), ById(t),
           \A e \in Elements(s), g \in Elements(t) : e.id < g.id
    PROVE  /\ s \o t \in Seq(Event)
           /\ ById(s \o t)
           /\ Elements(s \o t) = Elements(s) \cup Elements(t)
<1>1. /\ s \o t \in Seq(Event)
      /\ Len(s) \in Nat /\ Len(t) \in Nat
      /\ Len(s \o t) = Len(s) + Len(t)
      /\ \A i \in 1 .. Len(s) : (s \o t)[i] = s[i] /\ s[i] \in Elements(s)
      /\ \A i \in 1 .. Len(t) : (s \o t)[Len(s) + i] = t[i] /\ t[i] \in Elements(t)
  BY ConcatProperties, LenProperties DEF Elements
<1>2. ASSUME NEW i \in 1 .. Len(s) + Len(t)
      PROVE  i \in 1 .. Len(s) \/ \E j \in 1 .. Len(t) : i = Len(s) + j
  <2>1. i > Len(s) => i - Len(s) \in 1 .. Len(t) /\ i = Len(s) + (i - Len(s))
    BY <1>1
  <2> QED BY <1>1, <2>1
<1>3. ASSUME NEW i \in 1 .. Len(s) + Len(t), NEW j \in 1 .. Len(s) + Len(t), i < j
      PROVE  (s \o t)[i].id < (s \o t)[j].id
  <2>1. CASE j \in 1 .. Len(s)
    BY <1>1, <1>3, <2>1 DEF ById
  <2>2. CASE i \in 1 .. Len(s) /\ j \notin 1 .. Len(s)
    BY <1>1, <1>2, <2>2
  <2>3. CASE i \notin 1 .. Len(s) /\ j \notin 1 .. Len(s)
    <3>1. PICK k \in 1 .. Len(t), l \in 1 .. Len(t) : i = Len(s) + k /\ j = Len(s) + l
      BY <1>2, <2>3
    <3>2. k < l
      BY <1>1, <1>3, <3>1
    <3> QED BY <1>1, <3>1, <3>2 DEF ById
  <2>4. i \in 1 .. Len(s) \/ j \notin 1 .. Len(s)
    BY <1>1, <1>3
  <2> QED BY <2>1, <2>2, <2>3, <2>4
<1>4. Elements(s \o t) \subseteq Elements(s) \cup Elements(t)
  BY <1>1, <1>2 DEF Elements
<1>5. Elements(s) \subseteq Elements(s \o t)
  <2>1. \A i \in 1 .. Len(s) : i \in 1 .. Len(s) + Len(t)
    BY <1>1
  <2> QED BY <1>1, <2>1 DEF Elements
<1>6. Elements(t) \subseteq Elements(s \o t)
  <2> SUFFICES ASSUME NEW i \in 1 .. Len(t) PROVE t[i] \in Elements(s \o t)
    BY DEF Elements
  <2>1. Len(s) + i \in 1 .. Len(s \o t) /\ (s \o t)[Len(s) + i] = t[i]
    BY <1>1
  <2> QED BY <2>1 DEF Elements
<1> QED BY <1>1, <1>3, <1>4, <1>5, <1>6 DEF ById

LEMMA SubSeqOrdered ==
    ASSUME NEW s \in Seq(Event), ById(s),
           NEW a \in 1 .. Len(s) + 1, NEW b \in a - 1 .. Len(s)
    PROVE  /\ SubSeq(s, a, b) \in Seq(Event)
           /\ ById(SubSeq(s, a, b))
           /\ Elements(SubSeq(s, a, b)) = {s[i] : i \in a .. b}
<1>1. Len(s) \in Nat /\ a \in Int /\ b \in Int /\ \A i \in a .. b : s[i] \in Event
  <2>1. Len(s) \in Nat /\ a \in Int /\ b \in Int
    BY LenProperties
  <2>2. \A i \in a .. b : i \in 1 .. Len(s)
    BY <2>1
  <2> QED BY <2>1, <2>2, ElementOfSeq
<1>2. /\ SubSeq(s, a, b) \in Seq(Event)
      /\ Len(SubSeq(s, a, b)) = b - a + 1
      /\ \A i \in 1 .. b - a + 1 : SubSeq(s, a, b)[i] = s[a + i - 1]
  BY <1>1, SubSeqProperties
<1>3. ById(SubSeq(s, a, b))
  <2> SUFFICES ASSUME NEW i \in 1 .. b - a + 1, NEW j \in 1 .. b - a + 1, i < j
               PROVE  SubSeq(s, a, b)[i].id < SubSeq(s, a, b)[j].id
    BY <1>2 DEF ById
  <2>1. a + i - 1 \in 1 .. Len(s) /\ a + j - 1 \in 1 .. Len(s) /\ a + i - 1 < a + j - 1
    BY <1>1
  <2> QED BY <1>2, <2>1 DEF ById
<1>4. Elements(SubSeq(s, a, b)) \subseteq {s[i] : i \in a .. b}
  <2> SUFFICES ASSUME NEW i \in 1 .. b - a + 1
               PROVE  SubSeq(s, a, b)[i] \in {s[j] : j \in a .. b}
    BY <1>2 DEF Elements
  <2>1. a + i - 1 \in a .. b
    BY <1>1
  <2> QED BY <1>2, <2>1
<1>5. {s[i] : i \in a .. b} \subseteq Elements(SubSeq(s, a, b))
  <2> SUFFICES ASSUME NEW i \in a .. b PROVE s[i] \in Elements(SubSeq(s, a, b))
    OBVIOUS
  <2>1. i - a + 1 \in 1 .. b - a + 1 /\ a + (i - a + 1) - 1 = i
    BY <1>1
  <2>2. s[i] = SubSeq(s, a, b)[i - a + 1]
    BY <1>2, <2>1
  <2> QED BY <1>2, <2>1, <2>2 DEF Elements
<1> QED BY <1>2, <1>3, <1>4, <1>5

LEMMA OneEvent ==
    ASSUME NEW e \in Event
    PROVE  <<e>> \in Seq(Event) /\ ById(<<e>>) /\ Elements(<<e>>) = {e}
BY DEF ById, Elements

\* before stops at the first event whose id is not below the limit.
LEMMA BeforeStops ==
    ASSUME NEW s \in Seq(Event), NEW from \in 1 .. Len(s) + 1, NEW limit \in Int
    PROVE  /\ before(s, from, limit) \in from - 1 .. Len(s)
           /\ \A i \in from .. before(s, from, limit) : s[i].id < limit
           /\ before(s, from, limit) < Len(s) => s[before(s, from, limit) + 1].id >= limit
<1> DEFINE late == {i \in from .. Len(s) : s[i].id >= limit}
<1>1. Len(s) \in Nat /\ \A i \in from .. Len(s) : s[i] \in Event /\ s[i].id \in Nat
  <2>1. Len(s) \in Nat
    BY LenProperties
  <2>2. \A i \in from .. Len(s) : i \in 1 .. Len(s)
    BY <2>1
  <2>3. \A i \in from .. Len(s) : s[i] \in Event
    BY <2>2, ElementOfSeq
  <2> QED BY <2>1, <2>3 DEF Event
<1>2. \E n \in from - 1 .. Len(s) :
        /\ \A i \in from .. n : s[i].id < limit
        /\ n < Len(s) => s[n + 1].id >= limit
  <2>1. CASE late = {}
    <3>1. Len(s) \in from - 1 .. Len(s)
      BY <1>1
    <3>2. \A i \in from .. Len(s) : s[i].id < limit
      BY <1>1, <2>1
    <3> QED BY <1>1, <3>1, <3>2
  <2>2. CASE late # {}
    <3>1. late \in SUBSET Nat
      BY <1>1
    <3>2. PICK m \in late : \A k \in late : m <= k
      BY <2>2, <3>1, LeastNumber
    <3>3. m - 1 \in from - 1 .. Len(s) /\ m - 1 + 1 = m /\ s[m].id >= limit
      BY <1>1, <3>2
    <3>4. ASSUME NEW i \in from .. m - 1 PROVE s[i].id < limit
      <4>1. i \in from .. Len(s) /\ i < m
        BY <1>1, <3>2
      <4>2. i \notin late
        BY <3>2, <4>1
      <4> QED BY <1>1, <4>1, <4>2
    <3> QED BY <3>3, <3>4
  <2> QED BY <2>1, <2>2
<1> QED BY <1>2 DEF before

\* A set of events is distinguished by the ids.
Distinct(E) == \A e, g \in E : e.id = g.id => e = g

LEMMA Sortable ==
    ASSUME NEW n \in Nat, NEW E \in SUBSET Event, Distinct(E), \A e \in E : e.id < n
    PROVE  /\ Cardinality(E) \in Nat
           /\ \E s \in [1 .. Cardinality(E) -> E] : ById(s) /\ Elements(s) = E
<1> DEFINE Sorting(s, D) == ById(s) /\ Elements(s) = D
           Below(D, k) == Distinct(D) /\ \A e \in D : e.id < k
           Has(D) == IsFiniteSet(D) /\ \E s \in [1 .. Cardinality(D) -> D] : Sorting(s, D)
           T == {k \in 0 .. n : \A D \in SUBSET Event : Below(D, k) => Has(D)}
<1>0. \A e \in Event : e.id \in Nat
  BY DEF Event
<1>1. 0 \in T
  <2> SUFFICES ASSUME NEW D \in SUBSET Event, Below(D, 0) PROVE Has(D)
    OBVIOUS
  <2>1. D = {}
    BY <1>0
  <2>2. IsFiniteSet(D) /\ Cardinality(D) = 0
    BY <2>1, FS_EmptySet
  <2> DEFINE s == [i \in 1 .. 0 |-> 0]
  <2>3. s \in [1 .. 0 -> D] /\ s \in Seq(Event) /\ Len(s) = 0
    BY <2>1
  <2>4. Sorting(s, D)
    BY <2>1, <2>3 DEF ById, Elements
  <2> HIDE DEF s, Sorting
  <2> QED BY <2>2, <2>3, <2>4
<1>2. ASSUME NEW k \in 1 .. n, k - 1 \in T PROVE k \in T
  <2> SUFFICES ASSUME NEW D \in SUBSET Event, Below(D, k) PROVE Has(D)
    OBVIOUS
  <2>1. CASE \A e \in D : e.id < k - 1
    <3>1. Below(D, k - 1)
      BY <2>1
    <3> HIDE DEF Below, Has
    <3> QED BY <1>2, <3>1
  <2>2. CASE \E e \in D : ~ (e.id < k - 1)
    <3>1. PICK e \in D : e.id = k - 1
      BY <1>0, <2>2
    <3> DEFINE C == D \ {e}
    <3>2. C \in SUBSET Event /\ Below(C, k - 1)
      <4>1. ASSUME NEW g \in C PROVE g.id < k - 1
        <5>1. g.id < k /\ g.id \in Nat
          BY <1>0
        <5>2. g.id # k - 1
          BY <3>1 DEF Distinct
        <5> QED BY <5>1, <5>2
      <4> QED BY <4>1 DEF Distinct
    <3>3. Has(C)
      <4> HIDE DEF Below, Has, C
      <4> QED BY <1>2, <3>2
    <3> DEFINE c == Cardinality(C)
    <3>4. c \in Nat /\ IsFiniteSet(D) /\ Cardinality(D) = c + 1
      <4>1. IsFiniteSet(C) /\ C \cup {e} = D /\ e \notin C
        BY <3>3
      <4> QED BY <4>1, FS_AddElement, FS_CardinalityType
    <3>5. PICK s \in [1 .. c -> C] : Sorting(s, C)
      BY <3>3
    <3>6. s \in Seq(Event) /\ Len(s) = c /\ s \in Seq(C)
      <4>1. s \in Seq(C)
        BY <3>4, SeqDef
      <4> QED BY <3>2, <3>4, <4>1, SeqMonotonic, LenProperties
    <3>7. <<e>> \in Seq(Event) /\ ById(<<e>>) /\ Elements(<<e>>) = {e}
      BY OneEvent
    <3>8. \A g \in Elements(s), h \in Elements(<<e>>) : g.id < h.id
      BY <3>1, <3>2, <3>5, <3>7
    <3> DEFINE r == s \o <<e>>
    <3>9. r \in Seq(Event) /\ ById(r) /\ Elements(r) = Elements(s) \cup {e}
      BY <3>5, <3>6, <3>7, <3>8, ConcatOrdered
    <3>10. Elements(r) = D
      BY <3>5, <3>9
    <3>11. Len(r) = c + 1
      BY <3>6, <3>7, ConcatProperties
    <3> HIDE DEF r, c
    <3>12. r \in [1 .. Cardinality(D) -> D]
      <4>1. r \in [1 .. Cardinality(D) -> Event]
        BY <3>4, <3>9, <3>11, LenProperties
      <4>2. \A i \in 1 .. Cardinality(D) : r[i] \in D
        BY <3>4, <3>10, <3>11 DEF Elements
      <4> QED BY <4>1, <4>2
    <3>13. Sorting(r, D)
      BY <3>9, <3>10
    <3> HIDE DEF Sorting
    <3> QED BY <3>4, <3>12, <3>13
  <2> QED BY <2>1, <2>2
<1> HIDE DEF T
<1>3. n \in T
  BY <1>1, <1>2, UpTo
<1>4. Has(E)
  BY <1>3 DEF T
<1> QED BY <1>4, FS_CardinalityType

LEMMA SortedOrdered ==
    ASSUME NEW n \in Nat, NEW E \in SUBSET Event, Distinct(E), \A e \in E : e.id < n
    PROVE  sorted(E) \in Seq(Event) /\ ById(sorted(E)) /\ Elements(sorted(E)) = E
<1>1. Cardinality(E) \in Nat /\ \E s \in [1 .. Cardinality(E) -> E] : ById(s) /\ Elements(s) = E
  BY Sortable
<1>2. /\ sorted(E) \in [1 .. Cardinality(E) -> E]
      /\ ById(sorted(E)) /\ Elements(sorted(E)) = E
  BY <1>1 DEF sorted
<1>3. sorted(E) \in Seq(E)
  BY <1>1, <1>2, SeqDef
<1> QED BY <1>2, <1>3, SeqMonotonic

(***************************************************************************)
(* The merge loop.                                                         *)
(***************************************************************************)
Merging == [out : Seq(Event), index : Nat]

Placed(m, real, virtual, i) ==
    LET due == before(virtual, m.index, real[i].id)
    IN  [out |-> m.out \o SubSeq(virtual, m.index, due) \o <<real[i]>>, index |-> due + 1]

\* The state of the loop before its first real event, and after each.
LEMMA MergeSteps ==
    ASSUME NEW real \in Seq(Event), NEW virtual \in Seq(Event)
    PROVE  /\ merge(real, virtual)[0] = [out |-> <<>>, index |-> 1]
           /\ \A i \in 1 .. Len(real) :
                merge(real, virtual)[i] = Placed(merge(real, virtual)[i - 1], real, virtual, i)
<1> DEFINE n == Len(real)
           In(x) == x.index \in 1 .. Len(virtual) + 1
           S == {x \in Merging : In(x)}
           due(x, k) == before(virtual, x.index, real[k].id)
           next(x, k) == [out |-> x.out \o SubSeq(virtual, x.index, due(x, k)) \o <<real[k]>>,
                          index |-> due(x, k) + 1]
           F == [k \in 1 .. n |-> [x \in S |-> next(x, k)]]
           a == [out |-> <<>>, index |-> 1]
           rec(g) == g = [k \in 0 .. n |-> IF k = 0 THEN a ELSE next(g[k - 1], k)]
<1>1. n \in Nat /\ Len(virtual) \in Nat
  BY LenProperties
<1>2. a \in S
  BY <1>1 DEF Merging
<1>3. ASSUME NEW k \in 1 .. n, NEW x \in S PROVE next(x, k) \in S
  <2>1. real[k] \in Event /\ real[k].id \in Int
    <3>1. real[k] \in Event
      BY ElementOfSeq
    <3> QED BY <3>1 DEF Event
  <2>2. x.index \in 1 .. Len(virtual) + 1 /\ x.out \in Seq(Event)
    BY DEF Merging
  <2>3. /\ due(x, k) \in x.index - 1 .. Len(virtual)
    BY <2>1, <2>2, BeforeStops
  <2>4. SubSeq(virtual, x.index, due(x, k)) \in Seq(Event)
    <3>1. \A j \in x.index .. due(x, k) : j \in 1 .. Len(virtual)
      BY <1>1, <2>2, <2>3
    <3>2. \A j \in x.index .. due(x, k) : virtual[j] \in Event
      BY <3>1, ElementOfSeq
    <3>3. x.index \in Int /\ due(x, k) \in Int
      BY <1>1, <2>2, <2>3
    <3> HIDE DEF due
    <3> QED BY <3>2, <3>3, SubSeqProperties
  <2>5. due(x, k) + 1 \in 1 .. Len(virtual) + 1
    BY <1>1, <2>2, <2>3
  <2> HIDE DEF due
  <2>6. x.out \o SubSeq(virtual, x.index, due(x, k)) \o <<real[k]>> \in Seq(Event)
    BY <2>1, <2>2, <2>4, ConcatProperties
  <2> QED BY <1>1, <2>5, <2>6 DEF Merging
<1> HIDE DEF S, next, a
<1>4. \A k \in 1 .. n, x \in S : F[k][x] = next(x, k)
  BY <1>3
<1> HIDE DEF F
<1>5. PICK g : Recursion(g, n, S, a, F)
  <2>1. Steps(F, n, S)
    BY <1>3, <1>4 DEF Steps
  <2> HIDE DEF n
  <2>2. n \in Nat /\ a \in S
    BY <1>1, <1>2
  <2> QED BY <2>1, <2>2, RecursionExists
<1>6. ASSUME NEW k \in 1 .. n PROVE g[k] = next(g[k - 1], k)
  <2>1. k - 1 \in 0 .. n
    BY <1>1
  <2> QED BY <1>4, <1>5, <2>1 DEF Recursion
<1>7. rec(g)
  <2>1. \A k \in 0 .. n : g[k] = IF k = 0 THEN a ELSE next(g[k - 1], k)
    BY <1>1, <1>5, <1>6 DEF Recursion
  <2>2. g \in [0 .. n -> S]
    BY <1>5 DEF Recursion
  <2> QED BY <2>1, <2>2
<1>8. merge(real, virtual) = CHOOSE h : rec(h)
  BY DEF merge, next, a
<1> HIDE DEF rec
<1>9. rec(merge(real, virtual))
  BY <1>7, <1>8
<1>10. /\ merge(real, virtual)[0] = a
       /\ \A k \in 1 .. n : merge(real, virtual)[k] = next(merge(real, virtual)[k - 1], k)
  BY <1>1, <1>9 DEF rec
<1> QED BY <1>10 DEF next, a, Placed

\* After i real events the loop has put out what is due, in id order.
Merged(m, real, virtual, i) ==
    /\ m.out \in Seq(Event) /\ m.index \in 1 .. Len(virtual) + 1
    /\ ById(m.out)
    /\ Elements(m.out) = {real[j] : j \in 1 .. i} \cup {virtual[j] : j \in 1 .. m.index - 1}
    /\ i = 0 => m.index = 1
    /\ i > 0 => /\ \A e \in Elements(m.out) : e.id <= real[i].id
                /\ \A j \in m.index .. Len(virtual) : virtual[j].id >= real[i].id

Apart(real, virtual) == \A v \in Elements(virtual), e \in Elements(real) : v.id # e.id

LEMMA MergeStep ==
    ASSUME NEW real \in Seq(Event), NEW virtual \in Seq(Event),
           ById(real), ById(virtual), Apart(real, virtual),
           NEW i \in 1 .. Len(real), Merged(merge(real, virtual)[i - 1], real, virtual, i - 1)
    PROVE  Merged(merge(real, virtual)[i], real, virtual, i)
<1> DEFINE old == merge(real, virtual)[i - 1]
           due == before(virtual, old.index, real[i].id)
           taken == SubSeq(virtual, old.index, due)
           new == merge(real, virtual)[i]
<1>1. Len(real) \in Nat /\ Len(virtual) \in Nat /\ i - 1 \in 0 .. Len(real) /\ i \in 0 .. Len(real)
  BY LenProperties
<1>2. new = [out |-> old.out \o taken \o <<real[i]>>, index |-> due + 1]
  BY MergeSteps DEF Placed
<1>3. /\ old.out \in Seq(Event) /\ old.index \in 1 .. Len(virtual) + 1
      /\ ById(old.out)
      /\ Elements(old.out) = {real[j] : j \in 1 .. i - 1} \cup {virtual[j] : j \in 1 .. old.index - 1}
      /\ i - 1 = 0 => old.index = 1
      /\ i - 1 > 0 => /\ \A e \in Elements(old.out) : e.id <= real[i - 1].id
                      /\ \A j \in old.index .. Len(virtual) : virtual[j].id >= real[i - 1].id
  BY DEF Merged
<1> HIDE DEF old, new
<1>4. /\ \A j \in 1 .. Len(real) : real[j] \in Elements(real) /\ real[j] \in Event /\ real[j].id \in Nat
      /\ \A j \in 1 .. Len(virtual) : virtual[j] \in Elements(virtual) /\ virtual[j] \in Event
                                      /\ virtual[j].id \in Nat
  <2>1. \A j \in 1 .. Len(real) : real[j] \in Event
    BY ElementOfSeq
  <2>2. \A j \in 1 .. Len(virtual) : virtual[j] \in Event
    BY ElementOfSeq
  <2> QED BY <2>1, <2>2 DEF Elements, Event
<1>5. /\ due \in old.index - 1 .. Len(virtual)
      /\ \A j \in old.index .. due : virtual[j].id < real[i].id
      /\ due < Len(virtual) => virtual[due + 1].id >= real[i].id
  <2>1. real[i].id \in Int
    BY <1>4
  <2> QED BY <1>3, <2>1, BeforeStops
<1> HIDE DEF due
<1>6. /\ taken \in Seq(Event) /\ ById(taken)
      /\ Elements(taken) = {virtual[j] : j \in old.index .. due}
  BY <1>3, <1>5, SubSeqOrdered
<1> HIDE DEF taken
<1>7. ASSUME NEW e \in Elements(old.out), NEW v \in Elements(taken) PROVE e.id < v.id
  <2>1. PICK k \in old.index .. due : v = virtual[k]
    BY <1>6
  <2>2. k \in 1 .. Len(virtual) /\ k \in old.index .. Len(virtual)
    BY <1>1, <1>3, <1>5, <2>1
  <2>3. CASE \E j \in 1 .. old.index - 1 : e = virtual[j]
    <3>1. PICK j \in 1 .. old.index - 1 : e = virtual[j]
      BY <2>3
    <3>2. j \in 1 .. Len(virtual) /\ j < k
      BY <1>1, <1>3, <2>2, <3>1
    <3> QED BY <2>1, <2>2, <3>1, <3>2 DEF ById
  <2>4. CASE \E j \in 1 .. i - 1 : e = real[j]
    <3>1. PICK j \in 1 .. i - 1 : e = real[j]
      BY <2>4
    <3>2. j \in 1 .. Len(real) /\ i - 1 > 0 /\ i - 1 \in 1 .. Len(real)
      BY <1>1, <3>1
    <3>3. e.id <= real[i - 1].id /\ real[i - 1].id <= v.id
      BY <1>3, <2>1, <2>2, <3>2
    <3>4. e.id # v.id
      BY <1>4, <2>1, <2>2, <3>1, <3>2 DEF Apart
    <3>5. e.id \in Nat /\ v.id \in Nat /\ real[i - 1].id \in Nat
      BY <1>4, <2>1, <2>2, <3>1, <3>2
    <3> QED BY <3>3, <3>4, <3>5
  <2> QED BY <1>3, <2>3, <2>4
<1> DEFINE out == old.out \o taken
<1>8. /\ out \in Seq(Event) /\ ById(out)
      /\ Elements(out) = Elements(old.out) \cup Elements(taken)
  BY <1>3, <1>6, <1>7, ConcatOrdered
<1> HIDE DEF out
<1>9. ASSUME NEW e \in Elements(out) PROVE e.id < real[i].id
  <2>1. CASE e \in Elements(taken)
    BY <1>5, <1>6, <2>1
  <2>2. CASE e \in Elements(old.out)
    <3>1. i - 1 > 0
      <4>1. CASE i = 1
        <5>1. Elements(old.out) = {}
          BY <1>3, <4>1
        <5> QED BY <2>2, <5>1
      <4> QED BY <1>1, <4>1
    <3>2. i - 1 \in 1 .. Len(real) /\ i - 1 < i
      BY <1>1, <3>1
    <3>3. e.id <= real[i - 1].id /\ real[i - 1].id < real[i].id
      BY <1>3, <2>2, <3>1, <3>2 DEF ById
    <3>4. e.id \in Nat /\ real[i - 1].id \in Nat /\ real[i].id \in Nat
      <4>1. e \in Event
        <5>1. PICK k \in 1 .. Len(old.out) : e = old.out[k]
          BY <2>2 DEF Elements
        <5> QED BY <1>3, <5>1, ElementOfSeq
      <4> QED BY <1>4, <3>2, <4>1 DEF Event
    <3> QED BY <3>3, <3>4
  <2> QED BY <1>8, <2>1, <2>2
<1>10. <<real[i]>> \in Seq(Event) /\ ById(<<real[i]>>) /\ Elements(<<real[i]>>) = {real[i]}
  BY <1>4, OneEvent
<1>11. /\ out \o <<real[i]>> \in Seq(Event) /\ ById(out \o <<real[i]>>)
       /\ Elements(out \o <<real[i]>>) = Elements(out) \cup {real[i]}
  BY <1>8, <1>9, <1>10, ConcatOrdered
<1>12. new.out = out \o <<real[i]>> /\ new.index = due + 1
  BY <1>2 DEF out
<1>13. Elements(new.out) = {real[j] : j \in 1 .. i} \cup {virtual[j] : j \in 1 .. due}
  <2>1. Elements(new.out) = {real[j] : j \in 1 .. i - 1} \cup {virtual[j] : j \in 1 .. old.index - 1}
                            \cup {virtual[j] : j \in old.index .. due} \cup {real[i]}
    BY <1>3, <1>6, <1>8, <1>11, <1>12
  <2>2. 1 .. i = 1 .. i - 1 \cup {i}
    BY <1>1
  <2>3. 1 .. due = 1 .. old.index - 1 \cup old.index .. due
    BY <1>1, <1>3, <1>5
  <2>4. {real[j] : j \in 1 .. i} = {real[j] : j \in 1 .. i - 1} \cup {real[i]}
    BY <2>2
  <2>5. {virtual[j] : j \in 1 .. due}
          = {virtual[j] : j \in 1 .. old.index - 1} \cup {virtual[j] : j \in old.index .. due}
    BY <2>3
  <2> QED BY <2>1, <2>4, <2>5
<1>14. \A e \in Elements(new.out) : e.id <= real[i].id
  <2>1. ASSUME NEW e \in Elements(out) PROVE e.id <= real[i].id
    <3>1. PICK k \in 1 .. Len(out) : e = out[k]
      BY DEF Elements
    <3>2. e \in Event
      BY <1>8, <3>1, ElementOfSeq
    <3>3. e.id \in Nat /\ real[i].id \in Nat
      BY <1>4, <3>2 DEF Event
    <3> QED BY <1>9, <3>3
  <2>2. real[i].id <= real[i].id
    BY <1>4
  <2> QED BY <1>11, <1>12, <2>1, <2>2
<1>15. ASSUME NEW j \in due + 1 .. Len(virtual) PROVE virtual[j].id >= real[i].id
  <2>1. due + 1 \in 1 .. Len(virtual) /\ j \in 1 .. Len(virtual) /\ due < Len(virtual) /\ due \in Int
    BY <1>1, <1>3, <1>5
  <2>2. virtual[due + 1].id >= real[i].id
    BY <1>5, <2>1
  <2>3. CASE j = due + 1
    BY <2>2, <2>3
  <2>4. CASE j # due + 1
    <3>1. due + 1 < j
      BY <2>1, <2>4
    <3>2. virtual[due + 1].id < virtual[j].id
      BY <2>1, <3>1 DEF ById
    <3>3. virtual[due + 1].id \in Nat /\ virtual[j].id \in Nat /\ real[i].id \in Nat
      BY <1>4, <2>1
    <3> QED BY <2>2, <3>2, <3>3
  <2> QED BY <2>3, <2>4
<1>16. due \in Int /\ due + 1 \in 1 .. Len(virtual) + 1
  BY <1>1, <1>3, <1>5
<1>17. Elements(new.out) = {real[j] : j \in 1 .. i} \cup {virtual[j] : j \in 1 .. new.index - 1}
  <2> DEFINE V(k) == {virtual[j] : j \in 1 .. k}
  <2>1. new.index - 1 = due
    BY <1>12, <1>16
  <2>2. Elements(new.out) = {real[j] : j \in 1 .. i} \cup V(due)
    BY <1>13
  <2> HIDE DEF V
  <2>3. V(new.index - 1) = V(due)
    BY <2>1
  <2> QED BY <2>2, <2>3 DEF V
<1>18. new.out \in Seq(Event) /\ new.index \in 1 .. Len(virtual) + 1 /\ ById(new.out)
  BY <1>11, <1>12, <1>16
<1>19. i > 0 /\ \A j \in new.index .. Len(virtual) : virtual[j].id >= real[i].id
  BY <1>12, <1>15
<1>20. Merged(new, real, virtual, i)
  BY <1>14, <1>17, <1>18, <1>19 DEF Merged
<1> QED BY <1>20 DEF new

LEMMA MergeOrdered ==
    ASSUME NEW real \in Seq(Event), NEW virtual \in Seq(Event),
           ById(real), ById(virtual), Apart(real, virtual)
    PROVE  Merged(merge(real, virtual)[Len(real)], real, virtual, Len(real))
<1> DEFINE T == {i \in 0 .. Len(real) : Merged(merge(real, virtual)[i], real, virtual, i)}
<1>1. Len(real) \in Nat /\ Len(virtual) \in Nat
  BY LenProperties
<1>2. 0 \in T
  <2> DEFINE m == merge(real, virtual)[0]
  <2>1. m = [out |-> <<>>, index |-> 1]
    BY MergeSteps
  <2>2. <<>> \in Seq(Event) /\ ById(<<>>) /\ Elements(<<>>) = {}
    BY DEF ById, Elements
  <2> HIDE DEF m
  <2>3. Merged(m, real, virtual, 0)
    BY <1>1, <2>1, <2>2 DEF Merged
  <2> QED BY <1>1, <2>3 DEF m
<1>3. ASSUME NEW i \in 1 .. Len(real), i - 1 \in T PROVE i \in T
  BY <1>1, <1>3, MergeStep
<1> HIDE DEF T
<1>4. 0 .. Len(real) \subseteq T
  BY <1>1, <1>2, <1>3, UpTo
<1>5. Len(real) \in T
  BY <1>1, <1>4
<1> QED BY <1>5 DEF T

(***************************************************************************)
(* The methods of a well-formed queue.                                     *)
(***************************************************************************)
Typed(q) ==
    \E T \in SUBSET VirtualTypes :
       q \in [queue : Seq(Event), virtual_events : [T -> Event],
             next_event_id : Nat, newest_pruned_id : Nat \cup {-1}]

Proper(q) ==
    /\ Typed(q)
    /\ ById(q.queue)
    /\ \A e \in Elements(q.queue) \cup virtuals(q) : e.id < q.next_event_id
    /\ \A t \in DOMAIN q.virtual_events : q.virtual_events[t].type = t
    /\ Distinct(virtuals(q))
    /\ \A v \in virtuals(q), e \in Elements(q.queue) : v.id # e.id

LEMMA ProperFields ==
    ASSUME NEW q, Typed(q)
    PROVE  /\ q.queue \in Seq(Event) /\ q.next_event_id \in Nat
           /\ q.newest_pruned_id \in Nat \cup {-1}
           /\ DOMAIN q.virtual_events \subseteq VirtualTypes
           /\ q.virtual_events \in [DOMAIN q.virtual_events -> Event]
           /\ virtuals(q) \in SUBSET Event
           /\ Elements(q.queue) \in SUBSET Event
           /\ \A e \in Elements(q.queue) \cup virtuals(q) :
                e.id \in Nat /\ e.type \in Types /\ e.messages \in SUBSET Messages
<1>1. PICK T \in SUBSET VirtualTypes :
         q \in [queue : Seq(Event), virtual_events : [T -> Event],
               next_event_id : Nat, newest_pruned_id : Nat \cup {-1}]
  BY DEF Typed
<1>2. virtuals(q) \in SUBSET Event
  BY <1>1 DEF virtuals
<1>3. q.queue \in Seq(Event)
  BY <1>1
<1>4. Elements(q.queue) \in SUBSET Event
  BY <1>3, ElementOfSeq DEF Elements
<1>5. \A e \in Event : e.id \in Nat /\ e.type \in Types /\ e.messages \in SUBSET Messages
  BY DEF Event
<1> QED BY <1>1, <1>2, <1>3, <1>4, <1>5

\* contents returns every event of the queue, by id.
LEMMA ContentsOrdered ==
    ASSUME NEW q, Proper(q)
    PROVE  /\ contents(q) \in Seq(Event)
           /\ ById(contents(q))
           /\ Elements(contents(q)) = Elements(q.queue) \cup virtuals(q)
<1> DEFINE real == q.queue
           virtual == sorted(virtuals(q))
           n == Len(real)
           m == merge(real, virtual)[n]
           rest == SubSeq(virtual, m.index, Len(virtual))
<1>1. /\ real \in Seq(Event) /\ virtuals(q) \in SUBSET Event /\ q.next_event_id \in Nat
      /\ ById(real) /\ Distinct(virtuals(q)) /\ \A v \in virtuals(q) : v.id < q.next_event_id
  BY ProperFields DEF Proper
<1>2. virtual \in Seq(Event) /\ ById(virtual) /\ Elements(virtual) = virtuals(q)
  BY <1>1, SortedOrdered
<1>3. Apart(real, virtual)
  BY <1>2 DEF Proper, Apart
<1>4. n \in Nat /\ Len(virtual) \in Nat
  BY <1>1, <1>2, LenProperties
<1>5. Merged(m, real, virtual, n)
  BY <1>1, <1>2, <1>3, MergeOrdered
<1>6. contents(q) = m.out \o rest
  BY DEF contents
<1> HIDE DEF m, real, virtual, n
<1>7. /\ m.out \in Seq(Event) /\ m.index \in 1 .. Len(virtual) + 1 /\ ById(m.out)
      /\ Elements(m.out) = {real[j] : j \in 1 .. n} \cup {virtual[j] : j \in 1 .. m.index - 1}
      /\ n = 0 => m.index = 1
      /\ n > 0 => /\ \A e \in Elements(m.out) : e.id <= real[n].id
                  /\ \A j \in m.index .. Len(virtual) : virtual[j].id >= real[n].id
  BY <1>5 DEF Merged
<1>8. {real[j] : j \in 1 .. n} = Elements(real)
  BY DEF n, Elements
<1>9. /\ rest \in Seq(Event) /\ ById(rest)
      /\ Elements(rest) = {virtual[j] : j \in m.index .. Len(virtual)}
  <2>1. Len(virtual) \in m.index - 1 .. Len(virtual)
    BY <1>4, <1>7
  <2> QED BY <1>2, <1>7, <2>1, SubSeqOrdered
<1> HIDE DEF rest
<1>10. \A j \in 1 .. Len(virtual) : virtual[j] \in Elements(virtual)
  BY DEF Elements
<1>11. ASSUME NEW e \in Elements(m.out), NEW v \in Elements(rest) PROVE e.id < v.id
  <2>1. PICK k \in m.index .. Len(virtual) : v = virtual[k]
    BY <1>9
  <2>2. k \in 1 .. Len(virtual)
    BY <1>4, <1>7
  <2>3. CASE \E j \in 1 .. m.index - 1 : e = virtual[j]
    <3>1. PICK j \in 1 .. m.index - 1 : e = virtual[j]
      BY <2>3
    <3>2. j \in 1 .. Len(virtual) /\ j < k
      BY <1>4, <1>7, <2>2
    <3> QED BY <1>2, <2>1, <2>2, <3>1, <3>2 DEF ById
  <2>4. CASE e \in Elements(real)
    <3>1. n > 0
      BY <1>4, <2>4 DEF Elements, n
    <3>2. e.id <= real[n].id /\ real[n].id <= v.id
      <4>1. real[n] \in Event
        BY <1>1, <1>4, <3>1, ElementOfSeq DEF n
      <4>2. real[n].id \in Nat /\ v.id \in Nat
        BY <1>1, <1>2, <1>10, <2>1, <2>2, <4>1 DEF Event
      <4>3. virtual[k].id >= real[n].id
        BY <1>7, <3>1
      <4> QED BY <1>7, <2>1, <3>1, <4>2, <4>3
    <3>3. v \in Elements(virtual)
      BY <1>10, <2>1, <2>2
    <3>4. e.id # v.id
      BY <1>3, <2>4, <3>3 DEF Apart
    <3>5. e.id \in Nat /\ v.id \in Nat /\ real[n].id \in Nat
      <4>1. real[n] \in Event /\ e \in Event
        BY <1>1, <1>4, <2>4, <3>1, ElementOfSeq DEF n, Elements
      <4> QED BY <1>1, <1>2, <3>3, <4>1 DEF Event
    <3> QED BY <3>2, <3>4, <3>5
  <2> QED BY <1>7, <1>8, <2>3, <2>4
<1>12. /\ m.out \o rest \in Seq(Event) /\ ById(m.out \o rest)
       /\ Elements(m.out \o rest) = Elements(m.out) \cup Elements(rest)
  BY <1>7, <1>9, <1>11, ConcatOrdered
<1>13. {virtual[j] : j \in 1 .. m.index - 1} \cup {virtual[j] : j \in m.index .. Len(virtual)}
         = Elements(virtual)
  <2>1. 1 .. Len(virtual) = 1 .. m.index - 1 \cup m.index .. Len(virtual)
    BY <1>4, <1>7
  <2> QED BY <2>1 DEF Elements
<1>14. Elements(m.out \o rest) = Elements(real) \cup Elements(virtual)
  BY <1>7, <1>8, <1>9, <1>12, <1>13
<1> QED BY <1>2, <1>6, <1>12, <1>14 DEF real

\* prune takes the events up to an id, and no others.
LEMMA PruneTakes ==
    ASSUME NEW q, Proper(q), NEW k \in Int
    PROVE  /\ Proper(prune(q, k))
           /\ Elements(prune(q, k).queue) = {e \in Elements(q.queue) : e.id > k}
           /\ prune(q, k).virtual_events = q.virtual_events
           /\ prune(q, k).next_event_id = q.next_event_id
           /\ LET gone == {e \in Elements(q.queue) : e.id <= k}
              IN  IF gone = {} THEN prune(q, k) = q
                  ELSE \E g \in gone : /\ prune(q, k).newest_pruned_id = g.id
                                      /\ \A e \in gone : e.id <= g.id
<1> DEFINE n == before(q.queue, 1, k + 1)
           s == q.queue
           gone == {e \in Elements(s) : e.id <= k}
           p == prune(q, k)
<1>1. /\ s \in Seq(Event) /\ ById(s) /\ Len(s) \in Nat
      /\ \A i \in 1 .. Len(s) : s[i] \in Event /\ s[i] \in Elements(s) /\ s[i].id \in Nat
  <2>1. s \in Seq(Event) /\ ById(s)
    BY ProperFields DEF Proper
  <2>2. Len(s) \in Nat
    BY <2>1, LenProperties
  <2>3. \A i \in 1 .. Len(s) : s[i] \in Event
    BY <2>1, ElementOfSeq
  <2> QED BY <2>1, <2>2, <2>3 DEF Elements, Event
<1>2. /\ n \in 0 .. Len(s)
      /\ \A i \in 1 .. n : s[i].id < k + 1
      /\ n < Len(s) => s[n + 1].id >= k + 1
  <2>1. 1 \in 1 .. Len(s) + 1 /\ k + 1 \in Int
    BY <1>1
  <2>2. /\ n \in 1 - 1 .. Len(s)
        /\ \A i \in 1 .. n : s[i].id < k + 1
        /\ n < Len(s) => s[n + 1].id >= k + 1
    <3> HIDE DEF s
    <3> QED BY <1>1, <2>1, BeforeStops DEF s
  <2> QED BY <2>2
<1>3. p = IF n = 0 THEN q
          ELSE [q EXCEPT !.queue = SubSeq(s, n + 1, Len(s)), !.newest_pruned_id = s[n].id]
  BY DEF prune
<1> HIDE DEF n, p
<1>4. \A i \in 1 .. Len(s) : s[i].id <= k <=> i <= n
  <2> SUFFICES ASSUME NEW i \in 1 .. Len(s) PROVE s[i].id <= k <=> i <= n
    OBVIOUS
  <2>1. CASE i <= n
    <3>1. i \in 1 .. n
      BY <1>2, <2>1
    <3> QED BY <1>1, <1>2, <2>1, <3>1
  <2>2. CASE ~ (i <= n)
    <3>1. n + 1 \in 1 .. Len(s) /\ n < Len(s) /\ s[n + 1].id >= k + 1
      BY <1>1, <1>2, <2>2
    <3>2. i = n + 1 \/ n + 1 < i
      BY <1>1, <1>2, <2>2
    <3>3. s[n + 1].id <= s[i].id
      BY <1>1, <3>1, <3>2 DEF ById
    <3>4. s[n + 1].id \in Nat /\ s[i].id \in Nat
      BY <1>1, <3>1
    <3> QED BY <2>2, <3>1, <3>3, <3>4
  <2> QED BY <2>1, <2>2
<1>5. ASSUME n = 0 PROVE p = q /\ gone = {} /\ {e \in Elements(s) : e.id > k} = Elements(s)
  <2>1. \A i \in 1 .. Len(s) : ~ (s[i].id <= k)
    BY <1>4, <1>5
  <2>2. \A e \in Elements(s) : ~ (e.id <= k) /\ e.id > k
    BY <1>1, <2>1 DEF Elements
  <2> QED BY <1>3, <1>5, <2>2
<1>6. ASSUME n # 0
      PROVE  /\ p.queue \in Seq(Event) /\ ById(p.queue)
             /\ Elements(p.queue) = {e \in Elements(s) : e.id > k}
             /\ s[n] \in gone /\ \A e \in gone : e.id <= s[n].id
  <2>1. Typed(q)
    BY DEF Proper
  <2>2. p.queue = SubSeq(s, n + 1, Len(s))
    BY <1>3, <1>6, <2>1 DEF Typed
  <2>3. n + 1 \in 1 .. Len(s) + 1 /\ Len(s) \in n + 1 - 1 .. Len(s) /\ n \in 1 .. Len(s)
    BY <1>1, <1>2, <1>6
  <2>4. /\ p.queue \in Seq(Event) /\ ById(p.queue)
        /\ Elements(p.queue) = {s[i] : i \in n + 1 .. Len(s)}
    <3> HIDE DEF s
    <3> DEFINE a == n + 1
    <3>1. a \in 1 .. Len(s) + 1 /\ Len(s) \in a - 1 .. Len(s)
      BY <2>3
    <3> HIDE DEF a
    <3>2. /\ SubSeq(s, a, Len(s)) \in Seq(Event) /\ ById(SubSeq(s, a, Len(s)))
          /\ Elements(SubSeq(s, a, Len(s))) = {s[i] : i \in a .. Len(s)}
      BY <1>1, <3>1, SubSeqOrdered
    <3> QED BY <2>2, <3>2 DEF a
  <2>5. {s[i] : i \in n + 1 .. Len(s)} = {e \in Elements(s) : e.id > k}
    <3>1. ASSUME NEW i \in n + 1 .. Len(s) PROVE s[i] \in Elements(s) /\ s[i].id > k
      <4>1. i \in 1 .. Len(s) /\ ~ (i <= n)
        BY <1>1, <2>3
      <4> QED BY <1>1, <1>4, <4>1
    <3>2. ASSUME NEW e \in Elements(s), e.id > k PROVE \E i \in n + 1 .. Len(s) : e = s[i]
      <4>1. PICK i \in 1 .. Len(s) : e = s[i]
        BY DEF Elements
      <4>2. ~ (i <= n)
        BY <1>1, <1>4, <3>2, <4>1
      <4>3. i \in n + 1 .. Len(s)
        BY <1>1, <2>3, <4>2
      <4> QED BY <4>1, <4>3
    <3> QED BY <3>1, <3>2
  <2>6. s[n] \in gone
    BY <1>1, <1>4, <2>3
  <2>7. ASSUME NEW e \in gone PROVE e.id <= s[n].id
    <3>1. PICK i \in 1 .. Len(s) : e = s[i]
      BY DEF Elements
    <3>2. i < n \/ i = n
      BY <1>1, <1>4, <2>3, <3>1
    <3> QED BY <1>1, <2>3, <3>1, <3>2 DEF ById
  <2> QED BY <2>4, <2>5, <2>6, <2>7
<1>7. /\ p.virtual_events = q.virtual_events /\ p.next_event_id = q.next_event_id
      /\ n # 0 => p.newest_pruned_id = s[n].id
      /\ Typed(p)
  <2>1. PICK T \in SUBSET VirtualTypes :
           q \in [queue : Seq(Event), virtual_events : [T -> Event],
                 next_event_id : Nat, newest_pruned_id : Nat \cup {-1}]
    BY DEF Proper, Typed
  <2>2. CASE n = 0
    BY <1>5, <2>1, <2>2 DEF Typed
  <2>3. CASE n # 0
    <3>1. s[n].id \in Nat /\ p.queue \in Seq(Event)
      BY <1>1, <1>2, <1>6, <2>3
    <3>2. p = [q EXCEPT !.queue = SubSeq(s, n + 1, Len(s)), !.newest_pruned_id = s[n].id]
      BY <1>3, <2>3
    <3>3. SubSeq(s, n + 1, Len(s)) \in Seq(Event)
      BY <2>1, <3>1, <3>2
    <3>4. p \in [queue : Seq(Event), virtual_events : [T -> Event],
                 next_event_id : Nat, newest_pruned_id : Nat \cup {-1}]
      BY <2>1, <3>1, <3>2, <3>3
    <3> QED BY <2>1, <3>2, <3>4 DEF Typed
  <2> QED BY <2>2, <2>3
<1>8. Elements(p.queue) = {e \in Elements(s) : e.id > k} /\ ById(p.queue)
  BY <1>1, <1>5, <1>6
<1>9. Proper(p)
  <2>1. virtuals(p) = virtuals(q)
    BY <1>7 DEF virtuals
  <2>2. Elements(p.queue) \subseteq Elements(s)
    BY <1>8
  <2> QED BY <1>7, <1>8, <2>1, <2>2 DEF Proper
<1>10. IF gone = {} THEN p = q
       ELSE \E g \in gone : p.newest_pruned_id = g.id /\ \A e \in gone : e.id <= g.id
  BY <1>5, <1>6, <1>7
<1> QED BY <1>7, <1>8, <1>9, <1>10 DEF p

\* What push makes of an event.
Pushed(q, t, messages) ==
    [id |-> q.next_event_id, type |-> t,
     messages |-> IF t \in VirtualTypes THEN messages \cup compressed(q, t) ELSE messages]

LEMMA PushAdds ==
    ASSUME NEW q, Proper(q), NEW t \in Types, NEW c \in SUBSET Messages
    PROVE  LET p == push(q, t, c)
               e == Pushed(q, t, c)
           IN  /\ Proper(p)
               /\ e \in Event
               /\ p.next_event_id = q.next_event_id + 1
               /\ p.newest_pruned_id = q.newest_pruned_id
               /\ t \in VirtualTypes =>
                    /\ p.queue = q.queue
                    /\ virtuals(p) = {v \in virtuals(q) : v.type # t} \cup {e}
               /\ t \notin VirtualTypes =>
                    /\ Elements(p.queue) = Elements(q.queue) \cup {e}
                    /\ virtuals(p) = virtuals(q)
<1> DEFINE p == push(q, t, c)
           e == Pushed(q, t, c)
           D == DOMAIN q.virtual_events
<1>1. PICK T \in SUBSET VirtualTypes :
         q \in [queue : Seq(Event), virtual_events : [T -> Event],
               next_event_id : Nat, newest_pruned_id : Nat \cup {-1}]
  BY DEF Proper, Typed
<1>2. D = T /\ q.virtual_events \in [T -> Event]
  BY <1>1
<1>3. compressed(q, t) \in SUBSET Messages
  BY <1>2 DEF compressed, Event
<1>4. /\ e \in Event /\ e.id = q.next_event_id /\ e.type = t
      /\ q.next_event_id \in Nat /\ q.next_event_id < q.next_event_id + 1
  BY <1>1, <1>3 DEF Pushed, Event
<1>5. /\ \A g \in Elements(q.queue) \cup virtuals(q) : g.id < q.next_event_id /\ g.id \in Nat
      /\ ById(q.queue) /\ Distinct(virtuals(q))
      /\ \A v \in virtuals(q), g \in Elements(q.queue) : v.id # g.id
      /\ \A u \in D : q.virtual_events[u].type = u
  BY ProperFields DEF Proper
<1>6. CASE t \in VirtualTypes
  <2> DEFINE w == [u \in D \cup {t} |-> IF u = t THEN e ELSE q.virtual_events[u]]
  <2>1. p = [q EXCEPT !.next_event_id = q.next_event_id + 1, !.virtual_events = w]
    <3>1. e = [[id |-> q.next_event_id, type |-> t, messages |-> c]
                 EXCEPT !.messages = c \cup compressed(q, t)]
      BY <1>6 DEF Pushed
    <3> HIDE DEF e
    <3>2. [[q EXCEPT !.next_event_id = q.next_event_id + 1] EXCEPT !.virtual_events = w]
           = [q EXCEPT !.next_event_id = q.next_event_id + 1, !.virtual_events = w]
      OBVIOUS
    <3> QED BY <1>1, <1>6, <3>1, <3>2 DEF push
  <2>2. w \in [T \cup {t} -> Event] /\ DOMAIN w = T \cup {t}
    BY <1>2, <1>4
  <2> HIDE DEF w, p, e
  <2>3. /\ p.queue = q.queue /\ p.virtual_events = w
        /\ p.next_event_id = q.next_event_id + 1 /\ p.newest_pruned_id = q.newest_pruned_id
        /\ p \in [queue : Seq(Event), virtual_events : [T \cup {t} -> Event],
                 next_event_id : Nat, newest_pruned_id : Nat \cup {-1}]
    <3> DEFINE N == q.next_event_id + 1
    <3>1. N \in Nat
      BY <1>4
    <3> HIDE DEF N
    <3>2. p = [q EXCEPT !.next_event_id = N, !.virtual_events = w]
      BY <2>1 DEF N
    <3>3. /\ p.queue = q.queue /\ p.virtual_events = w
          /\ p.next_event_id = N /\ p.newest_pruned_id = q.newest_pruned_id
      BY <1>1, <3>2
    <3>4. p \in [queue : Seq(Event), virtual_events : [T \cup {t} -> Event],
                 next_event_id : Nat, newest_pruned_id : Nat \cup {-1}]
      BY <1>1, <2>2, <3>1, <3>2
    <3> QED BY <3>3, <3>4 DEF N
  <2>4. Typed(p)
    BY <1>6, <2>3 DEF Typed
  <2>5. virtuals(p) = {v \in virtuals(q) : v.type # t} \cup {e}
    <3>1. ASSUME NEW u \in T \cup {t}
          PROVE  w[u] \in {v \in virtuals(q) : v.type # t} \cup {e}
      BY <1>2, <1>5 DEF w, virtuals
    <3>2. ASSUME NEW v \in virtuals(q), v.type # t PROVE \E u \in T \cup {t} : w[u] = v
      <4>1. PICK u \in T : v = q.virtual_events[u]
        BY <1>2 DEF virtuals
      <4>2. u # t
        BY <1>2, <1>5, <3>2, <4>1
      <4> QED BY <1>2, <4>1, <4>2 DEF w
    <3>3. w[t] = e
      BY DEF w
    <3>4. virtuals(p) = {w[u] : u \in T \cup {t}}
      BY <2>2, <2>3 DEF virtuals
    <3> QED BY <3>1, <3>2, <3>3, <3>4
  <2>6. \A u \in DOMAIN p.virtual_events : p.virtual_events[u].type = u
    BY <1>2, <1>4, <1>5, <2>2, <2>3 DEF w
  <2>7. \A g \in Elements(q.queue) \cup virtuals(p) : g.id < q.next_event_id + 1
    BY <1>4, <1>5, <2>5
  <2>8. Distinct(virtuals(p))
    <3>1. \A v \in virtuals(q) : v.id # e.id
      BY <1>4, <1>5
    <3> QED BY <1>5, <2>5, <3>1 DEF Distinct
  <2>9. \A v \in virtuals(p), g \in Elements(q.queue) : v.id # g.id
    BY <1>4, <1>5, <2>5
  <2>10. Proper(p)
    BY <1>5, <2>3, <2>4, <2>6, <2>7, <2>8, <2>9 DEF Proper
  <2> QED BY <1>4, <1>6, <2>3, <2>5, <2>10 DEF p, e
<1>7. CASE t \notin VirtualTypes
  <2>1. e = [id |-> q.next_event_id, type |-> t, messages |-> c]
    BY <1>7 DEF Pushed
  <2> HIDE DEF e
  <2>2. p = [q EXCEPT !.next_event_id = q.next_event_id + 1, !.queue = Append(q.queue, e)]
    BY <1>1, <1>7, <2>1 DEF push
  <2> HIDE DEF p
  <2>3. Append(q.queue, e) \in Seq(Event)
    BY <1>1, <1>4, AppendProperties
  <2>4. /\ p.queue = Append(q.queue, e) /\ p.virtual_events = q.virtual_events
        /\ p.next_event_id = q.next_event_id + 1 /\ p.newest_pruned_id = q.newest_pruned_id
        /\ p \in [queue : Seq(Event), virtual_events : [T -> Event],
                 next_event_id : Nat, newest_pruned_id : Nat \cup {-1}]
    <3> DEFINE N == q.next_event_id + 1
               s == Append(q.queue, e)
    <3>1. N \in Nat /\ s \in Seq(Event)
      BY <1>4, <2>3
    <3> HIDE DEF N, s
    <3>2. p = [q EXCEPT !.next_event_id = N, !.queue = s]
      BY <2>2 DEF N, s
    <3>3. /\ p.queue = s /\ p.virtual_events = q.virtual_events
          /\ p.next_event_id = N /\ p.newest_pruned_id = q.newest_pruned_id
      BY <1>1, <3>2
    <3>4. p \in [queue : Seq(Event), virtual_events : [T -> Event],
                 next_event_id : Nat, newest_pruned_id : Nat \cup {-1}]
      BY <1>1, <3>1, <3>2
    <3> QED BY <3>3, <3>4 DEF N, s
  <2>5. Typed(p)
    BY <2>4 DEF Typed
  <2>6. virtuals(p) = virtuals(q)
    BY <2>4 DEF virtuals
  <2>7. ById(p.queue) /\ Elements(p.queue) = Elements(q.queue) \cup {e}
    <3>1. p.queue = q.queue \o <<e>>
      BY <1>1, <1>4, <2>4, AppendIsConcat
    <3>2. <<e>> \in Seq(Event) /\ ById(<<e>>) /\ Elements(<<e>>) = {e}
      BY <1>4, OneEvent
    <3> DEFINE s == q.queue
               r == <<e>>
    <3>3. /\ s \in Seq(Event) /\ ById(s) /\ p.queue = s \o r
          /\ r \in Seq(Event) /\ ById(r) /\ Elements(r) = {e}
          /\ \A g \in Elements(s), h \in Elements(r) : g.id < h.id
      BY <1>1, <1>4, <1>5, <3>1, <3>2
    <3> HIDE DEF s, r
    <3>4. ById(s \o r) /\ Elements(s \o r) = Elements(s) \cup Elements(r)
      BY <3>3, ConcatOrdered
    <3> QED BY <3>3, <3>4 DEF s
  <2>8. \A g \in Elements(p.queue) \cup virtuals(p) : g.id < q.next_event_id + 1
    BY <1>4, <1>5, <2>6, <2>7
  <2>9. \A v \in virtuals(p), g \in Elements(p.queue) : v.id # g.id
    BY <1>4, <1>5, <2>6, <2>7
  <2>10. Proper(p)
    BY <1>5, <2>4, <2>5, <2>6, <2>7, <2>8, <2>9 DEF Proper
  <2> QED BY <1>4, <1>7, <2>4, <2>6, <2>7, <2>10 DEF p, e
<1> QED BY <1>6, <1>7

LEMMA ResolvedProper ==
    ASSUME NEW q, Proper(q)
    PROVE  /\ Proper(resolved(q))
           /\ Elements(resolved(q).queue) = Elements(q.queue) \cup virtuals(q)
           /\ virtuals(resolved(q)) = {}
           /\ resolved(q).queue = contents(q)
           /\ resolved(q).next_event_id = q.next_event_id
           /\ resolved(q).newest_pruned_id = q.newest_pruned_id
<1> DEFINE none == [t \in {} |-> {}]
           p == resolved(q)
<1>1. PICK T \in SUBSET VirtualTypes :
         q \in [queue : Seq(Event), virtual_events : [T -> Event],
               next_event_id : Nat, newest_pruned_id : Nat \cup {-1}]
  BY DEF Proper, Typed
<1>2. /\ contents(q) \in Seq(Event) /\ ById(contents(q))
      /\ Elements(contents(q)) = Elements(q.queue) \cup virtuals(q)
  BY ContentsOrdered
<1>3. none \in [{} -> Event] /\ DOMAIN none = {}
  OBVIOUS
<1>4. p = [q EXCEPT !.queue = contents(q), !.virtual_events = none]
  BY DEF resolved
<1> HIDE DEF none, p
<1>5. /\ p.queue = contents(q) /\ p.virtual_events = none
      /\ p.next_event_id = q.next_event_id /\ p.newest_pruned_id = q.newest_pruned_id
      /\ p \in [queue : Seq(Event), virtual_events : [{} -> Event],
               next_event_id : Nat, newest_pruned_id : Nat \cup {-1}]
  BY <1>1, <1>2, <1>3, <1>4
<1>6. Typed(p)
  <2>1. {} \in SUBSET VirtualTypes
    OBVIOUS
  <2> QED BY <1>5, <2>1 DEF Typed
<1>7. virtuals(p) = {}
  BY <1>3, <1>5 DEF virtuals
<1>8. \A t \in DOMAIN p.virtual_events : p.virtual_events[t].type = t
  BY <1>3, <1>5
<1>9. \A e \in Elements(p.queue) : e.id < p.next_event_id
  BY <1>2, <1>5 DEF Proper
<1>10. Proper(p)
  BY <1>2, <1>5, <1>6, <1>7, <1>8, <1>9 DEF Proper, Distinct
<1> QED BY <1>2, <1>5, <1>7, <1>10 DEF p

(***************************************************************************)
(* The client's dispatch of a batch.                                       *)
(***************************************************************************)
Shown == [Flags -> SUBSET Messages]

LEMMA UpdateTyped ==
    ASSUME NEW flags \in Shown, NEW t, NEW c \in SUBSET Messages
    PROVE  /\ update(flags, t, c) \in Shown
           /\ \A f \in Flags, m \in Messages :
                m \in update(flags, t, c)[f] <=>
                  IF t = FlagType("add", f) THEN m \in c \/ m \in flags[f]
                  ELSE IF t = FlagType("remove", f) THEN m \notin c /\ m \in flags[f]
                  ELSE m \in flags[f]
<1>1. \A f \in Flags :
        update(flags, t, c)[f] =
          IF t = FlagType("add", f) THEN flags[f] \cup c
          ELSE IF t = FlagType("remove", f) THEN flags[f] \ c ELSE flags[f]
  BY DEF update, FlagType
<1>2. \A f \in Flags : flags[f] \in SUBSET Messages
  BY DEF Shown
<1>3. update(flags, t, c) \in Shown
  <2>1. \A f \in Flags : update(flags, t, c)[f] \in SUBSET Messages
    BY <1>1, <1>2
  <2>2. update(flags, t, c) = [f \in Flags |-> update(flags, t, c)[f]]
    BY DEF update
  <2> HIDE DEF update
  <2> QED BY <2>1, <2>2 DEF Shown
<1> QED BY <1>1, <1>3

LEMMA DispatchSteps ==
    ASSUME NEW flags \in Shown, NEW batch \in Seq(Event)
    PROVE  /\ dispatch(flags, batch)[0] = flags
           /\ \A i \in 1 .. Len(batch) :
                dispatch(flags, batch)[i] =
                  update(dispatch(flags, batch)[i - 1], batch[i].type, batch[i].messages)
           /\ \A i \in 0 .. Len(batch) : dispatch(flags, batch)[i] \in Shown
<1> DEFINE n == Len(batch)
           next(x, k) == update(x, batch[k].type, batch[k].messages)
           F == [k \in 1 .. n |-> [x \in Shown |-> next(x, k)]]
           rec(g) == g = [k \in 0 .. n |-> IF k = 0 THEN flags ELSE next(g[k - 1], k)]
<1>1. n \in Nat
  BY LenProperties
<1>2. ASSUME NEW k \in 1 .. n, NEW x \in Shown PROVE next(x, k) \in Shown
  <2>1. batch[k] \in Event
    BY ElementOfSeq
  <2>2. batch[k].messages \in SUBSET Messages
    BY <2>1 DEF Event
  <2> QED BY <2>2, UpdateTyped
<1> HIDE DEF next
<1>3. \A k \in 1 .. n, x \in Shown : F[k][x] = next(x, k)
  OBVIOUS
<1> HIDE DEF F
<1>4. PICK g : Recursion(g, n, Shown, flags, F)
  <2>1. Steps(F, n, Shown)
    BY <1>2, <1>3 DEF Steps
  <2> HIDE DEF n
  <2> QED BY <1>1, <2>1, RecursionExists
<1>5. g \in [0 .. n -> Shown] /\ g[0] = flags
  BY <1>4 DEF Recursion
<1>6. ASSUME NEW k \in 1 .. n PROVE g[k] = next(g[k - 1], k)
  <2>1. k - 1 \in 0 .. n
    BY <1>1
  <2> QED BY <1>3, <1>4, <2>1 DEF Recursion
<1>7. rec(g)
  <2>1. \A k \in 0 .. n : g[k] = IF k = 0 THEN flags ELSE next(g[k - 1], k)
    BY <1>1, <1>5, <1>6
  <2> QED BY <1>5, <2>1
<1>8. dispatch(flags, batch) = CHOOSE h : rec(h)
  BY DEF dispatch, next
<1> DEFINE d == dispatch(flags, batch)
<1> HIDE DEF rec, d
<1>9. rec(d)
  BY <1>7, <1>8 DEF d
<1>10. /\ d[0] = flags
       /\ \A k \in 1 .. n : d[k] = next(d[k - 1], k)
  BY <1>1, <1>9 DEF rec
<1>11. \A k \in 0 .. n : d[k] \in Shown
  <2> DEFINE T == {k \in 0 .. n : d[k] \in Shown}
  <2>1. 0 \in T
    BY <1>1, <1>10
  <2>2. ASSUME NEW k \in 1 .. n, k - 1 \in T PROVE k \in T
    <3>1. d[k] = next(d[k - 1], k) /\ k \in 0 .. n /\ d[k - 1] \in Shown
      BY <1>1, <1>10, <2>2
    <3> QED BY <1>2, <3>1
  <2> HIDE DEF T
  <2>3. 0 .. n \subseteq T
    BY <1>1, <2>1, <2>2, UpTo
  <2> QED BY <2>3 DEF T
<1> QED BY <1>10, <1>11 DEF d, next

\* An event that updates flag f of message m.
Touches(e, op, f, m) == e.type = FlagType(op, f) /\ m \in e.messages

\* Updates in one direction have their effect, wherever they are in the batch,
\* and what no event updates stays.
LEMMA DispatchOneWay ==
    ASSUME NEW flags \in Shown, NEW batch \in Seq(Event),
           NEW f \in Flags, NEW m \in Messages, NEW op \in Updates,
           \A e \in Elements(batch), o \in Updates : Touches(e, o, f, m) => o = op
    PROVE  m \in dispatch(flags, batch)[Len(batch)][f] <=>
             IF \E e \in Elements(batch) : Touches(e, op, f, m) THEN op = "add" ELSE m \in flags[f]
<1> DEFINE n == Len(batch)
           d == dispatch(flags, batch)
           Touched(i) == \E j \in 1 .. i : Touches(batch[j], op, f, m)
           After(i) == m \in d[i][f] <=> IF Touched(i) THEN op = "add" ELSE m \in flags[f]
           T == {i \in 0 .. n : After(i)}
<1> HIDE DEF d
<1>1. n \in Nat /\ \A i \in 1 .. n : batch[i] \in Elements(batch) /\ batch[i].messages \in SUBSET Messages
  <2>1. \A i \in 1 .. n : batch[i] \in Event
    BY ElementOfSeq
  <2> QED BY <2>1, LenProperties DEF Elements, Event
<1>2. 0 \in T
  <2>1. d[0] = flags /\ ~ Touched(0)
    BY DispatchSteps DEF d
  <2> QED BY <1>1, <2>1
<1>3. ASSUME NEW i \in 1 .. n, i - 1 \in T PROVE i \in T
  <2>1. /\ d[i] = update(d[i - 1], batch[i].type, batch[i].messages)
        /\ d[i - 1] \in Shown
    <3>1. i - 1 \in 0 .. n
      BY <1>1
    <3> QED BY <3>1, DispatchSteps DEF d
  <2>2. m \in d[i][f] <=>
          IF batch[i].type = FlagType("add", f) THEN m \in batch[i].messages \/ m \in d[i - 1][f]
          ELSE IF batch[i].type = FlagType("remove", f)
               THEN m \notin batch[i].messages /\ m \in d[i - 1][f]
               ELSE m \in d[i - 1][f]
    BY <1>1, <2>1, UpdateTyped
  <2>3. op = "add" \/ op = "remove"
    BY DEF Updates
  <2>4. FlagType("add", f) # FlagType("remove", f)
    BY DEF FlagType
  <2>5. CASE Touches(batch[i], op, f, m)
    <3>1. m \in d[i][f] <=> op = "add"
      BY <2>2, <2>3, <2>4, <2>5 DEF Touches
    <3>2. Touched(i)
      <4>1. i \in 1 .. i
        BY <1>1
      <4> QED BY <2>5, <4>1
    <3> HIDE DEF Touched
    <3> QED BY <1>1, <3>1, <3>2
  <2>6. CASE ~ Touches(batch[i], op, f, m)
    <3>1. \A o \in Updates : ~ Touches(batch[i], o, f, m)
      BY <1>1, <2>6
    <3>2. m \in d[i][f] <=> m \in d[i - 1][f]
      BY <2>2, <2>4, <3>1 DEF Touches, Updates
    <3>3. Touched(i) <=> Touched(i - 1)
      <4>1. ASSUME NEW j \in 1 .. i, Touches(batch[j], op, f, m) PROVE j \in 1 .. i - 1
        BY <1>1, <2>6, <4>1
      <4>2. \A j \in 1 .. i - 1 : j \in 1 .. i
        BY <1>1
      <4> QED BY <4>1, <4>2
    <3>4. After(i - 1)
      BY <1>3
    <3> HIDE DEF Touched
    <3> QED BY <1>1, <3>2, <3>3, <3>4
  <2> QED BY <2>5, <2>6
<1>4. After(n)
  <2> HIDE DEF T
  <2>1. 0 .. n \subseteq T
    BY <1>1, <1>2, <1>3, UpTo
  <2>2. n \in T
    BY <1>1, <2>1
  <2> QED BY <2>2 DEF T
<1>5. Touched(n) <=> \E e \in Elements(batch) : Touches(e, op, f, m)
  BY DEF Elements
<1> QED BY <1>4, <1>5 DEF d

(***************************************************************************)
(* The inductive invariant: the queue is well formed, and what is still    *)
(* compressed is newer than what the client has processed.                 *)
(***************************************************************************)
Consistent ==
    /\ Proper(eq)
    /\ eq.next_event_id <= MaxEvents
    /\ eq.newest_pruned_id < eq.next_event_id
    /\ last_event_id \in -1 .. eq.next_event_id - 1
    /\ \A v \in virtuals(eq) : v.id > last_event_id
    /\ server_flags \in Shown
    /\ client_flags \in Shown

LEMMA InitConsistent == Init => Consistent
<1> SUFFICES ASSUME Init PROVE Consistent
  OBVIOUS
<1> DEFINE none == [t \in {} |-> {}]
<1>1. none \in [{} -> Event] /\ DOMAIN none = {}
  OBVIOUS
<1> HIDE DEF none
<1>2. eq = [queue |-> <<>>, virtual_events |-> none, next_event_id |-> 0, newest_pruned_id |-> -1]
  BY DEF Init, NewQueue, none
<1>3. /\ eq.queue = <<>> /\ eq.virtual_events = none
      /\ eq.next_event_id = 0 /\ eq.newest_pruned_id = -1
  BY <1>2
<1>4. virtuals(eq) = {} /\ Elements(eq.queue) = {} /\ ById(eq.queue)
  BY <1>1, <1>3 DEF virtuals, Elements, ById
<1>5. Typed(eq)
  <2>1. {} \in SUBSET VirtualTypes /\ <<>> \in Seq(Event)
    OBVIOUS
  <2>2. eq \in [queue : Seq(Event), virtual_events : [{} -> Event],
               next_event_id : Nat, newest_pruned_id : Nat \cup {-1}]
    BY <1>1, <1>2, <2>1
  <2> QED BY <2>1, <2>2 DEF Typed
<1>6. \A t \in DOMAIN eq.virtual_events : eq.virtual_events[t].type = t
  BY <1>1, <1>3
<1>7. Proper(eq)
  BY <1>4, <1>5, <1>6 DEF Proper, Distinct
<1>8. server_flags \in Shown /\ client_flags \in Shown
  BY DEF Init, Shown
<1>9. last_event_id = -1 /\ MaxEvents \in Nat
  BY TypesAssumption DEF Init
<1> QED BY <1>3, <1>4, <1>7, <1>8, <1>9 DEF Consistent

\* What get_events returns, and what it leaves.
LEMMA Round ==
    ASSUME Consistent
    PROVE  LET acked == prune(eq, last_event_id)
               batch == contents(acked)
           IN  /\ Proper(acked) /\ Proper(resolved(acked))
               /\ batch \in Seq(Event) /\ ById(batch)
               /\ Elements(batch) =
                    {e \in Elements(eq.queue) \cup virtuals(eq) : e.id > last_event_id}
               /\ resolved(acked).queue = batch
               /\ virtuals(resolved(acked)) = {}
               /\ resolved(acked).next_event_id = eq.next_event_id
               /\ resolved(acked).newest_pruned_id < eq.next_event_id
<1> DEFINE acked == prune(eq, last_event_id)
           gone == {e \in Elements(eq.queue) : e.id <= last_event_id}
<1>1. Proper(eq) /\ last_event_id \in Int
  BY ProperFields DEF Consistent, Proper
<1>2. /\ Proper(acked)
      /\ Elements(acked.queue) = {e \in Elements(eq.queue) : e.id > last_event_id}
      /\ acked.virtual_events = eq.virtual_events
      /\ acked.next_event_id = eq.next_event_id
      /\ IF gone = {} THEN acked = eq
         ELSE \E g \in gone : acked.newest_pruned_id = g.id /\ \A e \in gone : e.id <= g.id
  BY <1>1, PruneTakes
<1>3. acked.newest_pruned_id < eq.next_event_id
  <2>1. CASE gone = {}
    BY <1>2, <2>1 DEF Consistent
  <2>2. CASE gone # {}
    <3>1. PICK g \in gone : acked.newest_pruned_id = g.id
      BY <1>2, <2>2
    <3> QED BY <1>1, <3>1 DEF Proper
  <2> QED BY <2>1, <2>2
<1> HIDE DEF acked
<1>4. virtuals(acked) = virtuals(eq)
  BY <1>2 DEF virtuals
<1>5. /\ contents(acked) \in Seq(Event) /\ ById(contents(acked))
      /\ Elements(contents(acked)) = Elements(acked.queue) \cup virtuals(acked)
  BY <1>2, ContentsOrdered
<1>6. /\ Proper(resolved(acked))
      /\ virtuals(resolved(acked)) = {}
      /\ resolved(acked).queue = contents(acked)
      /\ resolved(acked).next_event_id = acked.next_event_id
      /\ resolved(acked).newest_pruned_id = acked.newest_pruned_id
  BY <1>2, ResolvedProper
<1>7. Elements(contents(acked)) =
        {e \in Elements(eq.queue) \cup virtuals(eq) : e.id > last_event_id}
  BY <1>2, <1>4, <1>5 DEF Consistent
<1> QED BY <1>2, <1>3, <1>5, <1>6, <1>7 DEF acked

\* The client's acknowledgement covers the whole batch.
LEMMA FetchAcknowledges ==
    ASSUME Consistent, Fetch
    PROVE  LET batch == contents(prune(eq, last_event_id))
           IN  /\ last_event_id' \in last_event_id .. eq.next_event_id - 1
               /\ \A e \in Elements(batch) : e.id <= last_event_id'
               /\ Elements(batch) = {} => last_event_id' = last_event_id
<1> DEFINE batch == contents(prune(eq, last_event_id))
<1>1. /\ batch \in Seq(Event) /\ ById(batch)
      /\ Elements(batch) = {e \in Elements(eq.queue) \cup virtuals(eq) : e.id > last_event_id}
  BY Round
<1>2. last_event_id' = IF batch = <<>> THEN last_event_id ELSE batch[Len(batch)].id
  BY DEF Fetch
<1> HIDE DEF batch
<1>3. /\ eq.next_event_id \in Nat
      /\ last_event_id \in Int /\ last_event_id <= eq.next_event_id - 1
      /\ \A e \in Elements(batch) : e.id \in Nat /\ e.id < eq.next_event_id /\ e.id > last_event_id
  BY <1>1, ProperFields DEF Consistent, Proper
<1>4. CASE batch = <<>>
  <2>1. Elements(batch) = {}
    BY <1>4 DEF Elements
  <2> QED BY <1>2, <1>3, <1>4, <2>1 DEF batch
<1>5. CASE batch # <<>>
  <2>1. Len(batch) \in Nat /\ Len(batch) \in 1 .. Len(batch)
    BY <1>1, <1>5, EmptySeq
  <2>2. batch[Len(batch)] \in Elements(batch)
    BY <2>1 DEF Elements
  <2>3. ASSUME NEW e \in Elements(batch) PROVE e.id <= batch[Len(batch)].id
    <3>1. PICK i \in 1 .. Len(batch) : e = batch[i]
      BY DEF Elements
    <3>2. i = Len(batch) \/ i < Len(batch)
      BY <2>1
    <3>3. e.id \in Nat /\ batch[Len(batch)].id \in Nat
      BY <1>3, <2>2
    <3> QED BY <1>1, <2>1, <3>1, <3>2, <3>3 DEF ById
  <2>4. Elements(batch) # {}
    BY <2>2
  <2>5. batch[Len(batch)].id \in last_event_id .. eq.next_event_id - 1
    BY <1>3, <2>2
  <2> QED BY <1>2, <1>5, <2>3, <2>4, <2>5 DEF batch
<1> QED BY <1>4, <1>5

LEMMA PushConsistent ==
    ASSUME Consistent, NEW t \in Types, NEW m \in Messages, Push(t, m)
    PROVE  Consistent'
<1> DEFINE e == Pushed(eq, t, {m})
<1>1. eq' = push(eq, t, {m}) /\ eq.next_event_id < MaxEvents
  BY DEF Push
<1>2. /\ Proper(eq') /\ e \in Event
      /\ eq'.next_event_id = eq.next_event_id + 1
      /\ eq'.newest_pruned_id = eq.newest_pruned_id
      /\ virtuals(eq') \subseteq virtuals(eq) \cup {e}
  <2>1. Proper(eq) /\ {m} \in SUBSET Messages
    BY DEF Consistent
  <2> QED BY <1>1, <2>1, PushAdds
<1>3. e.id = eq.next_event_id
  BY DEF Pushed
<1> HIDE DEF e
<1>4. /\ eq.next_event_id \in Nat /\ MaxEvents \in Nat
      /\ eq.newest_pruned_id \in Int /\ eq.newest_pruned_id < eq.next_event_id
      /\ last_event_id \in -1 .. eq.next_event_id - 1
  BY TypesAssumption, ProperFields DEF Consistent, Proper
<1>5. UNCHANGED <<client_flags, last_event_id>> /\ server_flags' = update(server_flags, t, {m})
  BY DEF Push
<1>6. server_flags' \in Shown /\ client_flags' \in Shown
  BY <1>5, UpdateTyped DEF Consistent
<1>7. \A v \in virtuals(eq') : v.id > last_event_id'
  BY <1>2, <1>3, <1>4, <1>5 DEF Consistent
<1> QED BY <1>1, <1>2, <1>4, <1>5, <1>6, <1>7 DEF Consistent, virtuals

LEMMA FetchConsistent ==
    ASSUME Consistent, Fetch
    PROVE  Consistent'
<1> DEFINE acked == prune(eq, last_event_id)
           batch == contents(acked)
<1>1. /\ Proper(eq') /\ virtuals(eq') = {}
      /\ eq'.next_event_id = eq.next_event_id
      /\ eq'.newest_pruned_id < eq'.next_event_id
      /\ batch \in Seq(Event)
  BY Round DEF Fetch
<1>2. last_event_id' \in last_event_id .. eq.next_event_id - 1
  BY FetchAcknowledges
<1>3. eq.next_event_id \in Nat /\ last_event_id \in -1 .. eq.next_event_id - 1
  BY ProperFields DEF Consistent, Proper
<1>4. client_flags' = dispatch(client_flags, batch)[Len(batch)] /\ server_flags' = server_flags
  BY DEF Fetch
<1> HIDE DEF batch
<1>5. client_flags' \in Shown /\ server_flags' \in Shown
  <2>1. Len(batch) \in 0 .. Len(batch)
    BY <1>1, LenProperties
  <2> QED BY <1>1, <1>4, <2>1, DispatchSteps DEF Consistent
<1>6. last_event_id' \in -1 .. eq'.next_event_id - 1
  BY <1>1, <1>2, <1>3
<1> QED BY <1>1, <1>5, <1>6 DEF Consistent, virtuals

LEMMA StepConsistent == Consistent /\ [Next]_vars => Consistent'
<1> SUFFICES ASSUME Consistent, [Next]_vars PROVE Consistent'
  OBVIOUS
<1>1. CASE UNCHANGED vars
  BY <1>1 DEF vars, Consistent, virtuals
<1> QED BY <1>1, PushConsistent, FetchConsistent DEF Next

\* The queue is well formed, and what is compressed is still to be fetched,
\* after any pushes and fetches (EventQueue.push, EventQueue.contents).
THEOREM WellFormed == Spec => []Consistent
BY InitConsistent, StepConsistent, PTL DEF Spec

\* The queue, the flags and the acknowledgement have their types.
THEOREM TypeCorrect == Spec => []TypeOK
<1>1. Consistent => TypeOK
  <2> SUFFICES ASSUME Consistent PROVE TypeOK
    OBVIOUS
  <2>1. PICK T \in SUBSET VirtualTypes :
           eq \in [queue : Seq(Event), virtual_events : [T -> Event],
                  next_event_id : Nat, newest_pruned_id : Nat \cup {-1}]
    BY DEF Consistent, Proper, Typed
  <2>2. eq.next_event_id \in 0 .. MaxEvents /\ MaxEvents \in Nat
    BY <2>1, TypesAssumption DEF Consistent
  <2>3. eq.newest_pruned_id \in -1 .. MaxEvents - 1 /\ last_event_id \in -1 .. MaxEvents - 1
    BY <2>1, <2>2 DEF Consistent
  <2>4. eq \in [queue : Seq(Event), virtual_events : [T -> Event],
               next_event_id : 0 .. MaxEvents, newest_pruned_id : -1 .. MaxEvents - 1]
    BY <2>1, <2>2, <2>3
  <2> QED BY <2>1, <2>3, <2>4 DEF TypeOK, Consistent, Shown
<1> QED BY <1>1, WellFormed, PTL

\* The events of a response are in id order, all newer than what the client
\* has processed (EventQueue.contents, EventQueue.prune).
THEOREM ResponsesAreOrdered == Spec => []ResponsesInIdOrder
<1>1. Consistent => ResponsesInIdOrder
  <2> SUFFICES ASSUME Consistent PROVE ResponsesInIdOrder
    OBVIOUS
  <2> DEFINE batch == contents(prune(eq, last_event_id))
  <2>1. /\ batch \in Seq(Event) /\ ById(batch)
        /\ Elements(batch) = {e \in Elements(eq.queue) \cup virtuals(eq) : e.id > last_event_id}
    BY Round
  <2> HIDE DEF batch
  <2>2. ASSUME NEW i \in 1 .. Len(batch)
        PROVE  batch[i].id \in last_event_id + 1 .. eq.next_event_id - 1
    <3>1. batch[i] \in Elements(batch)
      BY DEF Elements
    <3>2. /\ batch[i].id > last_event_id /\ batch[i].id < eq.next_event_id
          /\ batch[i].id \in Nat /\ eq.next_event_id \in Nat
      BY <2>1, <3>1, ProperFields DEF Consistent, Proper
    <3> QED BY <3>2 DEF Consistent
  <2> QED BY <2>1, <2>2 DEF ResponsesInIdOrder, batch
<1> QED BY <1>1, WellFormed, PTL

(***************************************************************************)
(* The queue implements the set of events.                                 *)
(***************************************************************************)
AbsEvent(e) == [id |-> e.id, type |-> e.type, content |-> e.messages]

AbsSet(E) == {AbsEvent(e) : e \in E}

LEMMA AbsFields ==
    ASSUME NEW q
    PROVE  /\ Abs(q).queue = AbsSet(Elements(q.queue))
           /\ Abs(q).virtual_events = AbsSet(virtuals(q))
           /\ Abs(q).next_event_id = q.next_event_id
           /\ Abs(q).newest_pruned_id = q.newest_pruned_id
           /\ Abs(q) = [queue |-> AbsSet(Elements(q.queue)),
                        virtual_events |-> AbsSet(virtuals(q)),
                        next_event_id |-> q.next_event_id,
                        newest_pruned_id |-> q.newest_pruned_id]
BY DEF Abs, AbsSet, AbsEvent

\* Fields of a queue replaced, one or two.
Fields(q, v, i, j) ==
    [queue |-> q, virtual_events |-> v, next_event_id |-> i, newest_pruned_id |-> j]

LEMMA ReplacedOnce ==
    \A q, v, i, j, z :
       /\ [Fields(q, v, i, j) EXCEPT !.queue = z] = Fields(z, v, i, j)
       /\ [Fields(q, v, i, j) EXCEPT !.virtual_events = z] = Fields(q, z, i, j)
       /\ [Fields(q, v, i, j) EXCEPT !.next_event_id = z] = Fields(q, v, z, j)
       /\ [Fields(q, v, i, j) EXCEPT !.newest_pruned_id = z] = Fields(q, v, i, z)
BY DEF Fields

LEMMA Replaced ==
    ASSUME NEW Q, NEW V, NEW n, NEW k, NEW x, NEW y, NEW a,
           a = [queue |-> Q, virtual_events |-> V, next_event_id |-> n, newest_pruned_id |-> k]
    PROVE  /\ [a EXCEPT !.next_event_id = x, !.virtual_events = y] =
                 [queue |-> Q, virtual_events |-> y, next_event_id |-> x, newest_pruned_id |-> k]
           /\ [a EXCEPT !.next_event_id = x, !.queue = y] =
                 [queue |-> y, virtual_events |-> V, next_event_id |-> x, newest_pruned_id |-> k]
           /\ [a EXCEPT !.queue = x, !.virtual_events = y] =
                 [queue |-> x, virtual_events |-> y, next_event_id |-> n, newest_pruned_id |-> k]
<1> DEFINE b == [a EXCEPT !.next_event_id = x]
           c == [a EXCEPT !.queue = x]
<1>1. a = Fields(Q, V, n, k)
  BY DEF Fields
<1>2. b = Fields(Q, V, x, k) /\ c = Fields(x, V, n, k)
  BY <1>1, ReplacedOnce
<1> HIDE DEF b, c
<1>3. [b EXCEPT !.virtual_events = y] = Fields(Q, y, x, k)
  BY <1>2, ReplacedOnce
<1>4. [b EXCEPT !.queue = y] = Fields(y, V, x, k)
  BY <1>2, ReplacedOnce
<1>5. [c EXCEPT !.virtual_events = y] = Fields(x, y, n, k)
  BY <1>2, ReplacedOnce
<1> QED BY <1>3, <1>4, <1>5 DEF b, c, Fields

LEMMA Cut ==
    ASSUME NEW Q, NEW V, NEW n, NEW k, NEW x, NEW y, NEW a,
           a = [queue |-> Q, virtual_events |-> V, next_event_id |-> n, newest_pruned_id |-> k]
    PROVE  [a EXCEPT !.queue = x, !.newest_pruned_id = y] =
             [queue |-> x, virtual_events |-> V, next_event_id |-> n, newest_pruned_id |-> y]
<1> DEFINE c == [a EXCEPT !.queue = x]
<1>1. a = Fields(Q, V, n, k)
  BY DEF Fields
<1>2. c = Fields(x, V, n, k)
  BY <1>1, ReplacedOnce
<1> HIDE DEF c
<1>3. [c EXCEPT !.newest_pruned_id = y] = Fields(x, V, n, y)
  BY <1>2, ReplacedOnce
<1> QED BY <1>3 DEF c, Fields

LEMMA PushRefines ==
    ASSUME NEW q, Proper(q), NEW t \in Types, NEW c \in SUBSET Messages
    PROVE  Abs(push(q, t, c)) = A!push(Abs(q), t, c)
<1> DEFINE p == push(q, t, c)
           e == Pushed(q, t, c)
           V == virtuals(q)
           same == {v \in AbsSet(V) : t \in VirtualTypes /\ v.type = t}
           new == [id |-> q.next_event_id, type |-> t,
                   content |-> c \cup UNION {v.content : v \in same}]
<1>1. /\ e \in Event
      /\ p.next_event_id = q.next_event_id + 1
      /\ p.newest_pruned_id = q.newest_pruned_id
      /\ t \in VirtualTypes =>
           /\ p.queue = q.queue
           /\ virtuals(p) = {v \in V : v.type # t} \cup {e}
      /\ t \notin VirtualTypes =>
           /\ Elements(p.queue) = Elements(q.queue) \cup {e}
           /\ virtuals(p) = V
  BY PushAdds
<1> DEFINE a == Abs(q)
           Q == AbsSet(Elements(q.queue))
           N == q.next_event_id + 1
<1>2. /\ t \in VirtualTypes =>
           A!push(a, t, c) = [queue |-> Q, virtual_events |-> (AbsSet(V) \ same) \cup {new},
                              next_event_id |-> N, newest_pruned_id |-> q.newest_pruned_id]
      /\ t \notin VirtualTypes =>
           A!push(a, t, c) = [queue |-> Q \cup {new}, virtual_events |-> AbsSet(V),
                              next_event_id |-> N, newest_pruned_id |-> q.newest_pruned_id]
  <2>1. A!merged(a, t) = same
    BY AbsFields DEF A!merged
  <2>2. A!numbered(a, t, c) = new
    BY <2>1, AbsFields DEF A!numbered, A!Contents
  <2>3. /\ a = [queue |-> Q, virtual_events |-> AbsSet(V),
                next_event_id |-> q.next_event_id, newest_pruned_id |-> q.newest_pruned_id]
        /\ a.queue = Q /\ a.virtual_events = AbsSet(V) /\ a.next_event_id + 1 = N
    BY AbsFields
  <2> HIDE DEF same, new, V, a, Q, N
  <2>4. ASSUME t \in VirtualTypes
        PROVE  A!push(a, t, c) =
                 [a EXCEPT !.next_event_id = N, !.virtual_events = (AbsSet(V) \ same) \cup {new}]
    BY <2>1, <2>2, <2>3, <2>4 DEF A!push
  <2>5. ASSUME t \notin VirtualTypes
        PROVE  A!push(a, t, c) = [a EXCEPT !.next_event_id = N, !.queue = Q \cup {new}]
    BY <2>1, <2>2, <2>3, <2>5 DEF A!push
  <2> QED BY <2>3, <2>4, <2>5, Replaced
<1>3. e.id = q.next_event_id /\ e.type = t
      /\ e.messages = IF t \in VirtualTypes THEN c \cup compressed(q, t) ELSE c
  BY DEF Pushed
<1>4. AbsEvent(e) = new
  <2>1. CASE t \notin VirtualTypes
    <3>1. UNION {v.content : v \in same} = {}
      BY <2>1
    <3> QED BY <1>3, <2>1, <3>1 DEF AbsEvent
  <2>2. CASE t \in VirtualTypes
    <3> DEFINE D == DOMAIN q.virtual_events
    <3>1. V = {q.virtual_events[u] : u \in D} /\ \A u \in D : q.virtual_events[u].type = u
      BY DEF virtuals, Proper
    <3> HIDE DEF V
    <3>2. ASSUME NEW x \in UNION {v.content : v \in same} PROVE x \in compressed(q, t)
      <4>1. PICK v \in V : v.type = t /\ x \in v.messages
        BY <3>2, <2>2 DEF AbsSet, AbsEvent
      <4>2. t \in D /\ v = q.virtual_events[t]
        BY <3>1, <4>1
      <4> QED BY <4>1, <4>2 DEF compressed
    <3>3. ASSUME NEW x \in compressed(q, t) PROVE x \in UNION {v.content : v \in same}
      <4>1. t \in D /\ x \in q.virtual_events[t].messages
        BY <3>3 DEF compressed
      <4> DEFINE w == AbsEvent(q.virtual_events[t])
      <4>2. w \in AbsSet(V) /\ w.type = t /\ w.content = q.virtual_events[t].messages
        BY <3>1, <4>1 DEF AbsSet, AbsEvent
      <4>3. w \in same
        BY <2>2, <4>2
      <4> HIDE DEF w, same
      <4> QED BY <4>1, <4>2, <4>3
    <3>4. UNION {v.content : v \in same} = compressed(q, t)
      BY <3>2, <3>3
    <3> HIDE DEF same
    <3> QED BY <1>3, <2>2, <3>4 DEF AbsEvent
  <2> QED BY <2>1, <2>2
<1>5. Abs(p) = [queue |-> AbsSet(Elements(p.queue)), virtual_events |-> AbsSet(virtuals(p)),
                next_event_id |-> q.next_event_id + 1, newest_pruned_id |-> q.newest_pruned_id]
  BY <1>1, AbsFields
<1> HIDE DEF new, p, e
<1>6. CASE t \in VirtualTypes
  <2>1. AbsSet(virtuals(p)) = (AbsSet(V) \ same) \cup {new}
    <3> HIDE DEF V
    <3> USE DEF AbsSet
    <3>1. \A v : AbsEvent(v).type = v.type
      BY DEF AbsEvent
    <3>2. AbsSet({v \in V : v.type # t}) = AbsSet(V) \ same
      BY <1>6, <3>1
    <3>3. AbsSet({v \in V : v.type # t} \cup {e}) = AbsSet({v \in V : v.type # t}) \cup {AbsEvent(e)}
      OBVIOUS
    <3> HIDE DEF AbsSet, same
    <3> QED BY <1>1, <1>4, <1>6, <3>2, <3>3
  <2> HIDE DEF same, V, a, N
  <2> QED BY <1>1, <1>2, <1>5, <1>6, <2>1 DEF p, a, N
<1>7. CASE t \notin VirtualTypes
  <2>1. AbsSet(Elements(p.queue)) = AbsSet(Elements(q.queue)) \cup {new}
    BY <1>1, <1>4, <1>7 DEF AbsSet
  <2> HIDE DEF same, V, a, N
  <2> QED BY <1>1, <1>2, <1>5, <1>7, <2>1 DEF p, a, N
<1> QED BY <1>6, <1>7

LEMMA PruneRefines ==
    ASSUME NEW q, Proper(q), NEW k \in Int
    PROVE  Abs(prune(q, k)) = A!prune(Abs(q), k)
<1> DEFINE p == prune(q, k)
           E == Elements(q.queue)
           gone == {e \in E : e.id <= k}
           absGone == {e \in AbsSet(E) : e.id <= k}
<1>1. /\ Elements(p.queue) = {e \in E : e.id > k}
      /\ p.virtual_events = q.virtual_events
      /\ p.next_event_id = q.next_event_id
      /\ IF gone = {} THEN p = q
         ELSE \E g \in gone : p.newest_pruned_id = g.id /\ \A e \in gone : e.id <= g.id
  BY PruneTakes
<1>2. \A e \in E : e.id \in Nat
  BY ProperFields DEF Proper
<1>3. absGone = AbsSet(gone)
  BY DEF AbsSet, AbsEvent
<1>4. AbsSet(Elements(p.queue)) = AbsSet(E) \ absGone
  <2> HIDE DEF p
  <2>1. \A e \in E : ~ (e.id <= k) <=> e.id > k
    BY <1>2
  <2>2. \A v : AbsEvent(v).id = v.id
    BY DEF AbsEvent
  <2>3. \A e \in E : AbsEvent(e) \notin absGone <=> e.id > k
    BY <2>1, <2>2 DEF AbsSet
  <2> QED BY <1>1, <2>3 DEF AbsSet
<1>5. A!prune(Abs(q), k) =
        IF absGone = {} THEN Abs(q)
        ELSE [queue |-> AbsSet(E) \ absGone, virtual_events |-> AbsSet(virtuals(q)),
              next_event_id |-> q.next_event_id, newest_pruned_id |-> A!MaxId(absGone)]
  <2> DEFINE a == Abs(q)
             Q == AbsSet(E)
  <2>1. absGone = {e \in a.queue : e.id <= k} /\ a.queue = Q
    BY AbsFields
  <2>2. a = [queue |-> Q, virtual_events |-> AbsSet(virtuals(q)),
             next_event_id |-> q.next_event_id, newest_pruned_id |-> q.newest_pruned_id]
    BY AbsFields
  <2> DEFINE left == Q \ absGone
             newest == A!MaxId(absGone)
  <2> HIDE DEF absGone, a, Q
  <2>3. ASSUME absGone = {} PROVE A!prune(a, k) = a
    BY <2>1, <2>3 DEF A!prune
  <2>4. ASSUME absGone # {}
        PROVE  A!prune(a, k) = [a EXCEPT !.queue = left, !.newest_pruned_id = newest]
    BY <2>1, <2>4 DEF A!prune
  <2> HIDE DEF left, newest
  <2>5. ASSUME absGone # {}
        PROVE  A!prune(a, k) =
                 [queue |-> left, virtual_events |-> AbsSet(virtuals(q)),
                  next_event_id |-> q.next_event_id, newest_pruned_id |-> newest]
    BY <2>2, <2>4, <2>5, Cut
  <2> QED BY <2>3, <2>5 DEF a, Q, left, newest
<1> HIDE DEF p, gone, absGone
<1>6. CASE gone = {}
  <2>1. absGone = {}
    BY <1>3, <1>6 DEF AbsSet
  <2> QED BY <1>1, <1>5, <1>6, <2>1 DEF p
<1>7. CASE gone # {}
  <2>1. PICK g \in gone : p.newest_pruned_id = g.id /\ \A e \in gone : e.id <= g.id
    BY <1>1, <1>7
  <2>2. absGone # {}
    BY <1>3, <2>1 DEF AbsSet
  <2>3. A!Ids(absGone) = {e.id : e \in gone}
    <3>1. \A v : AbsEvent(v).id = v.id
      BY DEF AbsEvent
    <3>2. A!Ids(AbsSet(gone)) = {e.id : e \in gone}
      BY <3>1 DEF A!Ids, AbsSet
    <3> QED BY <1>3, <3>2
  <2>4. \A e \in gone : e.id \in Nat
    BY <1>2 DEF gone
  <2>5. A!MaxId(absGone) = g.id
    <3>1. \A i \in {e.id : e \in gone} :
            (\A j \in {e.id : e \in gone} : j <= i) => i = g.id
      BY <2>1, <2>4
    <3>2. g.id \in {e.id : e \in gone} /\ \A j \in {e.id : e \in gone} : j <= g.id
      BY <2>1
    <3> QED BY <2>3, <3>1, <3>2 DEF A!MaxId
  <2>6. virtuals(p) = virtuals(q)
    BY <1>1 DEF virtuals
  <2>7. Abs(p) = [queue |-> AbsSet(E) \ absGone, virtual_events |-> AbsSet(virtuals(q)),
                  next_event_id |-> q.next_event_id, newest_pruned_id |-> g.id]
    BY <1>1, <1>4, <2>1, <2>6, AbsFields
  <2> QED BY <1>5, <2>2, <2>5, <2>7 DEF p
<1> QED BY <1>6, <1>7

LEMMA ResolveRefines ==
    ASSUME NEW q, Proper(q)
    PROVE  Abs(resolved(q)) = A!resolve(Abs(q))
<1> DEFINE p == resolved(q)
<1>1. /\ Elements(p.queue) = Elements(q.queue) \cup virtuals(q)
      /\ virtuals(p) = {}
      /\ p.next_event_id = q.next_event_id
      /\ p.newest_pruned_id = q.newest_pruned_id
  BY ResolvedProper
<1> HIDE DEF p
<1>2. AbsSet(Elements(p.queue)) = AbsSet(Elements(q.queue)) \cup AbsSet(virtuals(q))
      /\ AbsSet(virtuals(p)) = {}
  BY <1>1 DEF AbsSet
<1>3. Abs(p) = [queue |-> AbsSet(Elements(q.queue)) \cup AbsSet(virtuals(q)),
                virtual_events |-> {},
                next_event_id |-> q.next_event_id, newest_pruned_id |-> q.newest_pruned_id]
  BY <1>1, <1>2, AbsFields
<1> DEFINE a == Abs(q)
           Q == AbsSet(Elements(q.queue)) \cup AbsSet(virtuals(q))
<1>4. A!resolve(a) =
        [queue |-> Q, virtual_events |-> {},
         next_event_id |-> q.next_event_id, newest_pruned_id |-> q.newest_pruned_id]
  <2>1. A!events(a) = Q
    BY AbsFields DEF A!events
  <2>2. a = [queue |-> AbsSet(Elements(q.queue)), virtual_events |-> AbsSet(virtuals(q)),
             next_event_id |-> q.next_event_id, newest_pruned_id |-> q.newest_pruned_id]
    BY AbsFields
  <2> HIDE DEF a, Q
  <2>3. A!resolve(a) = [a EXCEPT !.queue = Q, !.virtual_events = {}]
    BY <2>1 DEF A!resolve
  <2> QED BY <2>2, <2>3, Replaced
<1> QED BY <1>3, <1>4 DEF p

\* The deque, the virtual events and the merge loop implement a set of events
\* that is pushed to, pruned and read (AbstractEventQueue).
THEOREM Refinement == Spec => ImplementsSet
<1>1. Init => A!Init
  <2> SUFFICES ASSUME Init PROVE A!Init
    OBVIOUS
  <2> DEFINE none == [t \in {} |-> {}]
  <2>1. DOMAIN none = {}
    OBVIOUS
  <2> HIDE DEF none
  <2>2. eq = [queue |-> <<>>, virtual_events |-> none, next_event_id |-> 0, newest_pruned_id |-> -1]
    BY DEF Init, NewQueue, none
  <2>3. Elements(eq.queue) = {} /\ virtuals(eq) = {}
    BY <2>1, <2>2 DEF Elements, virtuals
  <2>4. AbsSet({}) = {}
    BY DEF AbsSet
  <2>5. Abs(eq) = [queue |-> {}, virtual_events |-> {}, next_event_id |-> 0, newest_pruned_id |-> -1]
    BY <2>2, <2>3, <2>4, AbsFields
  <2> QED BY <2>5 DEF A!Init, A!EmptyQueue
<1>2. Consistent /\ [Next]_vars => [A!Next]_(Abs(eq))
  <2> SUFFICES ASSUME Consistent, [Next]_vars PROVE [A!Next]_(Abs(eq))
    OBVIOUS
  <2>1. ASSUME NEW t \in Types, NEW m \in Messages, Push(t, m) PROVE A!Next
    <3>1. eq' = push(eq, t, {m}) /\ Proper(eq) /\ {m} \in SUBSET Messages
      BY <2>1 DEF Push, Consistent
    <3>2. Abs(eq') = A!push(Abs(eq), t, {m})
      BY <3>1, PushRefines
    <3> QED BY <3>2 DEF A!Next, A!Push, Abs, virtuals
  <2>2. CASE Fetch
    <3> DEFINE acked == prune(eq, last_event_id)
    <3>1. eq' = resolved(acked) /\ Proper(eq) /\ Proper(acked) /\ last_event_id \in Int
          /\ last_event_id \in -1 .. eq.next_event_id
      <4>1. last_event_id \in -1 .. eq.next_event_id - 1 /\ eq.next_event_id \in Nat
        BY ProperFields DEF Consistent, Proper
      <4> QED BY <2>2, <4>1, Round DEF Fetch, Consistent
    <3> HIDE DEF acked
    <3>2. Abs(eq') = A!resolve(Abs(acked))
      BY <3>1, ResolveRefines
    <3>3. Abs(acked) = A!prune(Abs(eq), last_event_id)
      BY <3>1, PruneRefines DEF acked
    <3>4. Abs(eq') = A!resolve(A!prune(Abs(eq), last_event_id))
      BY <3>2, <3>3
    <3>5. last_event_id \in -1 .. Abs(eq).next_event_id
      BY <3>1, AbsFields
    <3> QED BY <3>4, <3>5 DEF A!Next, A!Fetch, Abs, virtuals
  <2>3. CASE UNCHANGED vars
    BY <2>3 DEF vars, Abs, virtuals
  <2> QED BY <2>1, <2>2, <2>3 DEF Next
<1> QED BY <1>1, <1>2, WellFormed, PTL DEF Spec, ImplementsSet, A!Spec

(***************************************************************************)
(* Updates of a flag in one direction arrive.                              *)
(***************************************************************************)
Events(q) == Elements(q.queue) \cup virtuals(q)

\* An event the client has not processed makes update op of flag f of m.
Pending(q, last, op, f, m) == \E e \in Events(q) : e.id > last /\ Touches(e, op, f, m)

LEMMA UnseenPending ==
    ASSUME NEW f, NEW m
    PROVE  /\ Unseen(f, m) = {op \in Updates : Pending(eq, last_event_id, op, f, m)}
           /\ Unseen(f, m)' = {op \in Updates : Pending(eq', last_event_id', op, f, m)}
BY DEF Unseen, Pending, Events, Touches, virtuals

\* The database and the pending updates agree where these go one way.
OneWay ==
    \A f \in Flags, m \in Messages, op \in Updates :
       Unseen(f, m) = {op} => (m \in server_flags[f] <=> op = "add")

\* push makes one more update pending, compressed or not.
LEMMA PushPending ==
    ASSUME NEW q, Proper(q), NEW last \in Int, last < q.next_event_id,
           \A v \in virtuals(q) : v.id > last,
           NEW t \in Types, NEW c \in SUBSET Messages, NEW op, NEW f, NEW m
    PROVE  Pending(push(q, t, c), last, op, f, m) <=>
             Pending(q, last, op, f, m) \/ (t = FlagType(op, f) /\ m \in c)
<1> DEFINE p == push(q, t, c)
           e == Pushed(q, t, c)
           D == DOMAIN q.virtual_events
<1>1. /\ t \in VirtualTypes =>
           /\ p.queue = q.queue
           /\ virtuals(p) = {v \in virtuals(q) : v.type # t} \cup {e}
      /\ t \notin VirtualTypes =>
           /\ Elements(p.queue) = Elements(q.queue) \cup {e}
           /\ virtuals(p) = virtuals(q)
  BY PushAdds
<1>2. /\ e.id > last /\ e.type = t
      /\ e.messages = IF t \in VirtualTypes THEN c \cup compressed(q, t) ELSE c
  BY DEF Pushed
<1>3. \A x \in compressed(q, t) :
        t \in D /\ q.virtual_events[t] \in virtuals(q) /\ x \in q.virtual_events[t].messages
        /\ q.virtual_events[t].type = t
  BY DEF compressed, virtuals, Proper
<1>4. \A v \in virtuals(q) : v.type = t => v.messages = compressed(q, t)
  BY DEF compressed, virtuals, Proper
<1> HIDE DEF p, e
<1>5. e \in Events(p)
  BY <1>1 DEF Events
<1>6. ASSUME Pending(p, last, op, f, m)
      PROVE  Pending(q, last, op, f, m) \/ (t = FlagType(op, f) /\ m \in c)
  <2>1. PICK x \in Events(p) : x.id > last /\ Touches(x, op, f, m)
    BY <1>6 DEF Pending
  <2>2. CASE x \in Events(q)
    BY <2>1, <2>2 DEF Pending
  <2>3. CASE x = e
    <3>1. t = FlagType(op, f) /\ m \in e.messages
      BY <1>2, <2>1, <2>3 DEF Touches
    <3>2. CASE m \in c
      BY <3>1, <3>2
    <3>3. CASE m \notin c
      <4>1. m \in compressed(q, t)
        BY <1>2, <3>1, <3>3
      <4>2. /\ q.virtual_events[t] \in virtuals(q) /\ q.virtual_events[t].id > last
            /\ Touches(q.virtual_events[t], op, f, m)
        BY <1>3, <3>1, <4>1 DEF Touches
      <4> QED BY <4>2 DEF Pending, Events
    <3> QED BY <3>2, <3>3
  <2>4. x \in Events(q) \/ x = e
    BY <1>1, <2>1 DEF Events
  <2> QED BY <2>2, <2>3, <2>4
<1>7. ASSUME t = FlagType(op, f), m \in c
      PROVE  Pending(p, last, op, f, m)
  BY <1>2, <1>5, <1>7 DEF Pending, Touches
<1>8. ASSUME Pending(q, last, op, f, m)
      PROVE  Pending(p, last, op, f, m)
  <2>1. PICK x \in Events(q) : x.id > last /\ Touches(x, op, f, m)
    BY <1>8 DEF Pending
  <2>2. CASE x \in Events(p)
    BY <2>1, <2>2 DEF Pending
  <2>3. CASE x \notin Events(p)
    <3>1. t \in VirtualTypes /\ x \in virtuals(q) /\ x.type = t
      BY <1>1, <2>1, <2>3 DEF Events
    <3>2. x.messages \subseteq e.messages
      BY <1>2, <1>4, <3>1
    <3>3. Touches(e, op, f, m)
      BY <1>2, <2>1, <3>1, <3>2 DEF Touches
    <3> QED BY <1>2, <1>5, <3>3 DEF Pending
  <2> QED BY <2>2, <2>3
<1> QED BY <1>6, <1>7, <1>8 DEF p

LEMMA InitOneWay == Init => OneWay
<1> SUFFICES ASSUME Init PROVE OneWay
  OBVIOUS
<1>1. Consistent /\ eq.next_event_id = 0
  BY InitConsistent DEF Init, NewQueue
<1>2. \A e \in Events(eq) : e.id < 0 /\ e.id \in Nat
  BY <1>1, ProperFields DEF Consistent, Proper, Events
<1>3. \A f \in Flags, m \in Messages : Unseen(f, m) = {}
  BY <1>2, UnseenPending DEF Pending
<1> QED BY <1>3 DEF OneWay

LEMMA PushUnseen ==
    ASSUME Consistent, NEW t \in Types, NEW n \in Messages, Push(t, n),
           NEW f \in Flags, NEW m \in Messages
    PROVE  /\ \A o \in Updates :
                o \in Unseen(f, m)' <=> o \in Unseen(f, m) \/ (t = FlagType(o, f) /\ m = n)
           /\ m \in server_flags'[f] <=>
                IF t = FlagType("add", f) THEN m = n \/ m \in server_flags[f]
                ELSE IF t = FlagType("remove", f) THEN m # n /\ m \in server_flags[f]
                ELSE m \in server_flags[f]
<1>1. eq' = push(eq, t, {n}) /\ server_flags' = update(server_flags, t, {n})
      /\ last_event_id' = last_event_id
  BY DEF Push
<1>2. ASSUME NEW o \in Updates
      PROVE  Pending(eq', last_event_id', o, f, m) <=>
               Pending(eq, last_event_id, o, f, m) \/ (t = FlagType(o, f) /\ m = n)
  <2>1. /\ Proper(eq) /\ last_event_id \in Int /\ last_event_id < eq.next_event_id
        /\ \A v \in virtuals(eq) : v.id > last_event_id
    BY ProperFields DEF Consistent, Proper
  <2>2. {n} \in SUBSET Messages
    OBVIOUS
  <2>3. Pending(push(eq, t, {n}), last_event_id, o, f, m) <=>
          Pending(eq, last_event_id, o, f, m) \/ (t = FlagType(o, f) /\ m \in {n})
    BY <2>1, <2>2, PushPending
  <2> QED BY <1>1, <2>3
<1>3. m \in server_flags'[f] <=>
        IF t = FlagType("add", f) THEN m = n \/ m \in server_flags[f]
        ELSE IF t = FlagType("remove", f) THEN m # n /\ m \in server_flags[f]
        ELSE m \in server_flags[f]
  <2>1. server_flags \in Shown /\ {n} \in SUBSET Messages
    BY DEF Consistent
  <2> QED BY <1>1, <2>1, UpdateTyped
<1> QED BY <1>2, <1>3, UnseenPending

LEMMA UnseenUpdates ==
    ASSUME NEW f, NEW m
    PROVE  /\ Unseen(f, m) \subseteq Updates /\ Unseen(f, m)' \subseteq Updates
           /\ Updates = {"add", "remove"}
           /\ FlagType("add", f) # FlagType("remove", f)
BY DEF Unseen, Updates, FlagType

LEMMA PushOneWay ==
    ASSUME Consistent, OneWay, NEW t \in Types, NEW n \in Messages, Push(t, n)
    PROVE  OneWay'
<1> SUFFICES ASSUME NEW f \in Flags, NEW m \in Messages, NEW op \in Updates,
                    Unseen(f, m)' = {op}
             PROVE  m \in server_flags'[f] <=> op = "add"
  BY DEF OneWay
<1>1. \A o \in Updates :
        o \in Unseen(f, m)' <=> o \in Unseen(f, m) \/ (t = FlagType(o, f) /\ m = n)
  BY PushUnseen
<1>2. m \in server_flags'[f] <=>
        IF t = FlagType("add", f) THEN m = n \/ m \in server_flags[f]
        ELSE IF t = FlagType("remove", f) THEN m # n /\ m \in server_flags[f]
        ELSE m \in server_flags[f]
  BY PushUnseen
<1>3. CASE m = n /\ \E o \in Updates : t = FlagType(o, f)
  <2>1. t = FlagType(op, f)
    BY <1>1, <1>3
  <2> QED BY <1>2, <1>3, <2>1, UnseenUpdates
<1>4. CASE ~ (m = n /\ \E o \in Updates : t = FlagType(o, f))
  <2>1. Unseen(f, m) = {op}
    BY <1>1, <1>4, UnseenUpdates
  <2>2. m \in server_flags'[f] <=> m \in server_flags[f]
    BY <1>2, <1>4, UnseenUpdates
  <2> QED BY <2>1, <2>2 DEF OneWay
<1> QED BY <1>3, <1>4

\* After a round nothing is pending.
LEMMA FetchOneWay ==
    ASSUME Consistent, Fetch
    PROVE  OneWay'
<1> DEFINE batch == contents(prune(eq, last_event_id))
<1>1. /\ eq'.queue = batch /\ virtuals(eq') = {}
      /\ Elements(batch) = {e \in Elements(eq.queue) \cup virtuals(eq) : e.id > last_event_id}
  BY Round DEF Fetch
<1>2. \A e \in Elements(batch) : e.id <= last_event_id'
  BY FetchAcknowledges
<1> HIDE DEF batch
<1>3. \A e \in Events(eq') : e.id <= last_event_id' /\ e.id \in Nat
  BY <1>1, <1>2, ProperFields DEF Events, Consistent, Proper
<1>4. last_event_id' \in Int
  BY FetchConsistent, ProperFields DEF Consistent, Proper
<1>5. \A f \in Flags, m \in Messages : Unseen(f, m)' = {}
  BY <1>3, <1>4, UnseenPending DEF Pending
<1> QED BY <1>5 DEF OneWay

LEMMA OneWayHolds == Spec => [](Consistent /\ OneWay)
<1>1. Consistent /\ OneWay /\ [Next]_vars => (Consistent /\ OneWay)'
  <2> SUFFICES ASSUME Consistent, OneWay, [Next]_vars PROVE Consistent' /\ OneWay'
    OBVIOUS
  <2>1. CASE UNCHANGED vars
    BY <2>1, StepConsistent DEF vars, OneWay, Unseen, virtuals
  <2> QED BY <2>1, PushOneWay, FetchOneWay, StepConsistent DEF Next
<1> QED BY <1>1, InitConsistent, InitOneWay, PTL DEF Spec

\* A round: what is in sync stays so but where opposite updates meet.
LEMMA FetchKeepsSync ==
    ASSUME Consistent, OneWay, Fetch, NEW f \in Flags, NEW m \in Messages,
           InSync(f, m), Unseen(f, m) # Updates
    PROVE  m \in client_flags'[f] <=> m \in server_flags'[f]
<1> DEFINE batch == contents(prune(eq, last_event_id))
<1>1. /\ batch \in Seq(Event)
      /\ Elements(batch) = {e \in Elements(eq.queue) \cup virtuals(eq) : e.id > last_event_id}
  BY Round
<1>2. /\ client_flags' = dispatch(client_flags, batch)[Len(batch)]
      /\ server_flags' = server_flags /\ client_flags \in Shown
  BY DEF Fetch, Consistent
<1> HIDE DEF batch
<1>3. \A o \in Updates : o \in Unseen(f, m) <=> \E e \in Elements(batch) : Touches(e, o, f, m)
  BY <1>1, UnseenPending DEF Pending, Events
<1>4. CASE Unseen(f, m) = {}
  <2>1. \A e \in Elements(batch), o \in Updates : ~ Touches(e, o, f, m)
    BY <1>3, <1>4
  <2>2. "add" \in Updates
    BY DEF Updates
  <2>3. m \in client_flags'[f] <=> m \in client_flags[f]
    BY <1>1, <1>2, <2>1, <2>2, DispatchOneWay
  <2> QED BY <1>2, <1>4, <2>3 DEF InSync
<1>5. ASSUME NEW op \in Updates, Unseen(f, m) = {op}
      PROVE  m \in client_flags'[f] <=> m \in server_flags'[f]
  <2>1. /\ \A e \in Elements(batch), o \in Updates : Touches(e, o, f, m) => o = op
        /\ \E e \in Elements(batch) : Touches(e, op, f, m)
    BY <1>3, <1>5
  <2>2. m \in client_flags'[f] <=> op = "add"
    BY <1>1, <1>2, <2>1, DispatchOneWay
  <2> QED BY <1>2, <1>5, <2>2 DEF OneWay
<1>6. Unseen(f, m) = {} \/ \E op \in Updates : Unseen(f, m) = {op}
  BY UnseenUpdates
<1> QED BY <1>4, <1>5, <1>6

LEMMA PushKeepsSync ==
    ASSUME Consistent, NEW t \in Types, NEW n \in Messages, Push(t, n),
           NEW f \in Flags, NEW m \in Messages, InSync(f, m)
    PROVE  InSync(f, m)'
<1> SUFFICES ASSUME Unseen(f, m)' = {}
             PROVE  m \in client_flags'[f] <=> m \in server_flags'[f]
  BY DEF InSync
<1>1. \A o \in Updates :
        o \in Unseen(f, m)' <=> o \in Unseen(f, m) \/ (t = FlagType(o, f) /\ m = n)
  BY PushUnseen
<1>2. m \in server_flags'[f] <=>
        IF t = FlagType("add", f) THEN m = n \/ m \in server_flags[f]
        ELSE IF t = FlagType("remove", f) THEN m # n /\ m \in server_flags[f]
        ELSE m \in server_flags[f]
  BY PushUnseen
<1>3. Unseen(f, m) = {} /\ ~ (m = n /\ \E o \in Updates : t = FlagType(o, f))
  BY <1>1, UnseenUpdates
<1>4. m \in server_flags'[f] <=> m \in server_flags[f]
  BY <1>2, <1>3, UnseenUpdates
<1>5. client_flags' = client_flags
  BY DEF Push
<1> QED BY <1>3, <1>4, <1>5 DEF InSync

\* Only opposite updates of a flag that meet in one batch leave a client that
\* was right about the flag wrong (EventQueue.push, EventQueue.contents,
\* dispatch of server_events_dispatch.js).
THEOREM OneWayArrives == Spec => OneWayUpdatesArrive
<1>1. ASSUME Consistent, OneWay, [Next]_vars, NEW f \in Flags, NEW m \in Messages,
             InSync(f, m), Unseen(f, m) # Updates
      PROVE  InSync(f, m)'
  <2>1. CASE Fetch
    BY <1>1, <2>1, FetchKeepsSync DEF InSync
  <2>2. ASSUME NEW t \in Types, NEW n \in Messages, Push(t, n)
        PROVE  InSync(f, m)'
    BY <1>1, <2>2, PushKeepsSync
  <2>3. CASE UNCHANGED vars
    BY <1>1, <2>3 DEF vars, InSync, Unseen, virtuals
  <2> QED BY <1>1, <2>1, <2>2, <2>3 DEF Next
<1>2. Consistent /\ OneWay /\ [Next]_vars =>
        [\A f \in Flags, m \in Messages :
           InSync(f, m) /\ Unseen(f, m) # Updates => InSync(f, m)']_vars
  BY <1>1
<1> QED BY <1>2, OneWayHolds, PTL DEF Spec, OneWayUpdatesArrive
=============================================================================
