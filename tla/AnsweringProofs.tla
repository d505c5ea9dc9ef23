--------------------------- MODULE AnsweringProofs ---------------------------
(***************************************************************************)
(* Answering a part of a message, for any published passages, questions,   *)
(* drafts and photographs: what the reader is shown is backed where it     *)
(* stands, was published for them, and nothing that was only guessed is    *)
(* remembered.                                                             *)
(*                                                                         *)
(* The hits a turn holds are passages its audience may read, whatever      *)
(* search added them; a list of sources is a part of them, and a marker    *)
(* that is renumbered still leads to the passage it cited.                 *)
(***************************************************************************)
EXTENDS Answering, Perception, FiniteSetTheorems, SequenceTheorems, WellFoundedInduction, TLAPS

----------------------------------------------------------------------------
(* Lists, and what is taken from them.                                     *)

LEMMA ImageFinite ==
  ASSUME NEW S, IsFiniteSet(S), NEW T, NEW f \in [S -> T]
  PROVE  IsFiniteSet({f[x] : x \in S})
  <1> DEFINE R == {f[x] : x \in S}
  <1>1. f \in Surjection(S, R)
    BY DEF Surjection
  <1> QED
    BY <1>1, FS_Surjection

\* the rank of a position is a position of the shorter list, and each is one's rank
LEMMA RankGood ==
  ASSUME NEW K \in SUBSET Int, IsFiniteSet(K)
  PROVE  /\ Cardinality(K) \in Nat
         /\ \A m \in K : NewMarker(m, K) \in 1 .. Cardinality(K)
         /\ \A m, k \in K : NewMarker(m, K) = NewMarker(k, K) => m = k
         /\ \A n \in 1 .. Cardinality(K) : \E m \in K : NewMarker(m, K) = n
  <1> DEFINE C == Cardinality(K)
             Below(m) == {k \in K : k <= m}
             f == [m \in K |-> NewMarker(m, K)]
  <1>1. C \in Nat
    BY FS_CardinalityType
  <1>2. ASSUME NEW m \in K
        PROVE  /\ IsFiniteSet(Below(m)) /\ NewMarker(m, K) = Cardinality(Below(m))
               /\ NewMarker(m, K) \in 1 .. C
    <2>1. Below(m) \in SUBSET K /\ m \in Below(m)
      OBVIOUS
    <2>2. IsFiniteSet(Below(m)) /\ Cardinality(Below(m)) <= C
      BY <2>1, FS_Subset
    <2>3. Cardinality(Below(m)) \in Nat /\ Cardinality(Below(m)) # 0
      <3> HIDE DEF Below
      <3> QED
        BY <2>1, <2>2, FS_EmptySet, FS_CardinalityType
    <2>4. NewMarker(m, K) = Cardinality(Below(m))
      BY DEF NewMarker
    <2>5. Cardinality(Below(m)) \in 1 .. C
      <3> HIDE DEF Below, C
      <3> QED
        BY <1>1, <2>2, <2>3
    <2> QED
      BY <2>2, <2>4, <2>5
  <1>3. ASSUME NEW m \in K, NEW k \in K, m < k
        PROVE  NewMarker(m, K) # NewMarker(k, K)
    <2>1. Below(m) \in SUBSET Below(k)
      <3>1. \A j \in K : j \in Int
        OBVIOUS
      <3>2. \A j \in K : j <= m => j <= k
        BY <1>3, <3>1
      <3> QED
        BY <3>2
    <2>2. k \in Below(k) /\ k \notin Below(m)
      BY <1>3
    <2> HIDE DEF Below
    <2>3. Cardinality(Below(m)) # Cardinality(Below(k))
      BY <1>2, <2>1, <2>2, FS_Subset
    <2> QED
      BY <1>2, <2>3
  <1>4. \A m, k \in K : NewMarker(m, K) = NewMarker(k, K) => m = k
    <2> SUFFICES ASSUME NEW m \in K, NEW k \in K, m # k
                 PROVE  NewMarker(m, K) # NewMarker(k, K)
      OBVIOUS
    <2>1. m < k \/ k < m
      OBVIOUS
    <2> QED
      BY <1>3, <2>1
  <1>5. f \in Injection(K, 1 .. C)
    BY <1>2, <1>4 DEF Injection, IsInjective
  <1>6. IsFiniteSet(1 .. C) /\ Cardinality(1 .. C) = C
    BY <1>1, FS_Interval
  <1>7. f \in Surjection(K, 1 .. C)
    <2> HIDE DEF f, C
    <2>1. Cardinality(K) = Cardinality(1 .. C)
      BY <1>6 DEF C
    <2> QED
      BY <1>5, <1>6, <2>1, FS_Injection
  <1>8. \A n \in 1 .. C : \E m \in K : f[m] = n
    BY <1>7 DEF Surjection
  <1> QED
    BY <1>1, <1>2, <1>4, <1>8

LEMMA ElementsGood ==
  ASSUME NEW S, NEW s \in Seq(S), NEW K \in SUBSET DOMAIN s
  PROVE  /\ ElementsAt(s, K) \in Seq(S)
         /\ DOMAIN ElementsAt(s, K) = 1 .. Cardinality(K)
         /\ \A m \in K : /\ NewMarker(m, K) \in DOMAIN ElementsAt(s, K)
                         /\ ElementsAt(s, K)[NewMarker(m, K)] = s[m]
         /\ \A n \in DOMAIN ElementsAt(s, K) : \E m \in K : ElementsAt(s, K)[n] = s[m]
  <1> DEFINE e == ElementsAt(s, K)
             at(n) == CHOOSE m \in K : NewMarker(m, K) = n
  <1>1. DOMAIN s = 1 .. Len(s) /\ Len(s) \in Nat /\ \A m \in DOMAIN s : s[m] \in S
    BY LenProperties, ElementOfSeq
  <1>2. IsFiniteSet(K) /\ K \in SUBSET Int
    <2>1. IsFiniteSet(1 .. Len(s)) /\ K \in SUBSET (1 .. Len(s))
      BY <1>1, FS_Interval
    <2>2. IsFiniteSet(K)
      BY <2>1, FS_Subset
    <2> QED
      BY <2>1, <2>2
  <1>3. /\ Cardinality(K) \in Nat
        /\ \A m \in K : NewMarker(m, K) \in 1 .. Cardinality(K)
        /\ \A m, k \in K : NewMarker(m, K) = NewMarker(k, K) => m = k
        /\ \A n \in 1 .. Cardinality(K) : \E m \in K : NewMarker(m, K) = n
    BY <1>2, RankGood
  <1>4. \A n \in 1 .. Cardinality(K) : at(n) \in K /\ NewMarker(at(n), K) = n
    BY <1>3
  <1>5. e = [n \in 1 .. Cardinality(K) |-> s[at(n)]]
    BY DEF ElementsAt
  <1> HIDE DEF e, at
  <1>6. DOMAIN e = 1 .. Cardinality(K) /\ \A n \in 1 .. Cardinality(K) : e[n] = s[at(n)]
    BY <1>5
  <1>7. e \in Seq(S)
    <2>1. \A n \in 1 .. Cardinality(K) : s[at(n)] \in S
      BY <1>1, <1>4
    <2>2. e \in [1 .. Cardinality(K) -> S]
      BY <1>5, <2>1
    <2> QED
      BY <1>3, <2>2, IsASeq
  <1>8. \A m \in K : NewMarker(m, K) \in DOMAIN e /\ e[NewMarker(m, K)] = s[m]
    BY <1>3, <1>4, <1>6
  <1>9. \A n \in DOMAIN e : \E m \in K : e[n] = s[m]
    BY <1>4, <1>6
  <1> QED
    BY <1>6, <1>7, <1>8, <1>9 DEF e

\* a finite set as a list
LEMMA ListGood ==
  ASSUME NEW S, IsFiniteSet(S)
  PROVE  SetToSeq(S) \in Seq(S) /\ \A n \in DOMAIN SetToSeq(S) : SetToSeq(S)[n] \in S
  <1>1. Cardinality(S) \in Nat /\ ExistsBijection(1 .. Cardinality(S), S)
    BY FS_CardinalityType
  <1>2. \E f \in [1 .. Cardinality(S) -> S] : IsInjective(f)
    BY <1>1 DEF ExistsBijection, Bijection, Injection
  <1>3. SetToSeq(S) \in [1 .. Cardinality(S) -> S]
    BY <1>2 DEF SetToSeq
  <1> QED
    BY <1>1, <1>3, IsASeq

LEMMA ConcatGood ==
  ASSUME NEW S, NEW s \in Seq(S), NEW t \in Seq(S)
  PROVE  s \o t \in Seq(S)
  BY ConcatProperties

----------------------------------------------------------------------------
(* The hits: whatever search adds to them, they are passages the audience  *)
(* may read.                                                               *)

Read == ReadableBy(request.audiences)
Hits == [passage : Read, strong : BOOLEAN]

LEMMA ReadFinite ==
  /\ IsFiniteSet(Read)
  /\ \A P : P \subseteq Read => IsFiniteSet(P)
  <1>1. Read \in SUBSET Library
    BY DEF Read, ReadableBy
  <1>2. IsFiniteSet(Read)
    BY <1>1, AnsweringConstants, FS_Subset
  <1> QED
    BY <1>2, FS_Subset

LEMMA SearchesGood ==
  ASSUME NEW n \in Nat, NEW s \in Searches(n)
  PROVE  s \in Seq(Hits)
  <1>1. PICK t \in UNION {{x \in [1 .. m -> Read] : IsInjective(x)} : m \in 0 .. n},
             k \in 0 .. n :
               s = [i \in DOMAIN t |-> Hit(t[i], i <= k)]
    BY DEF Searches, Read
  <1>2. PICK m \in 0 .. n : t \in [1 .. m -> Read]
    BY <1>1
  <1>3. \A i \in 1 .. m : Hit(t[i], i <= k) \in Hits
    BY <1>2 DEF Hit, Hits
  <1>4. s \in [1 .. m -> Hits]
    BY <1>1, <1>2, <1>3
  <1>5. m \in Nat
    BY <1>2
  <1> QED
    BY <1>4, <1>5, IsASeq

LEMMA AddedGood ==
  ASSUME NEW hits \in Seq(Hits), NEW passages, passages \subseteq Read
  PROVE  Added(hits, passages) \in Seq(Hits)
  <1> DEFINE new == SetToSeq(passages \ Holding(hits))
             more == [i \in DOMAIN new |-> Hit(new[i], FALSE)]
  <1>1. IsFiniteSet(passages \ Holding(hits)) /\ passages \ Holding(hits) \in SUBSET Read
    BY ReadFinite
  <1>2. new \in Seq(passages \ Holding(hits))
    BY <1>1, ListGood
  <1>3. new \in Seq(Read) /\ Len(new) \in Nat /\ DOMAIN new = 1 .. Len(new)
        /\ \A i \in DOMAIN new : new[i] \in passages \ Holding(hits)
    <2> HIDE DEF new
    <2>1. Len(new) \in Nat /\ DOMAIN new = 1 .. Len(new)
      BY <1>2, LenProperties
    <2>2. \A i \in DOMAIN new : new[i] \in passages \ Holding(hits)
      BY <1>2, <2>1, ElementOfSeq
    <2>3. new \in [1 .. Len(new) -> Read]
      BY <1>1, <1>2, <2>1, <2>2, LenProperties
    <2> QED
      BY <2>1, <2>2, <2>3, IsASeq
  <1>4. \A i \in DOMAIN new : Hit(new[i], FALSE) \in Hits
    <2> HIDE DEF new
    <2> QED
      BY <1>1, <1>3 DEF Hit, Hits
  <1>5. more \in Seq(Hits)
    <2> HIDE DEF new
    <2>1. more \in [1 .. Len(new) -> Hits]
      BY <1>3, <1>4
    <2> HIDE DEF more
    <2> QED
      BY <1>3, <2>1, IsASeq
  <1>6. Added(hits, passages) = hits \o more
    BY DEF Added
  <1> QED
    BY <1>5, <1>6, ConcatGood

LEMMA FindPropertyGood ==
  ASSUME NEW product, NEW terms
  PROVE  FindProperty(product, terms) \subseteq Read
  BY DEF FindProperty, Read

LEMMA FoundOfFields ==
  ASSUME NEW hits \in Seq(Hits)
  PROVE  FieldEvidence(hits) \in Seq(Hits)
  <1> DEFINE all == UNION {FindProperty(p, TermsFor("property_asked", f)) :
                             p \in AboutProducts, f \in RequestedFields}
  <1>1. all \subseteq Read
    BY FindPropertyGood
  <1> HIDE DEF all
  <1>2. Added(hits, all) \in Seq(Hits)
    BY <1>1, AddedGood
  <1> QED
    BY <1>2 DEF FieldEvidence, all

LEMMA FoundOfQuantities ==
  ASSUME NEW hits \in Seq(Hits)
  PROVE  QuantityEvidence(hits) \in Seq(Hits)
  BY FindPropertyGood, AddedGood DEF QuantityEvidence

LEMMA FoundOfMissed ==
  ASSUME NEW hits \in Seq(Hits), NEW m \in MissedEvidence(hits)
  PROVE  m \in Seq(Hits)
  <1>1. PICK S \in SUBSET Missed(hits) : m = Added(hits, S)
    BY DEF MissedEvidence
  <1>2. \A w : Rarely(w) \subseteq Read
    BY FindPropertyGood DEF Rarely
  <1>3. Missed(hits) \subseteq Read
    BY <1>2 DEF Missed
  <1> QED
    BY <1>1, <1>3, AddedGood

LEMMA FoundOfTheGate ==
  ASSUME NEW hits \in Seq(Hits)
  PROVE  SecondChance(hits) \in Seq(Hits)
  <1> DEFINE all == UNION {FindProperty(p, UnsupportedTerms(request.part, hits, CarriedSlots)) :
                             p \in AboutProducts}
  <1>1. all \subseteq Read
    BY FindPropertyGood
  <1> HIDE DEF all
  <1>2. Added(hits, all) \in Seq(Hits)
    BY <1>1, AddedGood
  <1> QED
    BY <1>2 DEF SecondChance, all

LEMMA RecoveredGood ==
  ASSUME NEW hits \in Seq(Hits), NEW r \in Recovered(hits)
  PROVE  r \in Seq(Hits)
  <1>1. PICK m \in MissedEvidence(QuantityEvidence(FieldEvidence(hits))) : r = SecondChance(m)
    BY DEF Recovered
  <1>2. QuantityEvidence(FieldEvidence(hits)) \in Seq(Hits)
    BY FoundOfFields, FoundOfQuantities
  <1>3. m \in Seq(Hits)
    BY <1>1, <1>2, FoundOfMissed
  <1> QED
    BY <1>1, <1>3, FoundOfTheGate

LEMMA ContextualGood ==
  ASSUME IsFiniteSet(Explicit), NEW hits \in Seq(Hits), NEW c \in Contextual(hits)
  PROVE  c \in Seq(Hits)
  <1>1. CASE c = hits
    BY <1>1
  <1>2. CASE c # hits
    <2>1. PICK d \in Searches(TopK * Cardinality(AboutProducts)) :
            c = d \o ElementsAt(hits, {i \in DOMAIN hits : hits[i].passage \notin Holding(d)})
      BY <1>2 DEF Contextual
    <2>2. d \in Seq(Hits)
      <3>1. IsFiniteSet({NamedProduct} \ {NoProduct})
        BY FS_Singleton, FS_Subset
      <3>2. IsFiniteSet(AboutProducts)
        BY <3>1 DEF AboutProducts
      <3>3. TopK * Cardinality(AboutProducts) \in Nat
        BY <3>2, AnsweringConstants, FS_CardinalityType
      <3> QED
        BY <2>1, <3>3, SearchesGood
    <2>3. ElementsAt(hits, {i \in DOMAIN hits : hits[i].passage \notin Holding(d)}) \in Seq(Hits)
      BY ElementsGood
    <2> QED
      BY <2>1, <2>2, <2>3, ConcatGood
  <1> QED
    BY <1>1, <1>2

LEMMA SearchedGood ==
  ASSUME IsFiniteSet(Explicit), NEW s \in Searched
  PROVE  s \in Seq(Hits)
  <1>1. Cardinality(Explicit) \in Nat
    BY FS_CardinalityType
  <1>2. TopK \in Nat /\ TopK * Cardinality(Explicit) \in Nat
    BY <1>1, AnsweringConstants
  <1> QED
    BY <1>2, SearchesGood DEF Searched
----------------------------------------------------------------------------
(* What is drawn from the hits.                                            *)

LEMMA PassagesGood ==
  ASSUME NEW hits \in Seq(Hits)
  PROVE  /\ PassagesOf(hits) \in Seq(Read)
         /\ DOMAIN PassagesOf(hits) = DOMAIN hits
         /\ Len(PassagesOf(hits)) = Len(hits)
         /\ \A i \in DOMAIN hits : PassagesOf(hits)[i] = hits[i].passage
  <1>1. DOMAIN hits = 1 .. Len(hits) /\ Len(hits) \in Nat
    BY LenProperties
  <1>2. \A i \in DOMAIN hits : hits[i] \in Hits
    BY <1>1, ElementOfSeq
  <1>3. \A i \in DOMAIN hits : hits[i].passage \in Read
    BY <1>2 DEF Hits
  <1>4. PassagesOf(hits) \in [1 .. Len(hits) -> Read]
    BY <1>1, <1>3 DEF PassagesOf
  <1>5. PassagesOf(hits) \in Seq(Read)
    <2>1. \A p : p = PassagesOf(hits) => p \in [1 .. Len(hits) -> Read]
      BY <1>4
    <2> QED
      BY <1>1, <2>1, IsASeq
  <1>6. DOMAIN PassagesOf(hits) = DOMAIN hits
    BY DEF PassagesOf
  <1>7. Len(PassagesOf(hits)) = Len(hits)
    BY <1>1, <1>5, <1>6, LenProperties
  <1> QED
    BY <1>5, <1>6, <1>7 DEF PassagesOf

\* the first of the hits, none when there are none
LEMMA FirstGood ==
  ASSUME NEW hits \in Seq(Hits), NEW n \in Nat
  PROVE  /\ FirstOf(hits, n) \in Seq(Read)
         /\ DOMAIN FirstOf(hits, n) \subseteq DOMAIN hits
         /\ \A i \in DOMAIN FirstOf(hits, n) : FirstOf(hits, n)[i] = hits[i].passage
         /\ n # 0 /\ hits # <<>> => 1 \in DOMAIN FirstOf(hits, n)
  <1> DEFINE p == PassagesOf(hits)
             least == Min({n, Len(hits)})
  <1>1. p \in Seq(Read) /\ Len(p) = Len(hits) /\ DOMAIN p = DOMAIN hits
        /\ \A i \in DOMAIN hits : p[i] = hits[i].passage
    BY PassagesGood
  <1>2. DOMAIN hits = 1 .. Len(hits) /\ Len(hits) \in Nat
    BY LenProperties
  <1>3. \E x \in {n, Len(hits)} : \A y \in {n, Len(hits)} : x <= y
    BY <1>2
  <1>4. least \in {n, Len(hits)} /\ least <= n /\ least <= Len(hits)
    BY <1>3 DEF Min
  <1>5. hits # <<>> => Len(hits) # 0
    BY EmptySeq
  <1> HIDE DEF p, least
  <1>6. FirstOf(hits, n) = SubSeq(p, 1, least)
    BY DEF FirstOf, p, least
  <1>7. least \in Nat /\ least <= Len(p)
    BY <1>1, <1>2, <1>4
  <1>8. /\ SubSeq(p, 1, least) \in Seq(Read)
        /\ Len(SubSeq(p, 1, least)) = least
        /\ \A i \in 1 .. least : SubSeq(p, 1, least)[i] = p[i]
    <2>1. 1 .. 0 = {} /\ SubSeq(p, 1, 0) = <<>>
      OBVIOUS
    <2>2. CASE least = 0
      BY <2>1, <2>2
    <2>3. CASE least # 0
      BY <1>1, <1>2, <1>7, <2>3, SubSeqProperties
    <2> QED
      BY <2>2, <2>3
  <1>9. DOMAIN SubSeq(p, 1, least) = 1 .. least
    BY <1>8, LenProperties
  <1>10. 1 .. least \subseteq DOMAIN hits
    <2>1. \A l \in Nat : least <= l => 1 .. least \subseteq 1 .. l
      BY <1>7
    <2> QED
      BY <1>2, <1>4, <2>1
  <1>11. n # 0 /\ hits # <<>> => 1 \in 1 .. least
    <2>1. n # 0 /\ Len(hits) # 0 => least # 0
      BY <1>4
    <2>2. least # 0 => 1 \in 1 .. least
      BY <1>7
    <2> QED
      BY <1>5, <2>1, <2>2
  <1> QED
    BY <1>1, <1>6, <1>8, <1>9, <1>10, <1>11

LEMMA DiagnosticGood ==
  ASSUME NEW hits \in Seq(Hits)
  PROVE  Diagnostic(hits) \in Seq(Read)
  <1>1. ElementsAt(hits, {i \in DOMAIN hits : ~hits[i].passage.sells}) \in Seq(Hits)
    BY ElementsGood
  <1>2. ElementsAt(hits, {i \in DOMAIN hits : hits[i].passage.sells}) \in Seq(Hits)
    BY ElementsGood
  <1> QED
    BY <1>1, <1>2, ConcatGood, FirstGood DEF Diagnostic

LEMMA ScopedGood ==
  ASSUME NEW hits \in Seq(Hits), NEW requested
  PROVE  ScopedEvidence(hits, requested) \in Seq(Hits)
  BY ElementsGood DEF ScopedEvidence

\* a property is bound to positions among the hits
LEMMA BindingGood ==
  ASSUME NEW d, NEW p \in DOMAIN EvidenceBinding(d)
  PROVE  EvidenceBinding(d)[p] \subseteq DOMAIN d.hits
  <1> DEFINE seen == [i \in DOMAIN d.hits |-> d.hits[i].passage]
             support == [x \in DOMAIN d.evidence |->
                           PropertySupport(seen, d.evidence[x], SlotOr(d.slots, "product", NoProduct))]
  <1>1. \A terms, product : PropertySupport(seen, terms, product) \subseteq DOMAIN seen
    BY DEF PropertySupport
  <1>2. EvidenceBinding(d) = [x \in {y \in DOMAIN support : support[y] # {}} |-> support[x]]
    BY DEF EvidenceBinding
  <1>3. p \in DOMAIN support /\ EvidenceBinding(d)[p] = support[p]
    BY <1>2
  <1> QED
    BY <1>1, <1>3

LEMMA PromotedGood ==
  ASSUME NEW hits \in Seq(Hits), NEW bound,
         \A p \in DOMAIN bound : bound[p] \subseteq DOMAIN hits
  PROVE  PromoteBound(hits, bound) \in Seq(Hits)
  <1> DEFINE markers == UNION {bound[p] : p \in DOMAIN bound}
             m == CHOOSE x \in markers : TRUE
             rest == ElementsAt(hits, {i \in DOMAIN hits : hits[i] # hits[m]})
  <1>1. CASE PromoteBound(hits, bound) = hits
    BY <1>1
  <1>2. CASE PromoteBound(hits, bound) # hits
    <2>1. PromoteBound(hits, bound) = <<hits[m]>> \o rest /\ Cardinality(markers) = 1
      BY <1>2 DEF PromoteBound
    <2>2. markers # {} /\ markers \subseteq DOMAIN hits
      <3>1. markers \subseteq DOMAIN hits
        OBVIOUS
      <3>2. Cardinality(markers) = 1
        BY <2>1
      <3>3. Cardinality({}) = 0
        BY FS_EmptySet
      <3>4. markers # {}
        <4> HIDE DEF markers
        <4> QED
          BY ONLY <3>2, <3>3
      <3> QED
        BY <3>1, <3>4
    <2>3. m \in DOMAIN hits
      BY <2>2
    <2>4. hits[m] \in Hits
      BY <2>3, LenProperties, ElementOfSeq
    <2>5. <<hits[m]>> \in Seq(Hits)
      BY <2>4
    <2>6. rest \in Seq(Hits)
      BY ElementsGood
    <2> QED
      BY <2>1, <2>5, <2>6, ConcatGood
  <1> QED
    BY <1>1, <1>2
----------------------------------------------------------------------------
(* Finishing: the sources are passages that were given, and a marker still *)
(* leads to the passage it cited.                                          *)

\* each of its sentences is read for what Silent lists
WellRead(text) == \A i \in DOMAIN text : DOMAIN text[i] = DOMAIN Silent
\* each figure is in a passage its sentence cites
Backs(text, passages) ==
  \A i \in DOMAIN text : \A f \in text[i].figures :
    \E m \in text[i].cites \cap DOMAIN passages : \E e \in passages[m].facts : e.figure = f
\* each figure is in one of the sources
Figured(text, sources) ==
  \A i \in DOMAIN text : \A f \in text[i].figures :
    \E m \in DOMAIN sources : \E e \in sources[m].facts : e.figure = f

LEMMA FieldsRead ==
  /\ "cites" \in DOMAIN Silent /\ "figures" \in DOMAIN Silent
  /\ "names" \in DOMAIN Silent /\ "qualifiers" \in DOMAIN Silent
  BY DEF Silent

LEMMA FinishedGood ==
  ASSUME NEW text, WellRead(text), NEW passages, NEW i \in DOMAIN text
  PROVE  /\ DOMAIN Finished(text, passages) = DOMAIN text
         /\ Finished(text, passages)[i].figures = text[i].figures
         /\ Finished(text, passages)[i].names = text[i].names
         /\ Finished(text, passages)[i].qualifiers = text[i].qualifiers
         /\ Finished(text, passages)[i].cites =
              IF Renumbers(text, passages)
              THEN {NewMarker(m, Markers(text)) : m \in text[i].cites} ELSE text[i].cites
  <1>1. CASE ~Renumbers(text, passages)
    BY <1>1 DEF Finished
  <1>2. CASE Renumbers(text, passages)
    <2> DEFINE new == {NewMarker(m, Markers(text)) : m \in text[i].cites}
    <2>1. DOMAIN Finished(text, passages) = DOMAIN text
          /\ Finished(text, passages)[i] = [text[i] EXCEPT !.cites = new]
      BY <1>2 DEF Finished
    <2>2. DOMAIN text[i] = DOMAIN Silent
      BY DEF WellRead
    <2> HIDE DEF new
    <2>3. \A s : DOMAIN s = DOMAIN Silent =>
            /\ [s EXCEPT !.cites = new].cites = new
            /\ [s EXCEPT !.cites = new].figures = s.figures
            /\ [s EXCEPT !.cites = new].names = s.names
            /\ [s EXCEPT !.cites = new].qualifiers = s.qualifiers
      BY FieldsRead
    <2> QED
      BY <1>2, <2>1, <2>2, <2>3 DEF new
  <1> QED
    BY <1>1, <1>2

LEMMA SourcesGood ==
  ASSUME NEW text, NEW passages \in Seq(Read)
  PROVE  /\ Sources(text, passages) \in Seq(Read)
         /\ ~Renumbers(text, passages) => Sources(text, passages) = passages
         /\ Renumbers(text, passages) =>
              \A m \in Markers(text) :
                /\ NewMarker(m, Markers(text)) \in DOMAIN Sources(text, passages)
                /\ Sources(text, passages)[NewMarker(m, Markers(text))] = passages[m]
  <1>1. CASE ~Renumbers(text, passages)
    BY <1>1 DEF Sources
  <1>2. CASE Renumbers(text, passages)
    <2>1. Backed(text, passages) = Markers(text) /\ Backed(text, passages) \in SUBSET DOMAIN passages
      BY <1>2 DEF Renumbers, Backed
    <2>2. Sources(text, passages) = ElementsAt(passages, Backed(text, passages))
      BY <1>2 DEF Sources
    <2> QED
      BY <1>2, <2>1, <2>2, ElementsGood
  <1> QED
    BY <1>1, <1>2

\* a marker that cites a passage cites it still
LEMMA StillCites ==
  ASSUME NEW text, WellRead(text), NEW passages \in Seq(Read), NEW i \in DOMAIN text,
         NEW m \in text[i].cites \cap DOMAIN passages
  PROVE  \E n \in Finished(text, passages)[i].cites :
           n \in DOMAIN Sources(text, passages) /\ Sources(text, passages)[n] = passages[m]
  <1>1. CASE ~Renumbers(text, passages)
    <2>1. Finished(text, passages)[i].cites = text[i].cites
      BY <1>1, FinishedGood
    <2>2. Sources(text, passages) = passages
      BY <1>1, SourcesGood
    <2> QED
      BY <2>1, <2>2
  <1>2. CASE Renumbers(text, passages)
    <2>1. m \in Markers(text)
      BY DEF Markers
    <2>2. NewMarker(m, Markers(text)) \in Finished(text, passages)[i].cites
      <3>1. Finished(text, passages)[i].cites = {NewMarker(k, Markers(text)) : k \in text[i].cites}
        BY <1>2, FinishedGood
      <3> QED
        BY <3>1
    <2> QED
      BY <1>2, <2>1, <2>2, SourcesGood
  <1> QED
    BY <1>1, <1>2

LEMMA BackedIsFigured ==
  ASSUME NEW text, WellRead(text), NEW passages \in Seq(Read), Backs(text, passages)
  PROVE  Figured(Finished(text, passages), Sources(text, passages))
  <1> DEFINE shown == Finished(text, passages)
             sources == Sources(text, passages)
  <1> SUFFICES ASSUME NEW i \in DOMAIN shown, NEW f \in shown[i].figures
               PROVE  \E n \in DOMAIN sources : \E e \in sources[n].facts : e.figure = f
    BY DEF Figured
  <1>1. i \in DOMAIN text
    BY DEF Finished
  <1>2. f \in text[i].figures
    BY <1>1, FinishedGood
  <1>3. PICK m \in text[i].cites \cap DOMAIN passages : \E e \in passages[m].facts : e.figure = f
    BY <1>1, <1>2 DEF Backs
  <1>4. PICK n \in shown[i].cites : n \in DOMAIN sources /\ sources[n] = passages[m]
    BY <1>1, StillCites
  <1> QED
    BY <1>3, <1>4

\* what the engine says for itself states no figure
LEMMA ContactGood == WellRead(Contact) /\ \A passages : Backs(Contact, passages)
  <1>1. DOMAIN Contact = {1} /\ Contact[1] = [Silent EXCEPT !.limits = TRUE]
    BY DEF Contact
  <1>2. Contact[1].figures = {} /\ DOMAIN Contact[1] = DOMAIN Silent
    BY <1>1 DEF Silent
  <1> QED
    BY <1>1, <1>2 DEF WellRead, Backs

LEMMA QuotedGood ==
  ASSUME NEW e, NEW m
  PROVE  /\ DOMAIN Quoted(e, m) = DOMAIN Silent
         /\ Quoted(e, m).cites = {m} /\ Quoted(e, m).figures = {e.figure}
  BY DEF Quoted, Silent

LEMMA OrderGood ==
  ASSUME NEW r, NEW m
  PROVE  DOMAIN QuotedOrder(r, m) = DOMAIN Silent /\ QuotedOrder(r, m).figures = {}
  BY DEF QuotedOrder, Silent

LEMMA PrintedGood ==
  ASSUME NEW p, NEW m
  PROVE  /\ DOMAIN Printed(p, m) = DOMAIN Silent
         /\ Printed(p, m).cites = {m} /\ Printed(p, m).figures = {e.figure : e \in p.facts}
  BY DEF Printed, Silent
----------------------------------------------------------------------------
(* The answers, one path after another.                                    *)

\* what an answer shows was given to it and published, and what it keeps is
\* what the part leaves
Answered(a) ==
  /\ DOMAIN a = DOMAIN Undrafted
  /\ a.sources \in Seq(Read)
  /\ Figured(a.text, a.sources) /\ Figured(a.disclosure, a.sources)
  /\ a.kept = KeptSlots

LEMMA AnsweredGood ==
  ASSUME NEW path, NEW text, NEW passages \in Seq(Read), NEW refused,
         WellRead(text), Backs(text, passages)
  PROVE  /\ Answered(FinishedAnswer(path, text, passages, refused))
         /\ FinishedAnswer(path, text, passages, refused).path = path
  <1> DEFINE a == FinishedAnswer(path, text, passages, refused)
  <1>1. /\ DOMAIN a = DOMAIN Undrafted /\ a.path = path
        /\ a.text = Finished(text, passages) /\ a.sources = Sources(text, passages)
        /\ a.disclosure = <<>> /\ a.kept = KeptSlots
    BY DEF FinishedAnswer, Undrafted
  <1>2. Figured(Finished(text, passages), Sources(text, passages))
        /\ Figured(<<>>, Sources(text, passages))
    BY BackedIsFigured DEF Figured
  <1>3. Sources(text, passages) \in Seq(Read)
    BY SourcesGood
  <1> HIDE DEF a
  <1>4. Answered(a)
    BY <1>1, <1>2, <1>3 DEF Answered
  <1> QED
    BY <1>1, <1>4 DEF a

\* what a refusal discloses is printed from the sources it is shown with: its
\* text cites nothing, so that it keeps every passage it was given
LEMMA RefusalGood ==
  ASSUME NEW hits \in Seq(Hits)
  PROVE  Answered(Refusal(hits)) /\ Refusal(hits).path = "refuse"
  <1> DEFINE given == IF decision.step = "1" THEN <<>> ELSE FirstOf(hits, 1)
             a == FinishedAnswer("refuse", Contact, given, TRUE)
             shown == [i \in DOMAIN given |-> [Printed(given[i], i) EXCEPT !.cites = {}]]
  <1>1. FirstOf(hits, 1) \in Seq(Read)
    BY FirstGood
  <1>2. <<>> \in Seq(Read)
    OBVIOUS
  <1>3. given \in Seq(Read)
    BY <1>1, <1>2
  <1>4. Refusal(hits) = [a EXCEPT !.disclosure = shown]
    BY DEF Refusal
  <1> HIDE DEF given
  <1>5. WellRead(Contact) /\ Backs(Contact, given)
    BY ContactGood
  <1>6. Answered(a) /\ a.path = "refuse"
    BY <1>3, <1>5, AnsweredGood
  <1>7. a.sources = given
    <2>1. DOMAIN Contact = {1} /\ Contact[1].cites = {}
      BY DEF Contact, Silent
    <2>2. ~Renumbers(Contact, given)
      BY <2>1 DEF Renumbers, Markers
    <2> QED
      BY <2>2 DEF FinishedAnswer, Sources
  <1>8. Figured(shown, given)
    <2> SUFFICES ASSUME NEW i \in DOMAIN shown, NEW f \in shown[i].figures
                 PROVE  \E m \in DOMAIN given : \E e \in given[m].facts : e.figure = f
      BY DEF Figured
    <2>1. i \in DOMAIN given /\ shown[i] = [Printed(given[i], i) EXCEPT !.cites = {}]
      OBVIOUS
    <2>2. \A p : DOMAIN p = DOMAIN Silent => [p EXCEPT !.cites = {}].figures = p.figures
      BY FieldsRead
    <2>3. shown[i].figures = {e.figure : e \in given[i].facts}
      BY <2>1, <2>2, PrintedGood
    <2> HIDE DEF shown
    <2> QED
      BY <2>1, <2>3
  <1>9. /\ DOMAIN Refusal(hits) = DOMAIN a /\ Refusal(hits).path = a.path
        /\ Refusal(hits).text = a.text /\ Refusal(hits).sources = a.sources
        /\ Refusal(hits).kept = a.kept /\ Refusal(hits).disclosure = shown
    <2>1. {"path", "text", "sources", "kept", "disclosure"} \subseteq DOMAIN a
      BY DEF FinishedAnswer
    <2> HIDE DEF a, shown
    <2> QED
      BY <1>4, <2>1
  <1> HIDE DEF a, shown
  <1> QED
    BY <1>6, <1>7, <1>8, <1>9 DEF Answered

\* a sentence of two lists joined is one of either
LEMMA JoinedGood ==
  ASSUME NEW S, NEW s \in Seq(S), NEW t \in Seq(S), NEW i \in DOMAIN (s \o t)
  PROVE  \/ \E j \in DOMAIN s : (s \o t)[i] = s[j]
         \/ \E j \in DOMAIN t : (s \o t)[i] = t[j]
  <1>1. /\ s \o t \in Seq(S) /\ Len(s \o t) = Len(s) + Len(t)
        /\ \A k \in 1 .. Len(s) + Len(t) :
             (s \o t)[k] = IF k <= Len(s) THEN s[k] ELSE t[k - Len(s)]
    BY ConcatProperties
  <1>2. DOMAIN (s \o t) = 1 .. Len(s) + Len(t) /\ DOMAIN s = 1 .. Len(s) /\ DOMAIN t = 1 .. Len(t)
        /\ Len(s) \in Nat /\ Len(t) \in Nat
    BY <1>1, LenProperties
  <1>3. CASE i <= Len(s)
    BY <1>1, <1>2, <1>3
  <1>4. CASE ~(i <= Len(s))
    <2>1. i - Len(s) \in 1 .. Len(t)
      BY <1>2, <1>4
    <2> QED
      BY <1>1, <1>2, <1>4, <2>1
  <1> QED
    BY <1>3, <1>4

LEMMA ScopedHits ==
  ASSUME found \in Seq(Hits)
  PROVE  Scoped \in Seq(Hits)
  BY ScopedGood DEF Scoped

\* a claim quotes a fact of one of the scoped passages and cites it, or states a
\* layer order, in which there is no figure
Quotes(q, k) ==
  \/ \E e \in Scoped[k].passage.facts : q = Quoted(e, k)
  \/ \E r \in request.part.relations : q = QuotedOrder(r, k)

LEMMA ClaimsGood ==
  ASSUME NEW q \in FactualClaims
  PROVE  \E k \in DOMAIN Scoped : Quotes(q, k)
  <1>1. CASE \E k \in DOMAIN Scoped, f \in RequestedFields, p \in FactualProducts :
               q \in FieldClaims(k, f, p)
    <2>1. PICK k \in DOMAIN Scoped, f \in RequestedFields, p \in FactualProducts :
            q \in FieldClaims(k, f, p)
      BY <1>1
    <2>2. PICK e \in FieldFacts(Scoped[k].passage, f, p) : q = Quoted(e, k)
      BY <2>1 DEF FieldClaims
    <2>3. e \in Scoped[k].passage.facts
      BY <2>2 DEF FieldFacts
    <2> QED
      BY <2>2, <2>3 DEF Quotes
  <1>2. CASE \E k \in DOMAIN Scoped : q \in OrderClaims(k)
    BY <1>2 DEF OrderClaims, Quotes
  <1> QED
    BY <1>1, <1>2 DEF FactualClaims

LEMMA ClaimsFinite ==
  ASSUME found \in Seq(Hits), IsFiniteSet(request.part.relations)
  PROVE  IsFiniteSet(FactualClaims)
  <1> DEFINE facts == [k \in DOMAIN Scoped |-> Scoped[k].passage.facts]
             orders == request.part.relations
             said == [k \in DOMAIN Scoped |-> {Quoted(e, k) : e \in facts[k]}
                                              \cup {QuotedOrder(r, k) : r \in orders}]
  <1>1. IsFiniteSet(DOMAIN Scoped)
    <2>1. DOMAIN Scoped = 1 .. Len(Scoped) /\ Len(Scoped) \in Nat
      BY ScopedHits, LenProperties
    <2> QED
      BY <2>1, FS_Interval
  <1>2. ASSUME NEW k \in DOMAIN Scoped
        PROVE  IsFiniteSet(said[k])
    <2>1. Scoped[k] \in Hits
      BY ScopedHits, LenProperties, ElementOfSeq
    <2>2. Scoped[k].passage \in Library
      BY <2>1 DEF Hits, Read, ReadableBy
    <2>3. IsFiniteSet(facts[k])
      BY <2>2, AnsweringConstants
    <2> DEFINE g == [e \in facts[k] |-> Quoted(e, k)]
               T == {Quoted(e, k) : e \in facts[k]}
               h == [r \in orders |-> QuotedOrder(r, k)]
               U == {QuotedOrder(r, k) : r \in orders}
    <2>4. g \in [facts[k] -> T] /\ h \in [orders -> U]
      OBVIOUS
    <2>5. IsFiniteSet({g[e] : e \in facts[k]})
      <3> HIDE DEF g, T, facts, h, U, orders
      <3> QED
        BY <2>3, <2>4, ImageFinite
    <2>6. IsFiniteSet({h[r] : r \in orders})
      <3>1. IsFiniteSet(orders)
        OBVIOUS
      <3> HIDE DEF g, T, facts, h, U, orders
      <3> QED
        BY <2>4, <3>1, ImageFinite
    <2>7. {g[e] : e \in facts[k]} \cup {h[r] : r \in orders} = said[k]
      OBVIOUS
    <2> HIDE DEF g, h, said, facts, orders
    <2> QED
      BY <2>5, <2>6, <2>7, FS_Union
  <1> DEFINE all == {said[k] : k \in DOMAIN Scoped}
  <1>3. IsFiniteSet(all)
    <2>1. said \in [DOMAIN Scoped -> all]
      OBVIOUS
    <2>2. IsFiniteSet({said[k] : k \in DOMAIN Scoped})
      <3> HIDE DEF said, all
      <3> QED
        BY <1>1, <2>1, ImageFinite
    <2> QED
      BY <2>2
  <1>4. IsFiniteSet(UNION all)
    <2>1. \A T \in all : IsFiniteSet(T)
      <3> HIDE DEF said
      <3> QED
        BY <1>2
    <2> HIDE DEF all
    <2> QED
      BY <1>3, <2>1, FS_UNION
  <1>5. FactualClaims \in SUBSET (UNION all)
    <2> SUFFICES ASSUME NEW q \in FactualClaims
                 PROVE  q \in UNION all
      OBVIOUS
    <2>1. PICK k \in DOMAIN Scoped : Quotes(q, k)
      BY ClaimsGood
    <2>2. q \in said[k]
      BY <2>1 DEF Quotes
    <2> HIDE DEF said
    <2> QED
      BY <2>2
  <1> HIDE DEF all
  <1> QED
    BY <1>4, <1>5, FS_Subset

LEMMA FactualGood ==
  ASSUME found \in Seq(Hits), IsFiniteSet(request.part.relations)
  PROVE  Answered(FactualAnswer) /\ FactualAnswer.path = "extract"
  <1> DEFINE list == SetToSeq(FactualClaims)
             given == IF FactualClaims = {} THEN <<>> ELSE PassagesOf(Scoped)
             S == FactualClaims \cup {Contact[1]}
  <1>1. list \in Seq(FactualClaims) /\ \A n \in DOMAIN list : list[n] \in FactualClaims
    BY ClaimsFinite, ListGood
  <1>2. PassagesOf(Scoped) \in Seq(Read) /\ DOMAIN PassagesOf(Scoped) = DOMAIN Scoped
        /\ \A i \in DOMAIN Scoped : PassagesOf(Scoped)[i] = Scoped[i].passage
    BY ScopedHits, PassagesGood
  <1>3. given \in Seq(Read)
    BY <1>2
  <1>4. list \in Seq(S) /\ Contact \in Seq(S)
    <2>1. Contact = <<Contact[1]>> /\ Contact[1] \in S
      BY DEF Contact
    <2>2. Contact \in Seq(S)
      <3>1. \A x \in S : <<x>> \in Seq(S)
        OBVIOUS
      <3> HIDE DEF S
      <3> QED
        BY <2>1, <3>1
    <2>3. \A n \in DOMAIN list : list[n] \in S
      BY <1>1
    <2>4. DOMAIN list = 1 .. Len(list) /\ Len(list) \in Nat /\ list \in [1 .. Len(list) -> FactualClaims]
      BY <1>1, LenProperties
    <2>5. list \in [1 .. Len(list) -> S]
      BY <2>3, <2>4
    <2> HIDE DEF list, S
    <2> QED
      BY <2>2, <2>4, <2>5, IsASeq
  <1>5. \A i \in DOMAIN (list \o Contact) :
          (list \o Contact)[i] \in FactualClaims \/ (list \o Contact)[i] = Contact[1]
    <2>1. DOMAIN Contact = {1}
      BY DEF Contact
    <2> HIDE DEF list, S
    <2> QED
      BY <1>1, <1>4, <2>1, JoinedGood
  <1>6. DOMAIN Contact[1] = DOMAIN Silent /\ Contact[1].figures = {}
    BY DEF Contact, Silent
  <1>7. WellRead(list \o Contact)
    <2>1. \A q \in FactualClaims : DOMAIN q = DOMAIN Silent
      BY ClaimsGood, QuotedGood, OrderGood DEF Quotes
    <2> HIDE DEF list
    <2> QED
      BY <1>5, <1>6, <2>1 DEF WellRead
  <1>8. Backs(list \o Contact, given)
    <2> SUFFICES ASSUME NEW i \in DOMAIN (list \o Contact), NEW f \in (list \o Contact)[i].figures
                 PROVE  \E m \in (list \o Contact)[i].cites \cap DOMAIN given :
                          \E e \in given[m].facts : e.figure = f
      BY DEF Backs
    <2>1. (list \o Contact)[i] \in FactualClaims
      BY <1>5, <1>6
    <2>2. PICK k \in DOMAIN Scoped : Quotes((list \o Contact)[i], k)
      BY <2>1, ClaimsGood
    <2>3. PICK e \in Scoped[k].passage.facts : (list \o Contact)[i] = Quoted(e, k)
      <3> HIDE DEF list
      <3> QED
        BY <2>2, OrderGood DEF Quotes
    <2>4. k \in (list \o Contact)[i].cites /\ f = e.figure
      BY <2>3, QuotedGood
    <2>5. given = PassagesOf(Scoped)
      BY <2>1
    <2> HIDE DEF list, given
    <2> QED
      BY <1>2, <2>3, <2>4, <2>5
  <1>9. FactualAnswer = FinishedAnswer("extract", list \o Contact, given, FactualClaims = {})
    BY DEF FactualAnswer
  <1> HIDE DEF list, given
  <1> QED
    BY <1>3, <1>7, <1>8, <1>9, AnsweredGood

LEMMA LeastOf ==
  ASSUME NEW K \in SUBSET Int, IsFiniteSet(K), K # {}
  PROVE  /\ \E x \in K : \A y \in K : x <= y
         /\ \E x \in K : \A y \in K : y <= x
  <1> DEFINE C == Cardinality(K)
             Below(m) == {k \in K : k <= m}
  <1>1. C \in Nat /\ C # 0
    BY FS_CardinalityType, FS_EmptySet
  <1>2. 1 \in 1 .. C /\ C \in 1 .. C
    BY <1>1
  <1>3. PICK x \in K : NewMarker(x, K) = 1
    BY <1>2, RankGood
  <1>4. PICK z \in K : NewMarker(z, K) = C
    BY <1>2, RankGood
  <1>5. \A m \in K : IsFiniteSet(Below(m)) /\ Below(m) \in SUBSET K /\ m \in Below(m)
                     /\ NewMarker(m, K) = Cardinality(Below(m))
    BY FS_Subset DEF NewMarker
  <1>6. \A y \in K : x <= y
    <2> SUFFICES ASSUME NEW y \in K, y < x
                 PROVE  FALSE
      OBVIOUS
    <2>1. NewMarker(y, K) \in 1 .. C /\ NewMarker(y, K) # 1
      BY <1>3, RankGood
    <2>2. Below(y) \in SUBSET Below(x)
      <3>1. \A j \in K : j \in Int
        OBVIOUS
      <3>2. \A j \in K : j <= y => j <= x
        BY <3>1
      <3> QED
        BY <3>2
    <2> HIDE DEF Below
    <2>3. Cardinality(Below(y)) <= Cardinality(Below(x))
      BY <1>5, <2>2, FS_Subset
    <2> HIDE DEF C
    <2> QED
      BY <1>1, <1>3, <1>5, <2>1, <2>3
  <1>7. \A y \in K : y <= z
    <2>1. Below(z) = K
      <3> HIDE DEF Below
      <3> QED
        BY <1>4, <1>5, FS_Subset
    <2> QED
      BY <2>1
  <1> QED
    BY <1>6, <1>7

\* passages printed whole, each beside itself
LEMMA PrintedAnswerGood ==
  ASSUME NEW passages \in Seq(Read), NEW path, NEW text,
         DOMAIN text = DOMAIN passages,
         \A i \in DOMAIN text : text[i] = Printed(passages[i], i)
  PROVE  /\ Answered(FinishedAnswer(path, text, passages, FALSE))
         /\ FinishedAnswer(path, text, passages, FALSE).path = path
  <1>1. WellRead(text)
    BY PrintedGood DEF WellRead
  <1>2. Backs(text, passages)
    <2> SUFFICES ASSUME NEW i \in DOMAIN text, NEW f \in text[i].figures
                 PROVE  \E m \in text[i].cites \cap DOMAIN passages :
                          \E e \in passages[m].facts : e.figure = f
      BY DEF Backs
    <2>1. text[i].cites = {i} /\ text[i].figures = {e.figure : e \in passages[i].facts}
      BY PrintedGood
    <2> QED
      BY <2>1
  <1> QED
    BY <1>1, <1>2, AnsweredGood

LEMMA ExtractGood ==
  ASSUME found \in Seq(Hits), IsFiniteSet(request.part.relations)
  PROVE  Answered(Extract) /\ Extract.path \in {"extract", "refuse"}
  <1>1. CASE Factual
    BY <1>1, FactualGood DEF Extract
  <1>2. CASE ~Factual /\ Scoped = <<>>
    <2>1. <<>> \in Seq(Hits)
      OBVIOUS
    <2> QED
      BY <1>2, <2>1, RefusalGood DEF Extract
  <1>3. CASE ~Factual /\ Scoped # <<>>
    <2> DEFINE covers == {i \in DOMAIN Scoped : \E e \in Scoped[i].passage.facts : "coverage" \in e.on}
               at == IF decision.sumRefused /\ covers # {} THEN Min(covers) ELSE 1
               p == Scoped[at].passage
    <2>1. DOMAIN Scoped = 1 .. Len(Scoped) /\ Len(Scoped) \in Nat /\ Len(Scoped) # 0
      BY <1>3, ScopedHits, LenProperties, EmptySeq
    <2>2. covers # {} => Min(covers) \in covers
      <3>1. covers \in SUBSET (1 .. Len(Scoped)) /\ covers \in SUBSET Int
        BY <2>1
      <3>2. IsFiniteSet(1 .. Len(Scoped))
        BY <2>1, FS_Interval
      <3> HIDE DEF covers
      <3>3. IsFiniteSet(covers)
        BY <3>1, <3>2, FS_Subset
      <3>4. covers # {} => \E x \in covers : \A y \in covers : x <= y
        BY <3>1, <3>3, LeastOf
      <3> QED
        BY <3>4 DEF Min
    <2>3. at \in DOMAIN Scoped
      <3>1. covers \subseteq DOMAIN Scoped /\ 1 \in DOMAIN Scoped
        BY <2>1
      <3> HIDE DEF covers
      <3> QED
        BY <2>2, <3>1
    <2>4. p \in Read
      <3> HIDE DEF at
      <3>1. Scoped[at] \in Hits
        BY <2>3, ScopedHits, LenProperties, ElementOfSeq
      <3> QED
        BY <3>1 DEF Hits
    <2>5. Extract = FinishedAnswer("extract", <<Printed(p, 1)>>, <<p>>, FALSE)
      BY <1>3 DEF Extract
    <2> HIDE DEF p
    <2>6. <<p>> \in Seq(Read) /\ DOMAIN <<p>> = {1} /\ <<p>>[1] = p
          /\ DOMAIN <<Printed(p, 1)>> = {1} /\ <<Printed(p, 1)>>[1] = Printed(p, 1)
      BY <2>4
    <2>7. \A i \in DOMAIN <<Printed(p, 1)>> : <<Printed(p, 1)>>[i] = Printed(<<p>>[i], i)
      BY <2>6
    <2> DEFINE text == <<Printed(p, 1)>>
               given == <<p>>
    <2>8. given \in Seq(Read) /\ DOMAIN text = DOMAIN given
          /\ \A i \in DOMAIN text : text[i] = Printed(given[i], i)
      BY <2>6, <2>7
    <2> HIDE DEF text, given
    <2>9. Answered(FinishedAnswer("extract", text, given, FALSE))
          /\ FinishedAnswer("extract", text, given, FALSE).path = "extract"
      BY <2>8, PrintedAnswerGood
    <2> QED
      BY <2>5, <2>9 DEF text, given
  <1> QED
    BY <1>1, <1>2, <1>3

LEMMA DeferGood ==
  ASSUME found \in Seq(Hits), found # <<>>
  PROVE  LET a == FinishedAnswer("defer", <<Printed(found[1].passage, 1)>>, FirstOf(found, 1), FALSE)
         IN  Answered(a) /\ a.path = "defer"
  <1> DEFINE p == found[1].passage
             given == FirstOf(found, 1)
             text == <<Printed(p, 1)>>
  <1>1. given \in Seq(Read) /\ 1 \in DOMAIN given /\ given[1] = p
    BY FirstGood
  <1>2. DOMAIN text = {1} /\ text[1] = Printed(p, 1)
    OBVIOUS
  <1>3. WellRead(text)
    BY <1>2, PrintedGood DEF WellRead
  <1>4. Backs(text, given)
    <2> HIDE DEF p, given, text
    <2>1. text[1].cites = {1} /\ text[1].figures = {e.figure : e \in p.facts}
      BY <1>2, PrintedGood
    <2>2. \A f \in text[1].figures : \E m \in text[1].cites \cap DOMAIN given :
            \E e \in given[m].facts : e.figure = f
      BY <1>1, <2>1
    <2> QED
      BY <1>2, <2>2 DEF Backs
  <1> HIDE DEF text, given
  <1> QED
    BY <1>1, <1>3, <1>4, AnsweredGood DEF text, given

LEMMA DiagnosisGood ==
  ASSUME found \in Seq(Hits), NEW chosen, chosen = Diagnostic(found)
  PROVE  LET a == FinishedAnswer("diagnosis", [i \in DOMAIN chosen |-> Printed(chosen[i], i)],
                                 chosen, FALSE)
         IN  Answered(a) /\ a.path = "diagnosis"
  <1> DEFINE text == [i \in DOMAIN chosen |-> Printed(chosen[i], i)]
  <1>1. chosen \in Seq(Read)
    BY DiagnosticGood
  <1>2. DOMAIN text = DOMAIN chosen /\ \A i \in DOMAIN text : text[i] = Printed(chosen[i], i)
    OBVIOUS
  <1> HIDE DEF text
  <1>3. Answered(FinishedAnswer("diagnosis", text, chosen, FALSE))
        /\ FinishedAnswer("diagnosis", text, chosen, FALSE).path = "diagnosis"
    BY <1>1, <1>2, PrintedAnswerGood
  <1> QED
    BY <1>3 DEF text

LEMMA AskBackGood ==
  ASSUME found \in Seq(Hits)
  PROVE  LET a == FinishedAnswer("ask_back", Contact, FirstOf(found, 3), FALSE)
         IN  Answered(a) /\ a.path = "ask_back"
  <1>1. FirstOf(found, 3) \in Seq(Read)
    BY FirstGood
  <1>2. WellRead(Contact) /\ Backs(Contact, FirstOf(found, 3))
    BY ContactGood
  <1> QED
    BY <1>1, <1>2, AnsweredGood

----------------------------------------------------------------------------
(* A draft that passes every check.                                        *)

\* a fact of a passage that publishes the figure of the product, with no
\* qualifier that is not among these
Publishes(p, e, f, t, qualifiers) ==
  /\ e.figure = f
  /\ AkinToSome(t, e.names) \/ (e.names = {} /\ SameProduct(t, p.owner))
  /\ e.qualifiers \subseteq qualifiers

\* every figure of a sentence stands beside a fact it cites, of each product
\* the sentence is about, and with that fact's qualifiers
StandsIn(text, passages, product) ==
  \A i \in DOMAIN text : \A f \in text[i].figures : \A t \in Targets(text[i], product) :
    \E m \in text[i].cites \cap DOMAIN passages : \E e \in passages[m].facts :
      Publishes(passages[m], e, f, t, text[i].qualifiers)

\* as it is shown
Stands(a, product) ==
  \A i \in DOMAIN a.text : \A f \in a.text[i].figures : \A t \in Targets(a.text[i], product) :
    \E m \in a.text[i].cites : \E e \in a.sources[m].facts :
      Publishes(a.sources[m], e, f, t, a.text[i].qualifiers)

LEMMA PassesTheChecks ==
  ASSUME NEW draft, NEW passages, NEW asked, NEW product, NEW named, NEW question,
         RunChecks(draft, passages, asked, product, named, question) = {}, NEW i \in DOMAIN draft
  PROVE  /\ ~Unpublished(draft[i], passages)
         /\ ~Unbound(draft[i], passages, product)
         /\ ~LosesQualifier(draft[i], passages, product)
  <1>1. 2 \in 1 .. 8 /\ 3 \in 1 .. 8 /\ 4 \in 1 .. 8
    OBVIOUS
  <1> QED
    BY <1>1 DEF RunChecks

LEMMA CheckedIsBacked ==
  ASSUME NEW draft, NEW passages, NEW asked, NEW product, NEW named, NEW question,
         RunChecks(draft, passages, asked, product, named, question) = {}
  PROVE  Backs(draft, passages)
  <1> SUFFICES ASSUME NEW i \in DOMAIN draft, NEW f \in draft[i].figures
               PROVE  \E m \in draft[i].cites \cap DOMAIN passages :
                        \E e \in passages[m].facts : e.figure = f
    BY DEF Backs
  <1>1. PICK e \in Facts(CitedBy(draft[i], passages)) : e.figure = f
    BY PassesTheChecks DEF Unpublished
  <1>2. PICK m \in draft[i].cites \cap DOMAIN passages : e \in passages[m].facts
    BY <1>1 DEF Facts, CitedBy
  <1> QED
    BY <1>1, <1>2

LEMMA CheckedStands ==
  ASSUME NEW draft, NEW passages, NEW asked, NEW product, NEW named, NEW question,
         RunChecks(draft, passages, asked, product, named, question) = {}
  PROVE  StandsIn(draft, passages, product)
  <1> SUFFICES ASSUME NEW i \in DOMAIN draft, NEW f \in draft[i].figures,
                      NEW t \in Targets(draft[i], product)
               PROVE  \E m \in draft[i].cites \cap DOMAIN passages : \E e \in passages[m].facts :
                        Publishes(passages[m], e, f, t, draft[i].qualifiers)
    BY DEF StandsIn
  <1> DEFINE bound == BoundFacts(f, t, draft[i], passages)
  <1>1. bound # {}
    BY PassesTheChecks DEF Unbound
  <1>2. PICK e \in bound : e.qualifiers \subseteq draft[i].qualifiers
    BY <1>1, PassesTheChecks DEF LosesQualifier
  <1>3. PICK p \in CitedBy(draft[i], passages) :
          /\ e \in p.facts /\ e.figure = f
          /\ AkinToSome(t, e.names) \/ (e.names = {} /\ SameProduct(t, p.owner))
    BY DEF BoundFacts
  <1>4. PICK m \in draft[i].cites \cap DOMAIN passages : p = passages[m]
    BY DEF CitedBy
  <1>5. Publishes(p, e, f, t, draft[i].qualifiers)
    BY <1>2, <1>3 DEF Publishes
  <1> QED
    BY <1>3, <1>4, <1>5

LEMMA StandsShown ==
  ASSUME NEW text, WellRead(text), NEW passages \in Seq(Read), NEW product,
         StandsIn(text, passages, product), NEW a,
         a.text = Finished(text, passages), a.sources = Sources(text, passages)
  PROVE  Stands(a, product)
  <1> DEFINE shown == a.text
             sources == a.sources
  <1> SUFFICES ASSUME NEW i \in DOMAIN shown, NEW f \in shown[i].figures,
                      NEW t \in Targets(shown[i], product)
               PROVE  \E m \in shown[i].cites : \E e \in sources[m].facts :
                        Publishes(sources[m], e, f, t, shown[i].qualifiers)
    BY DEF Stands
  <1>1. i \in DOMAIN text
    BY DEF Finished
  <1>2. /\ shown[i].figures = text[i].figures /\ shown[i].names = text[i].names
        /\ shown[i].qualifiers = text[i].qualifiers
    <2>1. /\ Finished(text, passages)[i].figures = text[i].figures
          /\ Finished(text, passages)[i].names = text[i].names
          /\ Finished(text, passages)[i].qualifiers = text[i].qualifiers
      BY <1>1, FinishedGood
    <2> QED
      BY <2>1
  <1>3. f \in text[i].figures /\ t \in Targets(text[i], product)
    BY <1>2 DEF Targets
  <1>4. PICK m \in text[i].cites \cap DOMAIN passages : \E e \in passages[m].facts :
          Publishes(passages[m], e, f, t, text[i].qualifiers)
    <2> HIDE DEF shown, sources
    <2> QED
      BY <1>1, <1>3 DEF StandsIn
  <1>5. PICK n \in shown[i].cites : sources[n] = passages[m]
    BY <1>1, StillCites
  <1> HIDE DEF shown, sources
  <1> QED
    BY <1>2, <1>4, <1>5

\* the answer a draft becomes: it stands, or it is a refusal
LEMMA ComposeGood ==
  ASSUME found \in Seq(Hits), DOMAIN decision = DOMAIN Unrouted, NEW draft \in Drafts
  PROVE  /\ Answered(ComposeFrom(draft))
         /\ ComposeFrom(draft).path = "refuse"
            \/ (ComposeFrom(draft).path = "compose" /\ Stands(ComposeFrom(draft), Scope))
  <1> DEFINE d == [decision EXCEPT !.hits = Scoped]
             promoted == PromoteBound(Scoped, EvidenceBinding(d))
             passages == PassagesOf(promoted)
             question == [claims |-> request.part.claims, relations |-> request.part.relations]
             failures == RunChecks(draft, passages, decision.terms, Scope, Explicit, question)
  <1>1. d.hits = Scoped
    BY DEF Unrouted
  <1>2. promoted \in Seq(Hits)
    <2>1. \A p \in DOMAIN EvidenceBinding(d) : EvidenceBinding(d)[p] \subseteq DOMAIN Scoped
      <3> HIDE DEF d
      <3> QED
        BY <1>1, BindingGood
    <2> DEFINE bound == EvidenceBinding(d)
    <2> HIDE DEF bound
    <2>2. \A p \in DOMAIN bound : bound[p] \subseteq DOMAIN Scoped
      BY <2>1 DEF bound
    <2>3. PromoteBound(Scoped, bound) \in Seq(Hits)
      BY <2>2, ScopedHits, PromotedGood
    <2> QED
      BY <2>3 DEF bound
  <1>3. passages \in Seq(Read)
    <2> HIDE DEF promoted
    <2> QED
      BY <1>2, PassagesGood
  <1>4. ComposeFrom(draft) = IF failures # {} THEN Refusal(found)
                             ELSE FinishedAnswer("compose", draft, passages, FALSE)
    BY DEF ComposeFrom
  <1>5. CASE failures # {}
    <2>1. ComposeFrom(draft) = Refusal(found)
      BY <1>4, <1>5
    <2> QED
      BY <2>1, RefusalGood
  <1>6. CASE failures = {}
    <2> DEFINE a == FinishedAnswer("compose", draft, passages, FALSE)
    <2> HIDE DEF passages, question
    <2>1. WellRead(draft)
      BY AnsweringConstants DEF WellRead
    <2>2. Backs(draft, passages) /\ StandsIn(draft, passages, Scope)
      BY <1>6, CheckedIsBacked, CheckedStands
    <2>3. Answered(a) /\ a.path = "compose"
      BY <1>3, <2>1, <2>2, AnsweredGood
    <2>4. a.text = Finished(draft, passages) /\ a.sources = Sources(draft, passages)
      BY DEF FinishedAnswer
    <2>5. ComposeFrom(draft) = a
      BY <1>4, <1>6
    <2> HIDE DEF a
    <2>6. Stands(a, Scope)
      BY <1>3, <2>1, <2>2, <2>4, StandsShown
    <2> QED
      BY <2>3, <2>5, <2>6
  <1> QED
    BY <1>5, <1>6

\* a rewording that was compared states the same figures
LEMMA RewordedGood ==
  ASSUME NEW text, NEW reworded, Preserves(text, reworded), NEW sources, Figured(text, sources)
  PROVE  Figured(reworded, sources)
  <1>1. UNION {text[i].figures : i \in DOMAIN text}
          = UNION {reworded[i].figures : i \in DOMAIN reworded}
    <2>1. DOMAIN FigureBag(text) = DOMAIN FigureBag(reworded)
      BY DEF Preserves
    <2> QED
      BY <2>1 DEF FigureBag
  <1> QED
    BY <1>1 DEF Figured
----------------------------------------------------------------------------
(* What is remembered.                                                     *)

\* of what is carried only the product can be assumed
Asked ==
  /\ IsFiniteSet(request.part.named) /\ IsFiniteSet(request.part.relations)
  /\ \A s \in DOMAIN request.origins : request.origins[s] = Assumed => s = "product"

\* a slot is the person's, or was held and not assumed
Earned(s) ==
  \/ s \in DetectedSlots(request.part.words)
  \/ s = "product" /\ request.part.uses
  \/ s \in DOMAIN request.slots /\ SlotOr(request.origins, s, Carried) # Assumed

LEMMA CarriedGood ==
  /\ \A s \in DOMAIN CarriedSlots : s # "product" => s \in DOMAIN request.slots
  /\ Explicit # {} /\ NamedProduct = NoProduct => "product" \notin DOMAIN CarriedSlots
  /\ NamedProduct # NoProduct => "product" \in DOMAIN CarriedSlots
  /\ Explicit = {} /\ "product" \in DOMAIN CarriedSlots => "product" \in DOMAIN request.slots
  <1> DEFINE gone == IF Explicit # {} THEN {"product"} ELSE {}
             kept == Restrict(request.slots, DOMAIN request.slots \ gone)
  <1>1. DOMAIN kept = DOMAIN request.slots \ gone
    BY DEF Restrict
  <1>2. CarriedSlots = IF NamedProduct = NoProduct THEN kept
                       ELSE [s \in DOMAIN kept \cup {"product"} |->
                               IF s = "product" THEN NamedProduct ELSE kept[s]]
    BY DEF CarriedSlots
  <1>3. Explicit = {} /\ NamedProduct # NoProduct => "product" \in DOMAIN request.slots
    <2>1. Explicit = {} => Cardinality(Explicit) # 1
      BY FS_EmptySet
    <2> QED
      BY <2>1 DEF NamedProduct, SlotOr
  <1> HIDE DEF kept
  <1>4. DOMAIN CarriedSlots = IF NamedProduct = NoProduct THEN DOMAIN kept
                              ELSE DOMAIN kept \cup {"product"}
    BY <1>2
  <1> QED
    BY <1>1, <1>3, <1>4

LEMMA KeptGood ==
  ASSUME Asked, decision.slots = SlotsOf(request.part, CarriedSlots), NEW s \in DOMAIN KeptSlots
  PROVE  Earned(s)
  <1> DEFINE detected == DetectedSlots(request.part.words)
  <1>1. SUFFICES ASSUME s \notin detected
                 PROVE  Earned(s)
    BY DEF Earned
  <1>2. /\ DOMAIN decision.slots = detected \cup DOMAIN CarriedSlots
        /\ \A x \in DOMAIN CarriedSlots : x \notin detected => decision.slots[x] = CarriedSlots[x]
    BY DEF SlotsOf
  <1>3. /\ s \in DOMAIN decision.slots \/ (NamedProduct # NoProduct /\ s = "product")
        /\ s = "product" => SlotOr(DecisionOrigins, "product", Carried) # Assumed
    <2> DEFINE all == IF NamedProduct = NoProduct THEN decision.slots
                      ELSE [x \in DOMAIN decision.slots \cup {"product"} |->
                              IF x = "product" THEN NamedProduct ELSE decision.slots[x]]
               assumed == {x \in DOMAIN SlotFacts : SlotFacts[x] = Assumed}
                          \cup (IF SlotOr(DecisionOrigins, "product", Carried) = Assumed
                                THEN {"product"} ELSE {})
    <2>1. KeptSlots = Restrict(all, DOMAIN all \ assumed)
      BY DEF KeptSlots
    <2>2. DOMAIN KeptSlots = DOMAIN all \ assumed
      BY <2>1 DEF Restrict
    <2>3. s \in DOMAIN all /\ s \notin assumed
      <3> HIDE DEF all, assumed
      <3> QED
        BY <2>2
    <2> QED
      BY <2>3
  <1>4. s \in DOMAIN CarriedSlots
    BY <1>1, <1>2, <1>3, CarriedGood
  <1>5. Carried # Assumed /\ Stated # Assumed
    BY DEF Carried, Assumed, Stated
  <1>6. CASE s # "product"
    <2>1. s \in DOMAIN request.slots
      BY <1>4, <1>6, CarriedGood
    <2>2. SlotOr(request.origins, s, Carried) # Assumed
      BY <1>5, <1>6 DEF SlotOr, Asked
    <2> QED
      BY <2>1, <2>2 DEF Earned
  <1>7. CASE s = "product"
    <2>1. s \in DOMAIN CarriedOrigins => CarriedOrigins[s] # Assumed
      <3>1. ASSUME s \in DOMAIN CarriedOrigins
            PROVE  s \in DOMAIN DecisionOrigins /\ DecisionOrigins[s] = CarriedOrigins[s]
        <4>1. s \in DOMAIN decision.slots /\ decision.slots[s] = CarriedSlots[s]
          BY <1>1, <1>2, <1>4
        <4>2. s \in {x \in DOMAIN CarriedOrigins \cap DOMAIN CarriedSlots \cap DOMAIN decision.slots :
                       decision.slots[x] = CarriedSlots[x]}
          BY <1>4, <3>1, <4>1
        <4> QED
          BY <4>2 DEF DecisionOrigins, Restrict
      <3> QED
        BY <1>3, <1>7, <3>1 DEF SlotOr
    <2>2. CASE Explicit = {}
      <3>1. CarriedOrigins = request.origins
        BY <2>2 DEF CarriedOrigins
      <3>2. SlotOr(request.origins, s, Carried) # Assumed
        BY <1>5, <2>1, <3>1 DEF SlotOr
      <3>3. s \in DOMAIN request.slots
        BY <1>4, <1>7, <2>2, CarriedGood
      <3> QED
        BY <3>2, <3>3 DEF Earned
    <2>3. CASE Explicit # {} /\ NamedProduct # NoProduct
      <3>1. s \in DOMAIN CarriedOrigins
            /\ CarriedOrigins[s] = IF request.part.uses THEN Stated ELSE Assumed
        BY <1>7, <2>3 DEF CarriedOrigins
      <3> QED
        BY <1>7, <2>1, <3>1 DEF Earned
    <2>4. CASE Explicit # {} /\ NamedProduct = NoProduct
      BY <1>4, <1>7, <2>4, CarriedGood
    <2> QED
      BY <2>2, <2>3, <2>4
  <1> QED
    BY <1>6, <1>7
----------------------------------------------------------------------------
(* The invariant of a part: its hits are for its audience, what was        *)
(* decided follows from what was asked and found, and the answer, from the *)
(* moment there is one, shows and keeps only what it may.                  *)

Routed ==
  /\ DOMAIN decision = DOMAIN Unrouted
  /\ decision.slots = SlotsOf(request.part, CarriedSlots)
  /\ decision.path = "defer" => found # <<>>

Delivered(a) ==
  /\ DOMAIN a = DOMAIN Undrafted
  /\ a.sources \in Seq(Read)
  /\ Figured(a.text, a.sources) /\ Figured(a.disclosure, a.sources)
  /\ \A s \in DOMAIN a.kept : Earned(s)

AnsweringInv ==
  /\ stage \in {"idle", "searching", "routing", "producing", "finished", "served", "failed"}
  /\ found \in Seq(Hits)
  /\ stage = "idle" => found = <<>> /\ answer = Undrafted
  /\ stage # "idle" => Asked
  /\ stage = "producing" => Routed
  /\ Delivered(answer)
  /\ stage = "finished" /\ answer.path = "compose" => Stands(answer, Scope)

\* nothing is shown before an answer is made
LEMMA UndraftedGood ==
  ASSUME NEW a, DOMAIN a = DOMAIN Undrafted, a.text = <<>>, a.disclosure = <<>>,
         a.sources = <<>>, a.kept = Nothing
  PROVE  Delivered(a)
  <1>1. <<>> \in Seq(Read) /\ DOMAIN <<>> = {} /\ DOMAIN Nothing = {}
    BY DEF Nothing
  <1> QED
    BY <1>1 DEF Delivered, Figured

LEMMA UndraftedIs ==
  /\ Undrafted.text = <<>> /\ Undrafted.disclosure = <<>>
  /\ Undrafted.sources = <<>> /\ Undrafted.kept = Nothing
  /\ \A p : LET a == [Undrafted EXCEPT !.path = p]
            IN  /\ DOMAIN a = DOMAIN Undrafted
                /\ a.text = <<>> /\ a.disclosure = <<>>
                /\ a.sources = <<>> /\ a.kept = Nothing
  BY DEF Undrafted

LEMMA InitGood == AnsweringInit => AnsweringInv
  <1> SUFFICES ASSUME AnsweringInit
               PROVE  AnsweringInv
    OBVIOUS
  <1>1. Delivered(answer)
    BY UndraftedGood, UndraftedIs DEF AnsweringInit
  <1>2. found \in Seq(Hits)
    BY DEF AnsweringInit
  <1> QED
    BY <1>1, <1>2 DEF AnsweringInit, AnsweringInv

\* what depends on what was asked stands as long as that does
LEMMA SameRequest ==
  ASSUME request' = request
  PROVE  /\ Read' = Read /\ Hits' = Hits
         /\ Asked => Asked'
         /\ NamedProduct' = NamedProduct /\ CarriedSlots' = CarriedSlots /\ Explicit' = Explicit
  BY DEF Read, ReadableBy, Hits, Asked, NamedProduct, CarriedSlots, Explicit

LEMMA SameAnswer ==
  ASSUME request' = request, answer' = answer, Delivered(answer)
  PROVE  Delivered(answer)'
  BY SameRequest DEF Delivered, Earned, Figured, Undrafted

LEMMA AskPartKeeps == AnsweringInv /\ AskPart => AnsweringInv'
  <1> SUFFICES ASSUME AnsweringInv, AskPart
               PROVE  AnsweringInv'
    OBVIOUS
  <1>1. stage = "idle" /\ found = <<>> /\ answer = Undrafted
    BY DEF AnsweringInv, AskPart
  <1>2. PICK part \in Parts, context \in Contexts, audiences \in Readers, pieces \in Splits :
          /\ request' = [part |-> part, audiences |-> audiences,
                         slots |-> context.slots, origins |-> context.origins]
          /\ \E k \in DOMAIN PartsOf(pieces) :
               IF TopicOf(PartsOf(pieces)[k], pieces) # NoTopic
               THEN stage' = "served" /\ answer' = [Undrafted EXCEPT !.path = "route"]
               ELSE stage' = "searching" /\ UNCHANGED answer
    BY DEF AskPart
  <1>3. \/ stage' = "served" /\ answer' = [Undrafted EXCEPT !.path = "route"]
        \/ stage' = "searching" /\ answer' = Undrafted
    BY <1>1, <1>2
  <1>4. DOMAIN answer' = DOMAIN Undrafted
        /\ answer'.text = <<>> /\ answer'.disclosure = <<>>
        /\ answer'.sources = <<>> /\ answer'.kept = Nothing
    BY <1>3, UndraftedIs
  <1>5. Delivered(answer)'
    <2>1. <<>> \in Seq(Read') /\ DOMAIN <<>> = {} /\ DOMAIN Nothing = {}
      BY DEF Nothing
    <2> QED
      BY <1>4, <2>1 DEF Delivered, Figured, Undrafted
  <1>6. Asked'
    <2>1. /\ IsFiniteSet(part.named) /\ IsFiniteSet(part.relations)
          /\ \A s \in DOMAIN context.origins : context.origins[s] = Assumed => s = "product"
      BY AnsweringConstants
    <2>2. request'.part = part /\ request'.origins = context.origins
      BY <1>2
    <2> QED
      BY <2>1, <2>2 DEF Asked, Assumed
  <1>7. found' \in Seq(Hits')
    BY <1>1 DEF AskPart
  <1> QED
    BY <1>3, <1>5, <1>6, <1>7 DEF AnsweringInv

LEMMA SearchKeeps == AnsweringInv /\ Search => AnsweringInv'
  <1> SUFFICES ASSUME AnsweringInv, Search
               PROVE  AnsweringInv'
    OBVIOUS
  <1>1. stage = "searching" /\ Asked /\ Delivered(answer)
    BY DEF AnsweringInv, Search
  <1>2. PICK s \in Searched : \E c \in Contextual(s) : found' \in Recovered(c)
    BY DEF Search
  <1>3. s \in Seq(Hits)
    BY <1>1, SearchedGood DEF Asked, Explicit
  <1>4. found' \in Seq(Hits)
    BY <1>1, <1>2, <1>3, ContextualGood, RecoveredGood DEF Asked, Explicit
  <1>5. stage' = "routing" /\ request' = request /\ answer' = answer
    BY DEF Search
  <1> QED
    BY <1>1, <1>4, <1>5, SameRequest, SameAnswer DEF AnsweringInv

LEMMA RouteGood ==
  ASSUME NEW q, NEW hits, NEW audiences, NEW slots, NEW r, r = Route(q, hits, audiences, slots)
  PROVE  /\ DOMAIN r = DOMAIN Unrouted /\ r.slots = slots
         /\ r.path = "defer" => hits # <<>>
  <1>1. DOMAIN r = DOMAIN Unrouted /\ r.slots = slots /\ r.path = PathOf(Step(q, hits, audiences, slots))
    BY DEF Route, Decided, Unrouted
  <1>2. hits = <<>> => Step(q, hits, audiences, slots) = "1"
    BY DEF Step, AboveThreshold
  <1>3. PathOf("1") # "defer"
    BY DEF PathOf
  <1> QED
    BY <1>1, <1>2, <1>3

LEMMA ChooseRouteKeeps == AnsweringInv /\ ChooseRoute => AnsweringInv'
  <1> SUFFICES ASSUME AnsweringInv, ChooseRoute
               PROVE  AnsweringInv'
    OBVIOUS
  <1> DEFINE r == Route(request.part, found, request.audiences, SlotsOf(request.part, CarriedSlots))
  <1>1. stage = "routing" /\ Asked /\ Delivered(answer) /\ found \in Seq(Hits)
    BY DEF AnsweringInv, ChooseRoute
  <1>2. /\ DOMAIN r = DOMAIN Unrouted /\ r.slots = SlotsOf(request.part, CarriedSlots)
        /\ r.path = "defer" => found # <<>>
    BY RouteGood
  <1>3. NamedProduct # NoProduct => "product" \in DOMAIN SlotsOf(request.part, CarriedSlots)
    BY CarriedGood DEF SlotsOf
  <1>4. decision' = r
    <2>1. decision' = IF NamedProduct = NoProduct \/ "product" \in DOMAIN r.slots THEN r
                      ELSE [r EXCEPT !.slots = [s \in DOMAIN r.slots \cup {"product"} |->
                              IF s = "product" THEN NamedProduct ELSE r.slots[s]]]
      BY DEF ChooseRoute
    <2> HIDE DEF r
    <2> QED
      BY <1>2, <1>3, <2>1
  <1>5. stage' = "producing" /\ request' = request /\ answer' = answer /\ found' = found
    BY DEF ChooseRoute
  <1>6. Routed'
    <2> HIDE DEF r
    <2>1. SlotsOf(request.part, CarriedSlots)' = SlotsOf(request.part, CarriedSlots)
      BY <1>5, SameRequest DEF SlotsOf, DetectedSlots, Detect
    <2> QED
      BY <1>2, <1>4, <1>5, <2>1 DEF Routed, Unrouted
  <1> QED
    BY <1>1, <1>5, <1>6, SameRequest, SameAnswer DEF AnsweringInv

\* whichever path is taken
LEMMA ProducedGood ==
  ASSUME AnsweringInv, stage = "producing", Deterministically \/ Compose
  PROVE  /\ Answered(answer')
         /\ answer'.path = "compose" => Stands(answer', Scope)
  <1>1. found \in Seq(Hits) /\ Routed /\ IsFiniteSet(request.part.relations)
    BY DEF AnsweringInv, Asked
  <1>2. CASE Compose
    <2>1. CASE Scoped = <<>>
      <3>1. <<>> \in Seq(Hits)
        OBVIOUS
      <3> QED
        BY <1>2, <2>1, <3>1, RefusalGood DEF Compose
    <2>2. CASE Scoped # <<>>
      <3>1. PICK draft \in Drafts : answer' = ComposeFrom(draft)
        BY <1>2, <2>2 DEF Compose
      <3> QED
        BY <1>1, <3>1, ComposeGood DEF Routed
    <2> QED
      BY <2>1, <2>2
  <1>3. CASE Deterministically
    <2>1. CASE decision.path \in FactsFirst
      <3>1. answer' = Extract
        BY <1>3, <2>1 DEF Deterministically, FactsFirst
      <3> QED
        BY <1>1, <3>1, ExtractGood
    <2>2. CASE decision.path = "defer"
      <3>1. answer' = FinishedAnswer("defer", <<Printed(found[1].passage, 1)>>, FirstOf(found, 1), FALSE)
        BY <1>3, <2>2 DEF Deterministically, FactsFirst
      <3> QED
        BY <1>1, <2>2, <3>1, DeferGood DEF Routed
    <2>3. CASE decision.path = "diagnosis"
      <3> DEFINE chosen == Diagnostic(found)
      <3>1. answer' = FinishedAnswer("diagnosis", [i \in DOMAIN chosen |-> Printed(chosen[i], i)],
                                     chosen, FALSE)
        BY <1>3, <2>3 DEF Deterministically, FactsFirst
      <3> QED
        BY <1>1, <3>1, DiagnosisGood
    <2>4. CASE decision.path = "ask_back"
      <3>1. answer' = FinishedAnswer("ask_back", Contact, FirstOf(found, 3), FALSE)
        BY <1>3, <2>4 DEF Deterministically, FactsFirst
      <3> QED
        BY <1>1, <3>1, AskBackGood
    <2>5. CASE decision.path \notin FactsFirst \cup {"defer", "diagnosis", "ask_back"}
      <3>1. answer' = Refusal(found)
        BY <1>3, <2>5 DEF Deterministically
      <3> QED
        BY <1>1, <3>1, RefusalGood
    <2> QED
      BY <2>1, <2>2, <2>3, <2>4, <2>5
  <1> QED
    BY <1>2, <1>3

LEMMA ProduceKeeps == AnsweringInv /\ Produce => AnsweringInv'
  <1> SUFFICES ASSUME AnsweringInv, Produce
               PROVE  AnsweringInv'
    OBVIOUS
  <1>1. stage = "producing" /\ Asked /\ Routed /\ found \in Seq(Hits)
    BY DEF AnsweringInv, Produce
  <1>2. Answered(answer') /\ (answer'.path = "compose" => Stands(answer', Scope))
    BY <1>1, ProducedGood DEF Produce
  <1>3. stage' = "finished" /\ request' = request /\ found' = found /\ decision' = decision
    BY DEF Produce
  <1>4. \A s \in DOMAIN answer'.kept : Earned(s)
    BY <1>1, <1>2, KeptGood DEF Answered, Routed
  <1>5. Delivered(answer)'
    BY <1>2, <1>3, <1>4, SameRequest DEF Answered, Delivered, Earned, Figured, Undrafted
  <1>6. Scope' = Scope
    BY <1>3 DEF Scope
  <1>7. (answer.path = "compose" => Stands(answer, Scope))'
    BY <1>2, <1>6 DEF Stands
  <1> QED
    BY <1>1, <1>3, <1>5, <1>7, SameRequest DEF AnsweringInv

LEMMA PolishKeeps == AnsweringInv /\ Polish => AnsweringInv'
  <1> SUFFICES ASSUME AnsweringInv, Polish
               PROVE  AnsweringInv'
    OBVIOUS
  <1>1. stage = "finished" /\ Asked /\ Delivered(answer) /\ found \in Seq(Hits)
    BY DEF AnsweringInv, Polish
  <1>2. PICK text \in {answer.text} \cup {d \in Drafts : Preserves(answer.text, d)} :
          answer' = [answer EXCEPT !.text = text]
    BY DEF Polish
  <1>3. DOMAIN answer = DOMAIN Undrafted /\ "text" \in DOMAIN Undrafted
    BY <1>1 DEF Delivered, Undrafted
  <1>4. /\ DOMAIN answer' = DOMAIN answer
        /\ answer'.text = text /\ answer'.disclosure = answer.disclosure
        /\ answer'.sources = answer.sources /\ answer'.kept = answer.kept
    BY <1>2, <1>3
  <1>5. Figured(text, answer.sources)
    BY <1>1, <1>2, RewordedGood DEF Delivered
  <1>6. stage' = "served" /\ request' = request /\ found' = found
    BY DEF Polish
  <1>7. Delivered(answer)'
    BY <1>1, <1>4, <1>5, <1>6, SameRequest DEF Delivered, Earned, Figured, Undrafted
  <1> QED
    BY <1>1, <1>6, <1>7, SameRequest DEF AnsweringInv

LEMMA ModelFailsKeeps == AnsweringInv /\ ModelFails => AnsweringInv'
  <1> SUFFICES ASSUME AnsweringInv, ModelFails
               PROVE  AnsweringInv'
    OBVIOUS
  <1>1. stage # "idle" /\ Asked /\ Delivered(answer) /\ found \in Seq(Hits)
    BY DEF AnsweringInv, ModelFails
  <1>2. stage' = "failed" /\ request' = request /\ found' = found /\ answer' = answer
    BY DEF ModelFails
  <1> QED
    BY <1>1, <1>2, SameRequest, SameAnswer DEF AnsweringInv

LEMMA StutterKeeps == AnsweringInv /\ UNCHANGED answeringVars => AnsweringInv'
  <1> SUFFICES ASSUME AnsweringInv, UNCHANGED answeringVars
               PROVE  AnsweringInv'
    OBVIOUS
  <1>1. /\ stage' = stage /\ request' = request /\ found' = found
        /\ decision' = decision /\ answer' = answer
    BY DEF answeringVars
  <1>2. Delivered(answer)'
    BY <1>1, SameAnswer DEF AnsweringInv
  <1>3. Scope' = Scope
    BY <1>1 DEF Scope
  <1>4. Stands(answer, Scope) => Stands(answer, Scope)'
    BY <1>1, <1>3 DEF Stands
  <1>5. Routed => Routed'
    <2>1. SlotsOf(request.part, CarriedSlots)' = SlotsOf(request.part, CarriedSlots)
      BY <1>1, SameRequest DEF SlotsOf, DetectedSlots, Detect
    <2> QED
      BY <1>1, <2>1 DEF Routed, Unrouted
  <1> QED
    BY <1>1, <1>2, <1>4, <1>5, SameRequest DEF AnsweringInv

LEMMA NextKeeps == AnsweringInv /\ [AnsweringNext]_answeringVars => AnsweringInv'
  BY AskPartKeeps, SearchKeeps, ChooseRouteKeeps, ProduceKeeps, PolishKeeps, ModelFailsKeeps,
     StutterKeeps DEF AnsweringNext

\* A part keeps the invariant: each of its steps does, and it holds before one
\* is asked.
THEOREM AnsweringInvariant == AnsweringSpec => []AnsweringInv
  BY InitGood, NextKeeps, PTL DEF AnsweringSpec

----------------------------------------------------------------------------
(* The properties.                                                         *)

\* Whatever recovered it, no passage is held or shown that the audience may
\* not read.
THEOREM OnlyForItsAudience == AnsweringSpec => []AudienceKept
  <1>1. AnsweringInv => AudienceKept
    <2> SUFFICES ASSUME AnsweringInv
                 PROVE  AudienceKept
      OBVIOUS
    <2>1. \A i \in DOMAIN found : found[i].passage \in Read
      <3>1. \A i \in DOMAIN found : found[i] \in Hits
        BY LenProperties, ElementOfSeq DEF AnsweringInv
      <3> QED
        BY <3>1 DEF Hits
    <2>2. \A m \in DOMAIN answer.sources : answer.sources[m] \in Read
      <3> DEFINE sources == answer.sources
      <3>1. sources \in Seq(Read)
        BY DEF AnsweringInv, Delivered
      <3> HIDE DEF sources
      <3>2. \A m \in DOMAIN sources : sources[m] \in Read
        BY <3>1, LenProperties, ElementOfSeq
      <3> QED
        BY <3>2 DEF sources
    <2> QED
      BY <2>1, <2>2 DEF AudienceKept, Read, ReadableBy
  <1> QED
    BY <1>1, AnsweringInvariant, PTL

\* No figure reaches a person, reworded or not, that no source shown with it
\* publishes.
THEOREM FiguresArePublished == AnsweringSpec => []ServedFiguresArePublished
  <1>1. AnsweringInv => ServedFiguresArePublished
    BY DEF AnsweringInv, Delivered, Figured, ServedFiguresArePublished
  <1> QED
    BY <1>1, AnsweringInvariant, PTL

\* A figure of a composed answer stands beside a source that publishes it of
\* each product its sentence is about, with every qualifier, after the markers
\* were renumbered and the sources cut down.
THEOREM FiguresStand == AnsweringSpec => []FiguresStandWhereTheyAreCited
  <1>1. AnsweringInv => FiguresStandWhereTheyAreCited
    BY DEF AnsweringInv, Stands, Publishes, FiguresStandWhereTheyAreCited
  <1> QED
    BY <1>1, AnsweringInvariant, PTL

\* What a later turn inherits is the person's or was held and not assumed.
THEOREM NoGuessIsKept == AnsweringSpec => []GuessesAreNotRemembered
  <1>1. AnsweringInv => GuessesAreNotRemembered
    BY DEF AnsweringInv, Delivered, Earned, GuessesAreNotRemembered
  <1> QED
    BY <1>1, AnsweringInvariant, PTL

----------------------------------------------------------------------------
(* Photographs: one more of them only adds to what may be acted on, and a  *)
(* slot that is settled has the one value that all of that agrees on.      *)

Replies == {Observe(photo) : photo \in Photographs}
Plain(p) == IsFiniteSet(p.observations) /\ \A o \in p.observations : o.confidence \in Int

LEMMA DecodedGood ==
  ASSUME NEW c, DecodedConfidence(c) # NoConfidence
  PROVE  DecodedConfidence(c) \in Int
  <1>1. CASE c.word = "number" /\ c.hundredths \in 0 .. 100
    BY <1>1 DEF DecodedConfidence
  <1>2. CASE /\ c.word = "number" /\ c.hundredths \notin 0 .. 100
             /\ c.hundredths \in {100 * n : n \in 2 .. 100}
    <2>1. c.hundredths \in Int
      BY <1>2
    <2>2. DecodedConfidence(c) = c.hundredths \div 100
      BY <1>2 DEF DecodedConfidence
    <2> QED
      BY <2>1, <2>2
  <1>3. CASE c.word # "number" \/ c.hundredths \notin (0 .. 100) \cup {100 * n : n \in 2 .. 100}
    BY <1>3 DEF DecodedConfidence, HighFloor, UncertainFloor, NoConfidence
  <1> QED
    BY <1>1, <1>2, <1>3

LEMMA DecodeGood ==
  ASSUME NEW reply, Len(reply.saw) \in Nat
  PROVE  Plain(Decode(reply))
  <1> DEFINE n == IF Len(reply.saw) < MaxObservations THEN Len(reply.saw) ELSE MaxObservations
             usable == {i \in 1 .. n : Usable(reply.saw[i])}
             first == {i \in usable : \A j \in usable : SameReading(reply.saw[i], reply.saw[j]) => i <= j}
             seen == {Observation(reply.saw[i]) : i \in first}
  <1>1. n \in Nat
    BY PerceptionConstants
  <1>2. IsFiniteSet(first)
    <2>1. first \in SUBSET (1 .. n)
      OBVIOUS
    <2> HIDE DEF n, first
    <2>2. IsFiniteSet(1 .. n)
      BY <1>1, FS_Interval
    <2> QED
      BY <2>1, <2>2, FS_Subset
  <1>3. IsFiniteSet(seen)
    <2> HIDE DEF first
    <2> DEFINE g == [i \in first |-> Observation(reply.saw[i])]
    <2>1. g \in [first -> seen]
      OBVIOUS
    <2>2. IsFiniteSet({g[i] : i \in first})
      <3> HIDE DEF g, seen
      <3> QED
        BY <1>2, <2>1, ImageFinite
    <2> QED
      BY <2>2
  <1>4. \A o \in seen : o.confidence \in Int
    <2>1. \A o : Usable(o) => Observation(o).confidence \in Int
      BY DecodedGood DEF Usable, Observation
    <2>2. \A i \in first : Usable(reply.saw[i])
      OBVIOUS
    <2> HIDE DEF first
    <2> QED
      BY <2>1, <2>2
  <1>5. Decode(reply).observations = seen
    BY DEF Decode
  <1> HIDE DEF seen
  <1> QED
    BY <1>3, <1>4, <1>5 DEF Plain

LEMMA ObserveGood ==
  ASSUME NEW p \in Replies
  PROVE  Plain(p)
  <1>1. PICK photo \in Photographs : p = Observe(photo)
    BY DEF Replies
  <1>2. IsFiniteSet({})
    BY FS_EmptySet
  <1>3. CASE p = Decode(photo)
    BY <1>3, PerceptionConstants, DecodeGood
  <1>4. CASE p # Decode(photo)
    <2>1. p.observations = {}
      BY <1>1, <1>4 DEF Observe, NoPerception
    <2> QED
      BY <1>2, <2>1 DEF Plain
  <1> QED
    BY <1>3, <1>4

\* the replies of a turn, and all they observe
LEMMA AcceptableGood ==
  ASSUME NEW ps \in Seq(Replies), NEW a
  PROVE  /\ IsFiniteSet(Acceptable(a, ps))
         /\ \A o \in Acceptable(a, ps) : o.confidence \in Int
  <1> DEFINE observed == [i \in DOMAIN ps |-> ps[i].observations]
             all == {observed[i] : i \in DOMAIN ps}
  <1>1. DOMAIN ps = 1 .. Len(ps) /\ Len(ps) \in Nat /\ \A i \in DOMAIN ps : ps[i] \in Replies
    BY LenProperties, ElementOfSeq
  <1>2. \A i \in DOMAIN ps : IsFiniteSet(observed[i]) /\ \A o \in observed[i] : o.confidence \in Int
    BY <1>1, ObserveGood DEF Plain
  <1>3. IsFiniteSet(all)
    <2>1. IsFiniteSet(DOMAIN ps)
      BY <1>1, FS_Interval
    <2>2. observed \in [DOMAIN ps -> all]
      OBVIOUS
    <2>3. IsFiniteSet({observed[i] : i \in DOMAIN ps})
      <3> HIDE DEF observed, all
      <3> QED
        BY <2>1, <2>2, ImageFinite
    <2> QED
      BY <2>3
  <1>4. IsFiniteSet(UNION all)
    <2>1. \A T \in all : IsFiniteSet(T)
      <3> HIDE DEF observed
      <3> QED
        BY <1>2
    <2> HIDE DEF all
    <2> QED
      BY <1>3, <2>1, FS_UNION
  <1>5. \A o \in Acceptable(a, ps) : \E i \in DOMAIN ps : o \in observed[i]
    BY DEF Acceptable, Looked
  <1>6. Acceptable(a, ps) \in SUBSET (UNION all)
    <2> HIDE DEF observed
    <2> QED
      BY <1>5
  <1> HIDE DEF all, observed
  <1>7. IsFiniteSet(Acceptable(a, ps))
    BY <1>4, <1>6, FS_Subset
  <1> QED
    BY <1>2, <1>5, <1>7

LEMMA SurestGood ==
  ASSUME NEW S, IsFiniteSet(S), S # {}, \A o \in S : o.confidence \in Int
  PROVE  Surest(S) \in S
  <1> DEFINE g == [o \in S |-> o.confidence]
             K == {g[o] : o \in S}
  <1>1. g \in [S -> K] /\ K \in SUBSET Int /\ K # {}
    OBVIOUS
  <1>2. IsFiniteSet(K)
    <2>1. IsFiniteSet({g[o] : o \in S})
      <3> HIDE DEF g, K
      <3> QED
        BY <1>1, ImageFinite
    <2> QED
      BY <2>1
  <1>3. \E x \in K : \A y \in K : y <= x
    <2> HIDE DEF K
    <2> QED
      BY <1>1, <1>2, LeastOf
  <1>4. \E o \in S : \A p \in S : p.confidence <= o.confidence
    BY <1>3
  <1> QED
    BY <1>4 DEF Surest

\* what is settled is the one value that all that may be acted on reads
Settles(a, ps, v) ==
  /\ Acceptable(a, ps) # {}
  /\ \A o \in Acceptable(a, ps) : ValueOf(o) = v

LEMMA RoutedIsSettled ==
  ASSUME NEW ps \in Seq(Replies), NEW a \in DOMAIN RoutedSlots(ps)
  PROVE  Settles(a, ps, RoutedSlots(ps)[a])
  <1> DEFINE accepted == Acceptable(a, ps)
             values == {ValueOf(o) : o \in accepted}
             r == Aggregate(a, ps)
             held == IF a = "substrate" /\ Covered(ps) THEN [r EXCEPT !.withheld = TRUE] ELSE r
             refused == \E p \in Looked(ps) : a \in p.cannot
             res == Resolved1(a, ps)
  <1>1. Certainty(res) = "observed" /\ RoutedSlots(ps)[a] = res.value
    BY DEF RoutedSlots
  <1>2. res = IF refused /\ Certainty(held) # "observed"
              THEN [held EXCEPT !.status = "not determinable", !.withheld = TRUE] ELSE held
    BY DEF Resolved1
  <1>3. DOMAIN r = {"value", "status", "confidence", "withheld"}
    BY DEF Aggregate
  <1>4. \A x : Certainty(x) = "observed" => x.status = "confirmed" /\ ~x.withheld
    BY DEF Certainty
  <1>5. r.status = "confirmed" /\ res.value = r.value
    <2> HIDE DEF r, refused
    <2>1. DOMAIN held = DOMAIN r /\ held.status = r.status /\ held.value = r.value
      BY <1>3
    <2> HIDE DEF held
    <2>2. res = held
      <3>1. ASSUME res = [held EXCEPT !.status = "not determinable", !.withheld = TRUE]
            PROVE  FALSE
        <4>1. res.status = "not determinable"
          BY <1>3, <2>1, <3>1
        <4> QED
          BY <1>1, <1>4, <4>1
      <3> QED
        BY <1>2, <3>1
    <2>3. r.status = "confirmed"
      BY <1>1, <1>4, <2>1, <2>2
    <2> QED
      BY <2>1, <2>2, <2>3
  <1>6. /\ ~(Cardinality(values) > 1) /\ accepted # {}
        /\ r.value = ValueOf(Surest(accepted))
    BY <1>5 DEF Aggregate
  <1>7. IsFiniteSet(accepted) /\ \A o \in accepted : o.confidence \in Int
    BY AcceptableGood
  <1>8. Surest(accepted) \in accepted
    <2> HIDE DEF accepted
    <2> QED
      BY <1>6, <1>7, SurestGood
  <1>9. IsFiniteSet(values)
    <2> DEFINE g == [o \in accepted |-> ValueOf(o)]
    <2> HIDE DEF accepted
    <2>1. g \in [accepted -> values]
      OBVIOUS
    <2>2. IsFiniteSet({g[o] : o \in accepted})
      <3> HIDE DEF g, values
      <3> QED
        BY <1>7, <2>1, ImageFinite
    <2> QED
      BY <2>2
  <1>10. \A u, v \in values : u = v
    <2> HIDE DEF values
    <2> SUFFICES ASSUME NEW u \in values, NEW v \in values, u # v
                 PROVE  FALSE
      OBVIOUS
    <2>1. {u} \in SUBSET values /\ {u} # values
      OBVIOUS
    <2>2. IsFiniteSet({u}) /\ Cardinality({u}) = 1 /\ Cardinality(values) \in Nat
      BY <1>9, FS_Singleton, FS_CardinalityType
    <2>3. Cardinality({u}) <= Cardinality(values) /\ Cardinality({u}) # Cardinality(values)
      BY <1>9, <2>1, FS_Subset
    <2> QED
      BY <1>6, <2>2, <2>3
  <1>11. \A o \in accepted : ValueOf(o) = ValueOf(Surest(accepted))
    <2> HIDE DEF accepted
    <2> QED
      BY <1>8, <1>10
  <1> HIDE DEF r, res
  <1> QED
    BY <1>1, <1>5, <1>6, <1>11 DEF Settles

LEMMA MoreIsAccepted ==
  ASSUME NEW ps \in Seq(Replies), NEW p \in Replies, NEW a
  PROVE  Acceptable(a, ps) \subseteq Acceptable(a, Append(ps, p))
  <1>1. \A i \in 1 .. Len(ps) : Append(ps, p)[i] = ps[i] /\ i \in 1 .. Len(Append(ps, p))
    BY AppendProperties, LenProperties
  <1>2. DOMAIN ps = 1 .. Len(ps) /\ DOMAIN Append(ps, p) = 1 .. Len(Append(ps, p))
    BY AppendProperties, LenProperties
  <1>3. Looked(ps) \subseteq Looked(Append(ps, p))
    BY <1>1, <1>2 DEF Looked
  <1> QED
    BY <1>3 DEF Acceptable

PerceptionInv == perceptions \in Seq(Replies)

LEMMA ReadKeeps == PerceptionInv /\ [ReadPhotograph]_perceptions => PerceptionInv'
  BY AppendProperties DEF PerceptionInv, ReadPhotograph, Replies

THEOREM PerceptionInvariant == PerceptionSpec => []PerceptionInv
  <1>1. PerceptionInit => PerceptionInv
    BY DEF PerceptionInit, PerceptionInv
  <1> QED
    BY <1>1, ReadKeeps, PTL DEF PerceptionSpec

\* One more photograph adds a slot or takes one back, and never replaces what
\* the others settled: what is settled is agreed on by all that may be acted
\* on, and that only grows.
THEOREM PhotographsDoNotOverrule == PerceptionSpec => NoSlotChangesHands
  <1> DEFINE Stays == \A a \in DOMAIN RoutedSlots(perceptions) \cap DOMAIN RoutedSlots(perceptions') :
                        RoutedSlots(perceptions')[a] = RoutedSlots(perceptions)[a]
  <1>1. PerceptionInv /\ [ReadPhotograph]_perceptions => [Stays]_perceptions
    <2> SUFFICES ASSUME PerceptionInv, ReadPhotograph
                 PROVE  Stays
      OBVIOUS
    <2> DEFINE ps == perceptions
    <2>1. PICK photo \in Photographs : perceptions' = Append(ps, Observe(photo))
      BY DEF ReadPhotograph
    <2> DEFINE p == Observe(photo)
    <2>2. ps \in Seq(Replies) /\ p \in Replies
      BY DEF PerceptionInv, Replies
    <2>3. Append(ps, p) \in Seq(Replies)
      BY <2>2, AppendProperties
    <2> HIDE DEF p
    <2> SUFFICES ASSUME NEW a \in DOMAIN RoutedSlots(ps) \cap DOMAIN RoutedSlots(Append(ps, p))
                 PROVE  RoutedSlots(Append(ps, p))[a] = RoutedSlots(ps)[a]
      BY <2>1 DEF p
    <2>4. Settles(a, ps, RoutedSlots(ps)[a])
      BY <2>2, RoutedIsSettled
    <2>5. Settles(a, Append(ps, p), RoutedSlots(Append(ps, p))[a])
      BY <2>3, RoutedIsSettled
    <2>6. Acceptable(a, ps) \subseteq Acceptable(a, Append(ps, p))
      BY <2>2, MoreIsAccepted
    <2> QED
      BY <2>4, <2>5, <2>6 DEF Settles
  <1> QED
    BY <1>1, PerceptionInvariant, PTL DEF PerceptionSpec, NoSlotChangesHands
=============================================================================
