------------------------------- MODULE Checks -------------------------------
(***************************************************************************)
(* What stands between a sentence a model wrote and the person who asked:  *)
(* run_checks and the operators around it in answering/answer.py, and the  *)
(* comparison answering/phrasing.py makes of a reworded answer.            *)
(*                                                                         *)
(* A passage is what the checks read of it: the terms it holds, the        *)
(* products it names, its figures (each with the qualifiers, conditions,   *)
(* names and terms of its sentence, and whether it is a finish coat's on   *)
(* the sheet of a base coat), what it claims of a product, and the layer   *)
(* relations it states.  A draft is a sequence of sentences read the same  *)
(* way; what leads a sentence is its first qualifier, with the figure that *)
(* follows it.                                                             *)
(***************************************************************************)
EXTENDS Routing

CONSTANTS Properties,  \* waterproof, watertight, structural, certified
          Published,   \* the names the site publishes: products, colours, merchants
          Begins       \* <<p, q>>: the name of q begins with p's, both or neither of a primer

OverlapNum == 4        \* a clause shares at least 4 in 10 of its words
OverlapDen == 10

\* the elements of a list at some of its positions, in their order
NewMarker(m, markers) == Cardinality({k \in markers : k <= m})
ElementsAt(list, at) ==
  [n \in 1 .. Cardinality(at) |-> list[CHOOSE m \in at : NewMarker(m, at) = n]]

\* the passage a marker cites, and the passages a sentence cites
CitedBy(s, passages) == {passages[m] : m \in s.cites \cap DOMAIN passages}

NoFigure == "no figure"

\* _same_product: one name begins the other
SameProduct(p, q) == <<p, q>> \in Begins \/ <<q, p>> \in Begins
AkinToSome(p, S) == \E q \in S : SameProduct(p, q)

----------------------------------------------------------------------------
(* What a passage is evidence of.                                          *)

\* _property_support: the passages about the product that say most of it, in the
\* sentence of a figure first; those that are the product's own come before those
\* that only name it
PropertySupport(passages, terms, product) ==
  LET found == {m \in DOMAIN passages : passages[m].states \cap terms # {}}
      own == {m \in found : SameProduct(product, passages[m].owner)}
      related == {m \in found : product \in passages[m].names}
      eligible == IF product = NoProduct THEN found
                  ELSE IF own # {} THEN own ELSE related
      longest(m) == Max({Weight[t] : t \in passages[m].states \cap terms})
      direct(m) == \E e \in passages[m].facts : e.terms \cap terms # {}
  IN  {m \in eligible : \A n \in eligible :
         \/ direct(m) /\ ~direct(n)
         \/ direct(m) = direct(n) /\ longest(m) >= longest(n)}

EvidenceBinding(decision) ==
  LET support == [p \in DOMAIN decision.evidence |->
                    PropertySupport([i \in DOMAIN decision.hits |-> decision.hits[i].passage],
                                    decision.evidence[p], SlotOr(decision.slots, "product", NoProduct))]
  IN  [p \in {x \in DOMAIN support : support[x] # {}} |-> support[p]]

\* one property, one passage: it is put first
PromoteBound(hits, bound) ==
  IF Cardinality(DOMAIN bound) # 1 THEN hits
  ELSE LET markers == UNION {bound[p] : p \in DOMAIN bound}
       IN  IF Cardinality(markers) # 1 THEN hits
           ELSE LET m == CHOOSE x \in markers : TRUE
                IN  <<hits[m]>> \o ElementsAt(hits, {i \in DOMAIN hits : hits[i] # hits[m]})

\* the evidence for the products a question is about, all of it when for none
ScopedEvidence(hits, requested) ==
  IF requested = {} THEN hits
  ELSE ElementsAt(hits, {i \in DOMAIN hits : \E p \in requested :
         SameProduct(p, hits[i].passage.owner) \/ AkinToSome(p, hits[i].passage.names)})

----------------------------------------------------------------------------
(* run_checks.  Each check is the sentences, or the draft, that fail it.   *)

AllWords(S) == UNION {p.states : p \in S}
AllNames(S) == UNION {p.names : p \in S}
Facts(S) == UNION {p.facts : p \in S}

\* 1: every sentence cites, cites what was retrieved, and overlaps it
Uncited(s, passages) ==
  \/ s.cites = {}
  \/ ~(s.cites \subseteq DOMAIN passages)
  \/ \E clause \in s.clauses :
       OverlapDen * Cardinality(clause \cap AllWords(CitedBy(s, passages)))
         < OverlapNum * Cardinality(clause)

\* 2: every figure is in a passage its sentence cites
Unpublished(s, passages) ==
  \E f \in s.figures : ~\E e \in Facts(CitedBy(s, passages)) : e.figure = f

\* 3: no figure is stated of a product and cited to another's passage
Misattributed(s, passages) ==
  LET owners == {p.owner : p \in CitedBy(s, passages)}
  IN  /\ s.figures # {}
      /\ \E p \in {passages[i].owner : i \in DOMAIN passages} \ {NoProduct} :
           p \notin owners /\ p \in s.names /\ p \notin AllNames(CitedBy(s, passages))

\* the sentences a figure can be bound to: they name the target or, naming
\* nothing, stand in a passage of the target's own; a finish coat's on the sheet
\* of a base coat is bound by a sentence about a finish coat
BoundFacts(f, target, s, passages) ==
  UNION {{e \in p.facts : /\ e.figure = f
                          /\ \/ AkinToSome(target, e.names)
                             \/ e.names = {} /\ SameProduct(target, p.owner)
                          /\ e.coat => s.coat} : p \in CitedBy(s, passages)}

Targets(s, product) ==
  IF s.names # {} THEN s.names ELSE {product} \ {NoProduct}

\* _numeric_boundaries: checks 3 and 4 for each product the sentence is about
Unbound(s, passages, product) ==
  \E f \in s.figures, t \in Targets(s, product) :
    BoundFacts(f, t, s, passages) = {}

(* Mutant: a qualifier may be left out, only not made up.                   *)
LosesQualifier_MadeUp(s, passages, product) ==
  \E q \in s.leads : ~\E e \in Facts(CitedBy(s, passages)) :
    q.word \in e.qualifiers /\ q.figure \in {NoFigure, e.figure}

\* 4: the qualifier that leads is published with its figure, and a figure travels
\* with all that qualifies it and under the same conditions
LosesQualifier(s, passages, product) ==
  \/ \E q \in s.leads : ~\E e \in Facts(CitedBy(s, passages)) :
        q.word \in e.qualifiers /\ q.figure \in {NoFigure, e.figure}
  \/ \E f \in s.figures, t \in Targets(s, product) :
       LET bound == BoundFacts(f, t, s, passages)
       IN  /\ bound # {}
           /\ ~\E e \in bound : /\ e.qualifiers \subseteq s.qualifiers
                                /\ e.conditions = s.conditions

\* 5: a name is one the site publishes, or in a passage
Invented(s, passages) ==
  \E n \in s.capitals : n \notin Published
    /\ \A i \in DOMAIN passages : n \notin passages[i].names

\* what the question itself claims, and the layer orders it asks for; an answer
\* printed field by field is not read against it
NoQuestion == [claims |-> {}, relations |-> {}]

\* 6: what was asked for is in a passage that is cited; a property the question
\* raises is answered for each product it is raised about
OffTopic(draft, passages, asked, product, named, question) ==
  LET cited == UNION {CitedBy(draft[i], passages) : i \in DOMAIN draft}
      considered == IF cited # {} THEN cited ELSE {passages[i] : i \in DOMAIN passages}
      about == IF named # {} THEN named ELSE {product} \ {NoProduct}
      saying(prop) == {i \in DOMAIN draft : prop \in draft[i].claims}
      answered(prop) == UNION {Targets(draft[i], product) : i \in saying(prop)}
  IN  \/ asked # {} /\ AllWords(considered) \cap asked = {}
      \/ \E prop \in question.claims :
           \/ saying(prop) = {}
           \/ \E t \in about : ~AkinToSome(t, answered(prop))
           \/ \A p \in cited : \A c \in p.claims : c[1] # prop

\* 7: it names only the product asked about, those the question names, and
\* those the product's own cited passages name
Strays(draft, passages, product, named) ==
  LET cited == UNION {CitedBy(draft[i], passages) : i \in DOMAIN draft}
      allowed == {product} \cup named
                 \cup AllNames({p \in cited : SameProduct(product, p.owner)})
  IN  /\ product # NoProduct
      /\ \E i \in DOMAIN draft : \E n \in draft[i].names : ~AkinToSome(n, allowed)

\* 8: a layer order, or a claim about a property, is stated by the passage; words
\* of layers from which no order is read have to be the passage's own
Unsupportable(s, passages, product) ==
  \/ s.layers /\ Cardinality(s.names) > 1 /\ s.relations = {}
  \/ \E r \in s.relations : ~\E p \in CitedBy(s, passages) : r \in p.relations
  \/ \E prop \in s.claims : ~\E p \in CitedBy(s, passages) :
       Targets(s, product) # {} /\ \A t \in Targets(s, product) : <<prop, t>> \in p.claims

\* the layer orders that were asked for
OrderMissing(draft, question) ==
  \E r \in question.relations : \A i \in DOMAIN draft : r \notin draft[i].relations

\* the numbers of the checks a draft fails
RunChecks(draft, passages, asked, product, named, question) ==
  {n \in 1 .. 8 :
     \/ n = 1 /\ \E i \in DOMAIN draft : Uncited(draft[i], passages)
     \/ n = 2 /\ \E i \in DOMAIN draft : Unpublished(draft[i], passages)
     \/ n = 3 /\ \E i \in DOMAIN draft : \/ Misattributed(draft[i], passages)
                                         \/ Unbound(draft[i], passages, product)
     \/ n = 4 /\ \E i \in DOMAIN draft : LosesQualifier(draft[i], passages, product)
     \/ n = 5 /\ \E i \in DOMAIN draft : Invented(draft[i], passages)
     \/ n = 6 /\ OffTopic(draft, passages, asked, product, named, question)
     \/ n = 7 /\ Strays(draft, passages, product, named)
     \/ n = 8 /\ \/ OrderMissing(draft, question)
                 \/ \E i \in DOMAIN draft : Unsupportable(draft[i], passages, product)}

----------------------------------------------------------------------------
(* Finishing: the markers that are cited are renumbered, and the sources   *)
(* are the passages they cite; a text with a marker nothing backs keeps    *)
(* every passage it was given.                                             *)

Markers(draft) == UNION {draft[i].cites : i \in DOMAIN draft}
Backed(draft, passages) == Markers(draft) \cap DOMAIN passages
Renumbers(draft, passages) == Markers(draft) # {} /\ Backed(draft, passages) = Markers(draft)

Sources(draft, passages) ==
  IF ~Renumbers(draft, passages) THEN passages
  ELSE ElementsAt(passages, Backed(draft, passages))

Finished(draft, passages) ==
  IF ~Renumbers(draft, passages) THEN draft
  ELSE [i \in DOMAIN draft |->
          [draft[i] EXCEPT !.cites = {NewMarker(m, Markers(draft)) : m \in draft[i].cites}]]

----------------------------------------------------------------------------
(* Rewording a verified answer (preservation_failures): the citations and  *)
(* the figures of the whole text, the products it names, and that what was *)
(* limited or conditional still is.                                        *)

CiteBag(draft) == [m \in Markers(draft) |-> Cardinality({i \in DOMAIN draft : m \in draft[i].cites})]
FigureBag(draft) ==
  [f \in UNION {draft[i].figures : i \in DOMAIN draft} |->
     Cardinality({i \in DOMAIN draft : f \in draft[i].figures})]
Limits(draft) == \E i \in DOMAIN draft : draft[i].limits
Conditional(draft) == \E i \in DOMAIN draft : draft[i].conditional
DraftNames(draft) == UNION {draft[i].names : i \in DOMAIN draft}

(* Mutant: the figures are not compared.                                    *)
Preserves_AnyFigure(original, rewritten) ==
  /\ rewritten # <<>>
  /\ CiteBag(original) = CiteBag(rewritten)
  /\ DraftNames(original) = DraftNames(rewritten)
  /\ Limits(original) => Limits(rewritten)
  /\ Conditional(original) => Conditional(rewritten)

Preserves(original, rewritten) ==
  /\ rewritten # <<>>
  /\ CiteBag(original) = CiteBag(rewritten)
  /\ FigureBag(original) = FigureBag(rewritten)
  /\ DraftNames(original) = DraftNames(rewritten)
  /\ Limits(original) => Limits(rewritten)
  /\ Conditional(original) => Conditional(rewritten)
=============================================================================
