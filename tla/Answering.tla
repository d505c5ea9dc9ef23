----------------------------- MODULE Answering -----------------------------
(***************************************************************************)
(* One part of a message answered from the published passages:             *)
(* AnsweringEngine._answer_part and the AnswerEngine of                    *)
(* answering/answer.py, up to the rewording that engine.py applies last.   *)
(* Similarity search is the embedding's judgement: it may rank any of the  *)
(* readable passages, and only lexical search is determined by the text.   *)
(* What the model writes is any of Drafts; any call of a model may fail.   *)
(***************************************************************************)
EXTENDS Checks

CONSTANTS Library,     \* the passages of the pinned release
          Parts,       \* the questions that are asked
          Splits,      \* how a message falls into pieces
          Contexts,    \* what the conversation holds: [slots, origins]
          Readers,     \* the audiences a turn may be for
          Drafts,      \* what the model may write
          TopK,        \* top_k
          Rare,        \* DISTINCTIVE_CAP
          Related,     \* RELATED_WORDS
          MissedLimit  \* MISSED_EVIDENCE_LIMIT

\* what a sentence is read for
Silent == [cites |-> {}, clauses |-> {}, figures |-> {}, qualifiers |-> {}, leads |-> {},
           conditions |-> {}, coat |-> FALSE, names |-> {}, capitals |-> {}, claims |-> {},
           relations |-> {}, layers |-> FALSE, limits |-> FALSE, conditional |-> FALSE]

\* a release holds finitely many passages, and a part names finitely many
\* products and layer orders; a sentence is read for all that Silent lists; and of what a
\* conversation holds only its product can be assumed
ASSUME AnsweringConstants ==
  /\ IsFiniteSet(Library) /\ \A p \in Library : IsFiniteSet(p.facts)
  /\ \A q \in Parts : IsFiniteSet(q.named) /\ IsFiniteSet(q.relations)
  /\ TopK \in Nat
  /\ \A d \in Drafts : \A i \in DOMAIN d : DOMAIN d[i] = DOMAIN Silent
  /\ \A c \in Contexts : \A s \in DOMAIN c.origins : c.origins[s] = Assumed => s = "product"

VARIABLES stage,     \* idle, searching, routing, producing, finished, served, failed
          request,   \* [part, audiences, slots, origins]
          found,     \* the hits, in the order they are held
          decision,  \* what Route decided
          answer     \* [path, text, disclosure, sources, facts, kept, refused]

answeringVars == <<stage, request, found, decision, answer>>

Statable == {"substrate", "location", "exposure"}
FactsFirst == {"extract", "compose"}   \* the paths a deterministic answer is tried on
LooseFields == {"preparation", "curing"}

----------------------------------------------------------------------------
(* The product the part is about: those it names, or the carried one.      *)

Explicit == request.part.named
NamedProduct ==
  CASE Cardinality(Explicit) = 1 -> CHOOSE p \in Explicit : TRUE
    [] Explicit # {} -> NoProduct
    [] OTHER -> SlotOr(request.slots, "product", NoProduct)
AboutProducts == IF Explicit # {} THEN Explicit ELSE {NamedProduct} \ {NoProduct}

\* what the conversation holds, with the product of this part in its place
CarriedSlots ==
  LET rest == Restrict(request.slots, DOMAIN request.slots \
                       (IF Explicit # {} THEN {"product"} ELSE {}))
  IN  IF NamedProduct = NoProduct THEN rest
      ELSE [s \in DOMAIN rest \cup {"product"} |->
              IF s = "product" THEN NamedProduct ELSE rest[s]]

\* a product the part merely mentions is an assumption about the person's own
CarriedOrigins ==
  IF Explicit = {} \/ NamedProduct = NoProduct THEN request.origins
  ELSE [s \in DOMAIN request.origins \cup {"product"} |->
          IF s # "product" THEN request.origins[s]
          ELSE IF request.part.uses THEN Stated ELSE Assumed]

\* _requested_fields: those the part asks for, the coverage for a purchase or a
\* sum, and those it spells out among what the route looked for
RequestedFields ==
  request.part.fields
  \cup (IF request.part.purchase \/ decision.sumRefused THEN {"coverage"} ELSE {})
  \cup (DOMAIN decision.evidence \cap request.part.spells)

----------------------------------------------------------------------------
(* Retrieval.                                                              *)

ReadableBy(audiences) == {p \in Library : p.audience \in audiences}
Hit(p, strong) == [passage |-> p, strong |-> strong]
PassagesOf(hits) == [i \in DOMAIN hits |-> hits[i].passage]
Holding(hits) == {hits[i].passage : i \in DOMAIN hits}

\* Retriever.search: the best first; the scores of the first k pass
Searches(n) ==
  {[i \in DOMAIN s |-> Hit(s[i], i <= k)] :
     s \in UNION {{t \in [1 .. m -> ReadableBy(request.audiences)] : IsInjective(t)} :
                    m \in 0 .. n},
     k \in 0 .. n}

(* Mutant: the lexical search reads for everybody.                          *)
FindProperty_ForAll(product, terms) ==
  {p \in Library : /\ p.states \cap terms # {}
                   /\ product = NoProduct \/ Akin(product, p.owner)}

\* find_property: the passages that hold a term, of one product or of any; a
\* lexical hit carries no score
FindProperty(product, terms) ==
  {p \in ReadableBy(request.audiences) :
     /\ p.states \cap terms # {}
     /\ product = NoProduct \/ Akin(product, p.owner)}

Added(hits, passages) ==
  LET new == SetToSeq(passages \ Holding(hits))
  IN  hits \o [i \in DOMAIN new |-> Hit(new[i], FALSE)]

\* several products are each searched for, and the results merged
Searched == Searches(IF Cardinality(Explicit) > 1 THEN TopK * Cardinality(Explicit) ELSE TopK)

\* a weak result is searched again with the words of what is asked, for each
\* product; what scores higher goes first
Contextual(hits) ==
  IF AboutProducts = {} \/ RequestedFields = {} \/ AboveThreshold(hits) THEN {hits}
  ELSE {hits} \cup {c \o ElementsAt(hits, {i \in DOMAIN hits : hits[i].passage \notin Holding(c)}) :
                      c \in Searches(TopK * Cardinality(AboutProducts)) \ {<<>>}}

\* _property_evidence, and the coverage of a quantity
FieldEvidence(hits) ==
  Added(hits, UNION {FindProperty(p, TermsFor("property_asked", f)) :
                       p \in AboutProducts, f \in RequestedFields})
QuantityEvidence(hits) ==
  IF NamedProduct # NoProduct /\ "calculation" \in DetectedSlots(request.part.words)
  THEN Added(hits, FindProperty(NamedProduct, TermsFor("property_asked", "coverage")))
  ELSE hits

\* _missed_evidence: a word no hit holds, that few passages hold; the product's
\* passages or, when it has none, anybody's; related to the question by other words
Rarely(word) ==
  LET own == FindProperty(NamedProduct, {word})
      all == IF own # {} THEN own ELSE FindProperty(NoProduct, {word})
  IN  IF Cardinality(all) > Rare THEN {} ELSE all
Missed(hits) ==
  UNION {{p \in Rarely(w) :
            Cardinality((p.states \cap request.part.words) \ {w}) >= Related} :
         w \in {v \in request.part.words : \A p \in Holding(hits) : v \notin p.states}}
MissedEvidence(hits) ==
  {Added(hits, S) : S \in {T \in SUBSET Missed(hits) :
     Cardinality(T) = Min({MissedLimit, Cardinality(Missed(hits))})}}

\* the gate's second chance
SecondChance(hits) ==
  Added(hits, UNION {FindProperty(p, UnsupportedTerms(request.part, hits, CarriedSlots)) :
                       p \in AboutProducts})

Recovered(hits) ==
  {SecondChance(m) : m \in MissedEvidence(QuantityEvidence(FieldEvidence(hits)))}

----------------------------------------------------------------------------
(* What is written.                                                        *)

Contact == <<[Silent EXCEPT !.limits = TRUE]>>   \* what the engine says for itself

\* a published sentence, quoted and cited
Quoted(e, m) ==
  [Silent EXCEPT !.cites = {m}, !.figures = {e.figure}, !.qualifiers = e.qualifiers,
                 !.leads = {[word |-> q, figure |-> e.figure] : q \in e.qualifiers},
                 !.conditions = e.conditions, !.coat = e.coat, !.names = e.names]
\* a published sentence about a layer order
QuotedOrder(r, m) == [Silent EXCEPT !.cites = {m}, !.relations = {r}]
\* a passage printed whole
Printed(p, m) ==
  [Silent EXCEPT !.cites = {m}, !.figures = {e.figure : e \in p.facts},
                 !.qualifiers = UNION {e.qualifiers : e \in p.facts}, !.names = p.names]

Scope == SlotOr(decision.slots, "product", NoProduct)

\* scoped_evidence: for the products the part names and the one it is about
Scoped == ScopedEvidence(found, Explicit \cup ({Scope} \ {NoProduct}))

\* _field_sentences: what a passage says of a field of a product, and not of another
FieldFacts(p, field, product) ==
  {e \in p.facts :
     /\ field \in e.on
     /\ SameProduct(product, p.owner) \/ AkinToSome(product, e.names)
     /\ e.names = {} \/ AkinToSome(product, e.names)
     /\ field \in LooseFields \/ \A n \in e.names : SameProduct(product, n)}

FactualProducts == IF Explicit # {} THEN Explicit ELSE {Scope} \ {NoProduct}

\* factual: what each passage says of each field of each product, and of each
\* layer order, quoted when it passes the checks a draft does
Passes(S, product, named) ==
  RunChecks(SetToSeq(S), PassagesOf(Scoped), {}, product, named, NoQuestion) = {}
FieldClaims(k, f, p) ==
  LET said == {Quoted(e, k) : e \in FieldFacts(Scoped[k].passage, f, p)}
  IN  IF Passes(said, p, FactualProducts) THEN said ELSE {}
OrderClaims(k) ==
  {q \in {QuotedOrder(r, k) : r \in Scoped[k].passage.relations \cap request.part.relations} :
     Passes({q}, NoProduct, {})}
FactualClaims ==
  UNION ({FieldClaims(k, f, p) : k \in DOMAIN Scoped, f \in RequestedFields, p \in FactualProducts}
         \cup {OrderClaims(k) : k \in DOMAIN Scoped})
Factual == FactualProducts # {} /\ (RequestedFields # {} \/ request.part.relations # {})

----------------------------------------------------------------------------
(* Finishing an answer: _finish, _facts and what _answer_part remembers.   *)

\* decision.origins: of the slots that still hold what was carried
DecisionOrigins ==
  Restrict(CarriedOrigins,
           {s \in DOMAIN CarriedOrigins \cap DOMAIN CarriedSlots \cap DOMAIN decision.slots :
              decision.slots[s] = CarriedSlots[s]})

\* a slot the part states is the person's; a carried one keeps its origin.  A
\* part that nothing comes near is not answered for any wall.
SlotProvenance(s) ==
  IF s \in DetectedSlots(request.part.words) THEN Stated
  ELSE SlotOr(DecisionOrigins, s, Carried)

SlotFacts ==
  [s \in (IF decision.step = "1" THEN {} ELSE Statable \cap DOMAIN decision.slots) |->
     SlotProvenance(s)]

(* Mutant: a product that was only mentioned is remembered.                 *)
KeptSlots_Mentioned ==
  LET all == IF NamedProduct = NoProduct THEN decision.slots
             ELSE [s \in DOMAIN decision.slots \cup {"product"} |->
                     IF s = "product" THEN NamedProduct ELSE decision.slots[s]]
  IN  Restrict(all, DOMAIN all \ {s \in DOMAIN SlotFacts : SlotFacts[s] = Assumed})

\* The slots a later turn inherits: not those that were assumed.
KeptSlots ==
  LET all == IF NamedProduct = NoProduct THEN decision.slots
             ELSE [s \in DOMAIN decision.slots \cup {"product"} |->
                     IF s = "product" THEN NamedProduct ELSE decision.slots[s]]
      assumed == {s \in DOMAIN SlotFacts : SlotFacts[s] = Assumed}
                 \cup (IF SlotOr(DecisionOrigins, "product", Carried) = Assumed
                       THEN {"product"} ELSE {})
  IN  Restrict(all, DOMAIN all \ assumed)

FinishedAnswer(path, text, passages, refused) ==
  [path |-> path, text |-> Finished(text, passages), disclosure |-> <<>>,
   sources |-> Sources(text, passages), facts |-> SlotFacts, kept |-> KeptSlots, refused |-> refused]

FirstOf(hits, n) == SubSeq(PassagesOf(hits), 1, Min({n, Len(hits)}))
\* _diagnostic_passages: a page that sells does not displace one that explains
Diagnostic(hits) ==
  FirstOf(ElementsAt(hits, {i \in DOMAIN hits : ~hits[i].passage.sells})
          \o ElementsAt(hits, {i \in DOMAIN hits : hits[i].passage.sells}), 3)
\* a refusal shows the nearest passage under its text, without a marker
Refusal(hits) ==
  LET nearest == IF decision.step = "1" THEN <<>> ELSE FirstOf(hits, 1)
  IN  [FinishedAnswer("refuse", Contact, nearest, TRUE) EXCEPT
         !.disclosure = [i \in DOMAIN nearest |-> [Printed(nearest[i], i) EXCEPT !.cites = {}]]]

FactualAnswer ==
  FinishedAnswer("extract", SetToSeq(FactualClaims) \o Contact,
                 IF FactualClaims = {} THEN <<>> ELSE PassagesOf(Scoped), FactualClaims = {})

\* a quantity is printed from a passage that states the coverage, when there is one
Extract ==
  IF Factual THEN FactualAnswer
  ELSE IF Scoped = <<>> THEN Refusal(<<>>)
  ELSE LET covers == {i \in DOMAIN Scoped : \E e \in Scoped[i].passage.facts : "coverage" \in e.on}
           top == Scoped[IF decision.sumRefused /\ covers # {} THEN Min(covers) ELSE 1]
       IN  FinishedAnswer("extract", <<Printed(top.passage, 1)>>, <<top.passage>>, FALSE)

\* the answer a draft becomes: it passes every check or it is a refusal
ComposeFrom(draft) ==
  LET passages == PassagesOf(PromoteBound(Scoped, EvidenceBinding([decision EXCEPT !.hits = Scoped])))
      failures == RunChecks(draft, passages, decision.terms, Scope, Explicit,
                            [claims |-> request.part.claims, relations |-> request.part.relations])
  IN  IF failures # {} THEN Refusal(found) ELSE FinishedAnswer("compose", draft, passages, FALSE)

----------------------------------------------------------------------------
(* The steps.                                                              *)

NoRequest == [part |-> CHOOSE p \in Parts : TRUE, audiences |-> {}, slots |-> Nothing,
              origins |-> Nothing]
Undrafted == [path |-> "none", text |-> <<>>, disclosure |-> <<>>, sources |-> <<>>, facts |-> Nothing,
              kept |-> Nothing, refused |-> FALSE]
Unrouted == [path |-> "none", step |-> "none", slots |-> Nothing, hits |-> <<>>, terms |-> {},
             evidence |-> Nothing, perOption |-> FALSE, sumRefused |-> FALSE]

AnsweringInit ==
  /\ stage = "idle"
  /\ request = NoRequest
  /\ found = <<>>
  /\ decision = Unrouted
  /\ answer = Undrafted

\* one part of a message; a part the policy gate matches is referred and
\* never searched for
AskPart ==
  /\ stage = "idle"
  /\ \E part \in Parts, context \in Contexts, audiences \in Readers, pieces \in Splits :
       /\ request' = [part |-> part, audiences |-> audiences,
                      slots |-> context.slots, origins |-> context.origins]
       /\ \E k \in DOMAIN PartsOf(pieces) :
            IF TopicOf(PartsOf(pieces)[k], pieces) # NoTopic
            THEN /\ stage' = "served"
                 /\ answer' = [Undrafted EXCEPT !.path = "route"]
            ELSE stage' = "searching" /\ UNCHANGED answer
  /\ UNCHANGED <<found, decision>>

Search ==
  /\ stage = "searching"
  /\ \E s \in Searched : \E c \in Contextual(s) : found' \in Recovered(c)
  /\ stage' = "routing"
  /\ UNCHANGED <<request, decision, answer>>

\* a named product stands in the slots whatever they held
ChooseRoute ==
  /\ stage = "routing"
  /\ \E r \in {Route(request.part, found, request.audiences, SlotsOf(request.part, CarriedSlots))} :
       decision' = IF NamedProduct = NoProduct \/ "product" \in DOMAIN r.slots THEN r
                   ELSE [r EXCEPT !.slots = [s \in DOMAIN r.slots \cup {"product"} |->
                           IF s = "product" THEN NamedProduct ELSE r.slots[s]]]
  /\ stage' = "producing"
  /\ UNCHANGED <<request, found, answer>>

\* what needs no model
Deterministically ==
  /\ decision.path # "compose" \/ Factual
  /\ answer' =
       CASE decision.path \in FactsFirst -> Extract
         [] decision.path = "defer" ->
              FinishedAnswer("defer", <<Printed(found[1].passage, 1)>>, FirstOf(found, 1), FALSE)
         [] decision.path = "diagnosis" ->
              LET chosen == Diagnostic(found)
              IN  FinishedAnswer("diagnosis", [i \in DOMAIN chosen |-> Printed(chosen[i], i)],
                                 chosen, FALSE)
         [] decision.path = "ask_back" ->
              FinishedAnswer("ask_back", Contact, FirstOf(found, 3), FALSE)
         [] OTHER -> Refusal(found)

Compose ==
  /\ decision.path = "compose" /\ ~Factual
  /\ IF Scoped = <<>> THEN answer' = Refusal(<<>>)
     ELSE \E draft \in Drafts : answer' = ComposeFrom(draft)

Produce ==
  /\ stage = "producing"
  /\ Deterministically \/ Compose
  /\ stage' = "finished"
  /\ UNCHANGED <<request, found, decision>>

\* polish_verified_answer, for an answer of this path: what a refusal discloses
\* is held out of the rewording, no passages are at hand
\* in the final state, so the comparison stands alone; a rewording that fails
\* it, or a model that fails, leaves the answer as it was
Polish ==
  /\ stage = "finished"
  /\ \E text \in {answer.text} \cup {d \in Drafts : Preserves(answer.text, d)} :
       answer' = [answer EXCEPT !.text = text]
  /\ stage' = "served"
  /\ UNCHANGED <<request, found, decision>>

\* the model is down: the part is not answered
ModelFails ==
  /\ \/ stage = "searching"
     \/ stage = "producing" /\ decision.path = "compose" /\ ~Factual /\ Scoped # <<>>
  /\ stage' = "failed"
  /\ UNCHANGED <<request, found, decision, answer>>

AnsweringNext == AskPart \/ Search \/ ChooseRoute \/ Produce \/ Polish \/ ModelFails
AnsweringSpec == AnsweringInit /\ [][AnsweringNext]_answeringVars

----------------------------------------------------------------------------
(* Properties.                                                             *)

\* As it is shown, with its markers renumbered and its sources cut down to
\* those cited, every figure of an answer the engine wrote stands beside a
\* source that publishes it of each product its sentence is about, and with
\* every qualifier it was published with.
FiguresStandWhereTheyAreCited ==
  stage = "finished" /\ answer.path = "compose" =>
    \A i \in DOMAIN answer.text : \A f \in answer.text[i].figures :
      \A t \in Targets(answer.text[i], Scope) :
        \E m \in answer.text[i].cites : \E e \in answer.sources[m].facts :
          /\ e.figure = f
          /\ AkinToSome(t, e.names) \/ (e.names = {} /\ SameProduct(t, answer.sources[m].owner))
          /\ e.qualifiers \subseteq answer.text[i].qualifiers

\* No figure reaches a person, reworded or not, in the text or in the passage a
\* refusal shows under it, that none of the sources shown with it publishes.
ServedFiguresArePublished ==
  stage = "served" =>
    \A shown \in {answer.text, answer.disclosure} :
    \A i \in DOMAIN shown : \A f \in shown[i].figures :
      \E m \in DOMAIN answer.sources : \E e \in answer.sources[m].facts : e.figure = f

\* Whatever recovered it, no passage is used that the audience may not read:
\* six different searches add to the hits.
AudienceKept ==
  /\ \A i \in DOMAIN found : found[i].passage.audience \in request.audiences
  /\ \A m \in DOMAIN answer.sources : answer.sources[m].audience \in request.audiences

\* What a later turn inherits is what the person said, or what the
\* conversation held and had not assumed: a product that was only mentioned,
\* or a value the engine filled in, is not remembered as the person's.
GuessesAreNotRemembered ==
  \A s \in DOMAIN answer.kept :
    \/ s \in DetectedSlots(request.part.words)
    \/ s = "product" /\ request.part.uses
    \/ s \in DOMAIN request.slots /\ SlotOr(request.origins, s, Carried) # Assumed
=============================================================================
