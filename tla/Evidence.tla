------------------------------ MODULE Evidence ------------------------------
(***************************************************************************)
(* Choosing a product, the one question the assistant may not answer from  *)
(* prose: retrieval/candidates.py decides which candidates the published   *)
(* passages support, retrieval/compatibility.py what a documented rule     *)
(* excludes.  A corpus is what the pinned release holds:                   *)
(*   passages  who published what for whom, [owner, claim, audience], the  *)
(*             claim a substrate it suits or a property it states          *)
(*   caveats   the products with published conditions                      *)
(*   rules     the compatibility matrix, in order                          *)
(***************************************************************************)
EXTENDS Understanding

CONSTANTS Requirement,    \* REQUIREMENTS: [always, external, properties] of each
          Within,         \* <<p, q>>: the name of p is part of the name of q
          PlainNames,     \* products whose registry name carries no brand
          MaxCandidates   \* MAX_CANDIDATES

ASSUME EvidenceConstants ==
  /\ MaxCandidates \in Nat \ {0}
  /\ Within \subseteq Products \X Products
  /\ \A p \in Products : <<p, p>> \in Within
  /\ \A o \in Objectives \cup {NoObjective} :
       Requirement[o].always \cup Requirement[o].external \subseteq FactSlots

Akin(p, q) == <<p, q>> \in Within \/ <<q, p>> \in Within

Rule == [product : Products, substrate : FactValues,
         interior : BOOLEAN, exterior : BOOLEAN, recommended : BOOLEAN]

----------------------------------------------------------------------------
(* What a job needs to be known, and what of it is not.                    *)

Needed(objective, slots) ==
  Requirement[objective].always \cup
  (IF \E s \in DOMAIN slots : slots[s] = "external"
   THEN Requirement[objective].external ELSE {})

MissingFacts(resolved) ==
  {s \in Needed(resolved.objective, resolved.slots) : s \notin DOMAIN resolved.slots}
  \cup resolved.unsettled

----------------------------------------------------------------------------
(* The compatibility matrix: the first rule that speaks of the place wins. *)

Speaks(r, place) ==
  CASE place = "internal" -> TRUE
    [] place = "external" -> TRUE
    [] OTHER -> r.interior \/ r.exterior

Verdict(r, place) ==
  CASE place = "internal" -> r.interior /\ r.recommended
    [] place = "external" -> r.exterior /\ r.recommended
    [] OTHER -> r.recommended

\* "yes", "no", or "silent" when no rule applies
IsCompatible(rules, product, substrate, place) ==
  LET fit == {i \in DOMAIN rules : /\ rules[i].product = product
                                   /\ rules[i].substrate = substrate
                                   /\ Speaks(rules[i], place)}
  IN  IF fit = {} THEN "silent"
      ELSE IF Verdict(rules[CHOOSE i \in fit : \A j \in fit : i <= j], place)
           THEN "yes" ELSE "no"

SlotOr(slots, s, default) == IF s \in DOMAIN slots THEN slots[s] ELSE default

Documented(product, resolved, corpus) ==
  IF "substrate" \notin DOMAIN resolved.slots THEN "silent"
  ELSE IsCompatible(corpus.rules, product, resolved.slots["substrate"],
                    SlotOr(resolved.slots, "location", "anywhere"))

----------------------------------------------------------------------------
(* Assessing one candidate.                                                *)

\* a property asks for the terms of the wall's own substrate
ClaimOf(prop, resolved) ==
  IF prop = "substrate" THEN SlotOr(resolved.slots, "substrate", "substrate") ELSE prop

\* passages the audience may read, published for the product by their own
\* metadata, or for one whose name holds it
Supports(corpus, product, claim, audiences) ==
  {p \in corpus.passages : /\ p.claim = claim
                           /\ p.audience \in audiences
                           /\ Akin(p.owner, product)}

Unsupported(product, resolved, corpus, audiences) ==
  {prop \in Requirement[resolved.objective].properties :
     Supports(corpus, product, ClaimOf(prop, resolved), audiences) = {}}

\* read is FALSE when the manifest or the caveats could not be read: the
\* product is then assessed as though nothing qualified it
Assess(product, resolved, corpus, audiences, read) ==
  LET lacking == Unsupported(product, resolved, corpus, audiences)
  IN  IF Documented(product, resolved, corpus) = "no" THEN "incompatible"
      ELSE IF "substrate" \in lacking THEN "insufficient"
      ELSE IF lacking # {} \/ (read /\ product \in corpus.caveats) THEN "conditional"
      ELSE "supported"

Eligible(status) == status \in {"supported", "conditional"}

----------------------------------------------------------------------------
(* The decision.                                                           *)

\* the product asked about (found in the registry only under the very name it
\* was normalised to), the owners of the passages found, what the model
\* suggested, in that order and no more than MAX_CANDIDATES of them
Discoveries(resolved, owners) ==
  LET asked == {resolved.product} \cap PlainNames
      all == asked \cup owners \cup resolved.suggests
  IN  {S \in SUBSET all :
         /\ asked \subseteq S
         /\ Cardinality(S) = MaxCandidates \/ (S = all /\ Cardinality(all) < MaxCandidates)
         /\ owners \subseteq S \/ S \subseteq asked \cup owners}

Undecided == [outcome |-> "none", approved |-> {}, rejected |-> {}, missing |-> {}]

Decide(resolved, names, corpus, audiences, read) ==
  LET status == [p \in names |-> Assess(p, resolved, corpus, audiences, read)]
      approved == {p \in names : Eligible(status[p])}
      missing == MissingFacts(resolved)
  IN  [outcome |-> IF missing # {} THEN "need_more_information"
                   ELSE IF approved = {} THEN "no_supported_recommendation"
                   ELSE IF \E p \in approved : status[p] = "supported"
                        THEN "supported_recommendation"
                        ELSE "conditional_recommendation",
       approved |-> IF missing # {} THEN {} ELSE approved,
       rejected |-> IF missing # {} THEN {} ELSE names \ approved,
       missing |-> missing]

----------------------------------------------------------------------------
(* The two containment checks on a finished answer.  advises are the       *)
(* products its recommending sentences name, names all it names.           *)

Unapproved(advises, decision, askedAbout) ==
  advises \ (decision.approved \cup askedAbout)

Intruders(names, decision) ==
  IF decision.approved = {} THEN {}
  ELSE {p \in names : ~\E q \in decision.approved : <<p, q>> \in Within}
=============================================================================
