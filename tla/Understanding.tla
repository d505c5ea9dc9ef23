--------------------------- MODULE Understanding ---------------------------
(***************************************************************************)
(* Reading one message: answering/understanding.py and the detectors of    *)
(* answering/router.py it calls.  A message is the outcome of the regular  *)
(* expressions and vocabularies on its text; what the code decides from    *)
(* those outcomes, and from what the conversation holds, is below.         *)
(***************************************************************************)
EXTENDS Conversation, FiniteSets

CONSTANTS Products,   \* the registry of the release being read
          Suggestible, \* those a model may come up with
          Objectives  \* what a job may be: the keys of REQUIREMENTS but None

\* the slot "product" holds a product
ASSUME UnderstandingConstants == Products \subseteq FactValues

\* BUILDING_SLOTS: what a message may say of a wall, deny, and carry to the next
BuildingSlots == FactSlots \cap {"substrate", "location", "exposure"}
\* ROUTER_SLOTS: what a photograph may show
VisibleSlots == FactSlots \cap {"substrate", "symptom"}
NoProduct == "no product"
NoSlot == "no slot"
NoObjective == "no objective"
NoAnswer == "no answer"

Message ==
  [policy : BOOLEAN,               \* PolicyGate.match
   asksSlot : FactSlots \cup {NoSlot},  \* state_request_slot
   symptom : BOOLEAN,              \* a symptom or a cause is detected
   calculation : BOOLEAN,          \* a quantity, or a measurement
   background : BOOLEAN,           \* _BACKGROUND_LOOKUP
   choice : BOOLEAN,               \* _SELECT_SHAPE
   property : BOOLEAN,             \* detect_properties
   objective : Objectives \cup {NoObjective},  \* the job
   topic : Products \cup {NoProduct},   \* topic_product
   named : SUBSET Products,        \* named_products
   compares : BOOLEAN,             \* compares_products
   weighs : BOOLEAN,               \* compared_products: side by side, and not to choose
   says : PartialOver(BuildingSlots, FactValues),   \* detect(asserted_text)
   denies : PartialOver(BuildingSlots, FactValues), \* denials_in
   uses : Products \cup {NoProduct},    \* stated_product
   scenario : BOOLEAN,             \* scenario_only
   refers : BOOLEAN,               \* _PRODUCT_REFERENCE
   asks : BOOLEAN,                 \* _ASKS_SOMETHING
   personal : BOOLEAN,             \* the whole message is a statement of one's own
   short : BOOLEAN,                \* is_answer_to_askback
   parts : 1 .. 2,                 \* split_by_topic
   introduces : BOOLEAN,           \* _INTRODUCERS with _SUBJECTS
   corrects : BOOLEAN,             \* _CORRECTIONS
   photo : BOOLEAN,                \* images were uploaded
   shows : PartialOver(VisibleSlots, FactValues)]  \* ... and what they show

----------------------------------------------------------------------------
(* The reading: first signal wins, and only a selection consults a model.  *)

Intent(m) ==
  CASE m.policy -> "escalate"
    [] ~m.policy /\ m.asksSlot # NoSlot -> "lookup"
    [] ~m.policy /\ m.asksSlot = NoSlot ->
         IF m.symptom THEN "troubleshoot"
         ELSE IF m.calculation THEN "calculate"
         ELSE IF m.background THEN "lookup"
         ELSE IF m.choice
              THEN IF m.topic # NoProduct \/ m.weighs THEN "verify" ELSE "select"
         ELSE IF m.property THEN "lookup" ELSE "unknown"

Ambiguous(m) == Intent(m) = "select"

Deterministic == [newSubject |-> FALSE, suggests |-> {}, objective |-> NoObjective]

\* The model's reading only adds: an intent that was found is kept, and what
\* survives of the reply is the job, a new subject and products worth checking.  An
\* unreachable model, or an unparseable reply, leaves the deterministic reading.
Readings(m) ==
  IF Ambiguous(m) THEN [newSubject : BOOLEAN, suggests : SUBSET Suggestible,
                        objective : Objectives \cup {NoObjective}]
  ELSE {Deterministic}

----------------------------------------------------------------------------
(* resolve: this turn over history.                                        *)

Restated(m) == [s \in DOMAIN m.says \ DOMAIN m.denies |-> m.says[s]]

InheritedSlots(m, facts) ==
  (DOMAIN ActiveFacts(facts) \cap BuildingSlots) \ (DOMAIN m.denies \cup DOMAIN m.says)

(* Mutant: what was taken back, or is in dispute, is inherited too.          *)
ResolvedSlots_Held(m, facts) ==
  [s \in DOMAIN Restated(m) \cup ((DOMAIN facts \cap BuildingSlots)
                                   \ (DOMAIN m.denies \cup DOMAIN m.says)) |->
     IF s \in DOMAIN Restated(m) THEN m.says[s] ELSE facts[s].current.value]

ResolvedSlots(m, facts) ==
  [s \in DOMAIN Restated(m) \cup InheritedSlots(m, facts) |->
     IF s \in DOMAIN Restated(m) THEN m.says[s] ELSE ActiveFacts(facts)[s]]

SlotOrigins(m, facts, turn) ==
  [s \in DOMAIN Restated(m) \cup InheritedSlots(m, facts) |->
     IF s \in DOMAIN Restated(m) THEN Stated ELSE OriginOf(facts[s].current, turn)]

\* the topic of this message, else the one under discussion, else a product
\* the conversation holds; a comparison has no single product
ResolvedProduct(m, facts, topic) ==
  LET base == IF m.topic # NoProduct THEN m.topic
              ELSE IF m.compares THEN NoProduct ELSE topic
  IN  IF base = NoProduct /\ ~m.compares /\ "product" \in DOMAIN ActiveFacts(facts)
      THEN ActiveFacts(facts)["product"] ELSE base

ProductOrigin(m, facts, turn, topic) ==
  LET p == ResolvedProduct(m, facts, topic)
      own == IF m.topic # NoProduct /\ m.uses = m.topic THEN Stated ELSE Assumed
      held == "product" \in DOMAIN ActiveFacts(facts) /\ ActiveFacts(facts)["product"] = p
  IN  IF ~m.compares /\ held /\ (own = Assumed \/ m.topic = NoProduct)
      THEN OriginOf(facts["product"].current, turn) ELSE own

\* A question about a hypothetical wall shapes the request and stops there.
Transient(m) == IF m.scenario THEN DOMAIN Restated(m) ELSE {}

Resolve(m, reading, facts, turn, topic) ==
  [intent |-> Intent(m),
   objective |-> IF m.objective # NoObjective THEN m.objective ELSE reading.objective,
   product |-> ResolvedProduct(m, facts, topic),
   slots |-> ResolvedSlots(m, facts),
   origins |-> SlotOrigins(m, facts, turn),
   unsettled |-> UnsettledSlots(facts),
   suggests |-> reading.suggests]

\* facts_from: only what the person supplied in this turn becomes a fact
FactsFrom(m, facts, turn, topic) ==
  LET said == DOMAIN Restated(m) \ Transient(m)
      product == IF m.uses # NoProduct /\ m.uses = ResolvedProduct(m, facts, topic)
                    /\ ProductOrigin(m, facts, turn, topic) = Stated
                 THEN {"product"} ELSE {}
  IN  IF m.asksSlot # NoSlot THEN Nothing
      ELSE [s \in said \cup product |->
              Fact(IF s = "product" THEN m.uses ELSE m.says[s], Stated, turn)]

----------------------------------------------------------------------------
(* state_only_answer: what needs neither retrieval nor a model.            *)

NeedsProduct(m, facts, topic) ==
  /\ ~m.policy
  /\ ResolvedProduct(m, facts, topic) = NoProduct
  /\ m.refers
  /\ Intent(m) \in {"lookup", "calculate", "verify"}
  /\ m.property \/ m.background

Withdrawn(m, facts) ==
  {s \in DOMAIN m.denies \cap DOMAIN facts : facts[s].current.value = m.denies[s]}

StateOnlyAnswer(m, facts, turn, topic) ==
  IF m.policy THEN NoAnswer
  ELSE IF m.asksSlot # NoSlot THEN "state"
  ELSE IF NeedsProduct(m, facts, topic) THEN "ask_back"
  ELSE IF Withdrawn(m, facts) # {} /\ ~m.asks THEN "acknowledge"
  ELSE IF m.personal /\ DOMAIN FactsFrom(m, facts, turn, topic) # {} THEN "acknowledge"
  ELSE NoAnswer
=============================================================================
