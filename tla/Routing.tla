------------------------------ MODULE Routing ------------------------------
(***************************************************************************)
(* Which of the answering paths a question takes: answering/router.py.     *)
(* A question is the outcome of matching its text against the vocabularies *)
(* and the fixed patterns; a hit is a passage with the fact whether its    *)
(* score passes the threshold.  Hits are ordered, the best first, as the   *)
(* retriever returns them; what is recovered later is appended.            *)
(***************************************************************************)
EXTENDS Evidence, FiniteSetsExt, SequencesExt

CONSTANTS Terms,       \* the words of the vocabularies
          Vocabulary,  \* config/vocabularies.json: slot -> value -> [terms, ask]
          Weight,      \* the length of a term
          ClassOf,     \* substrate_classes: a substrate -> the published one
          Topics,      \* the policy topics of config/routing.json, the first match first
          Mandatory    \* MANDATORY_TOPICS

Band == 2             \* PROPERTY_BAND: a property within a half of the best is asked for
NoTerm == "no term"
NoTopic == "no topic"
LocationSensitive == {"coverage", "thickness", "coats", "drying", "finish",
                      "painting", "temperature"}

Question ==
  [words : SUBSET Terms,            \* the vocabulary terms in it
   named : SUBSET Products,         \* _named_products
   phrase : Terms \cup {NoTerm},    \* asked_phrase
   on : Terms \cup {NoTerm},        \* what is built on, by _ON
   choice : BOOLEAN, strong : BOOLEAN,  \* _PRODUCT_CHOICE, _STRONG_PRODUCT_CHOICE
   compares : BOOLEAN,              \* _COMPARISON
   mine : BOOLEAN]                  \* _ABOUT_MY_BUILDING

----------------------------------------------------------------------------
(* The policy gate, and a message with two jobs.                           *)

\* the first topic, in the order of precedence, with a pattern that matches
PolicyTopic(topics) ==
  LET first == SelectInSeq(Topics, LAMBDA t : t \in topics)
  IN  IF first = 0 THEN NoTopic ELSE Topics[first]

\* An instruction about sources joins the job after it, or the last job.
Joined(pieces) ==
  LET jobs == {i \in DOMAIN pieces : ~pieces[i].instruction}
      owner(i) == IF \E j \in jobs : j >= i THEN Min({j \in jobs : j >= i}) ELSE Max(jobs)
  IN  IF jobs = {} THEN <<DOMAIN pieces>>
      ELSE [k \in 1 .. Cardinality(jobs) |->
              LET j == CHOOSE x \in jobs : Cardinality({y \in jobs : y <= x}) = k
              IN  {i \in DOMAIN pieces : owner(i) = j}]

\* The parts a message is answered in, each the set of the pieces it is made
\* of: [topics, instruction, long], cut at the full stops and the conjunctions.
\* Pieces of fewer than three words are thrown away before anything is decided.
TopicOf(part, pieces) == PolicyTopic(UNION {pieces[i].topics : i \in part})

Candidates(pieces) ==
  IF \E i \in DOMAIN pieces : pieces[i].instruction THEN Joined(pieces)
  ELSE LET long == SelectSeq([i \in DOMAIN pieces |-> i], LAMBDA i : pieces[i].long)
       IN  [k \in DOMAIN long |-> {long[k]}]

SplitByTopic(pieces) ==
  LET candidates == Candidates(pieces)
      topics == [k \in DOMAIN candidates |-> TopicOf(candidates[k], pieces)]
  IN  IF Len(candidates) = 1 \/ Cardinality(Range(topics)) > 1
      THEN candidates ELSE <<DOMAIN pieces>>

\* a message that needs a person is never taken apart
PartsOf(pieces) ==
  IF TopicOf(DOMAIN pieces, pieces) \in Mandatory THEN <<DOMAIN pieces>> ELSE SplitByTopic(pieces)

----------------------------------------------------------------------------
(* The slot detector.                                                      *)

Lengths(terms) == MapThenSumSet(LAMBDA t : Weight[t], terms)

\* a term that only asks counts where no term that states is present
Score(slot, value, words) ==
  LET entry == Vocabulary[slot][value]
  IN  IF entry.terms \cap words # {} THEN Lengths(entry.terms \cap words)
      ELSE Lengths(entry.ask \cap words)

Scored(slot, words) == {v \in DOMAIN Vocabulary[slot] : Score(slot, v, words) > 0}

DetectedSlots(words) == {s \in DOMAIN Vocabulary : Scored(s, words) # {}}
Detect(words) ==
  [s \in DetectedSlots(words) |->
     CHOOSE v \in Scored(s, words) :
       \A w \in Scored(s, words) : Score(s, w, words) <= Score(s, v, words)]

DetectProperties(words) == Scored("property_asked", words)

\* Those a question is mainly about: close to the best score, and by a term of
\* the value itself unless nothing scores higher.
PrimaryProperties(words) ==
  LET score == [p \in DetectProperties(words) |-> Score("property_asked", p, words)]
      byValue(p) == Vocabulary["property_asked"][p].terms \cap words # {}
  IN  {p \in DOMAIN score :
         \A r \in DOMAIN score :
           /\ Band * score[p] >= score[r]
           /\ byValue(p) \/ score[p] >= score[r]}

TermsFor(slot, value) ==
  IF slot \in DOMAIN Vocabulary /\ value \in DOMAIN Vocabulary[slot]
  THEN Vocabulary[slot][value].terms ELSE {}

\* the published name of a substrate the documents do not use
PublishedClass(substrate) ==
  IF substrate \in DOMAIN ClassOf /\ ClassOf[substrate] # substrate
  THEN ClassOf[substrate] ELSE NoTerm

KnownSubstrate(phrase) ==
  LET known == {v \in DOMAIN Vocabulary["substrate"] :
                  phrase = v \/ phrase \in Vocabulary["substrate"][v].terms}
  IN  IF known = {} THEN phrase ELSE CHOOSE v \in known : TRUE

----------------------------------------------------------------------------
(* What must be stated by a passage before the question is answered.       *)

\* this question's own slots win over the carried ones
SlotsOf(q, carried) ==
  [s \in DetectedSlots(q.words) \cup DOMAIN carried |->
     IF s \in DetectedSlots(q.words) THEN Detect(q.words)[s] ELSE carried[s]]

\* by property: a quantity asks for the coverage; a phrase no vocabulary holds
\* is asked for as it stands
AskedByProperty(q, slots) ==
  IF "calculation" \in DOMAIN slots /\ "property_asked" \notin DOMAIN slots
  THEN [p \in {"coverage"} |-> TermsFor("property_asked", "coverage")]
  ELSE IF "property_asked" \in DOMAIN slots
  THEN LET asked == IF DetectProperties(q.words) # {} THEN DetectProperties(q.words)
                    ELSE {slots["property_asked"]}
       IN  [p \in asked |-> TermsFor("property_asked", p)]
  ELSE IF q.phrase # NoTerm THEN [p \in {q.phrase} |-> {q.phrase}]
  ELSE Nothing

AskedTerms(q, slots) ==
  LET asked == AskedByProperty(q, slots) IN UNION {asked[p] : p \in DOMAIN asked}

Present(terms, hits) == \E i \in DOMAIN hits : terms \cap hits[i].passage.states # {}

SubstrateTerms(q, slots) ==
  LET named == IF "substrate" \in DOMAIN slots THEN slots["substrate"]
               ELSE IF q.on = NoTerm THEN NoTerm ELSE KnownSubstrate(q.on)
      own(s) == IF TermsFor("substrate", s) # {} THEN TermsFor("substrate", s) ELSE {s}
  IN  IF \/ "property_asked" \notin DOMAIN slots
         \/ slots["property_asked"] # "compatibility"
         \/ named = NoTerm
      THEN {}
      ELSE own(named) \cup (IF PublishedClass(named) = NoTerm THEN {}
                            ELSE own(PublishedClass(named)))

\* the terms nothing that was retrieved states
UnsupportedTerms(q, hits, carried) ==
  LET terms == AskedTerms(q, SlotsOf(q, carried))
  IN  IF Present(terms, hits) THEN {} ELSE terms

----------------------------------------------------------------------------
(* The route, in the order the code asks.                                  *)

NeedsSubstrate(q, slots) ==
  /\ q.choice
  /\ ~q.compares
  /\ ~("product" \in DOMAIN slots /\ ~q.strong /\ PrimaryProperties(q.words) # {})
  /\ q.mine \/ "symptom" \in DOMAIN slots \/ "photograph" \in DOMAIN slots

LocationMatters(q, slots) ==
  q.choice \/ ("property_asked" \in DOMAIN slots
               /\ slots["property_asked"] \in LocationSensitive)

SingleDocument(hits) == Cardinality({hits[i].passage.url : i \in DOMAIN hits}) = 1
AboveThreshold(hits) == hits # <<>> /\ hits[1].strong

\* some passage states what has to be stated
IsStated(terms, hits) == terms = {} \/ Present(terms, hits)

Step(q, hits, audiences, slots) ==
  IF ~AboveThreshold(hits) THEN "1"
  ELSE IF hits[1].passage.defers THEN "2"
  ELSE IF "cause_asked" \in DOMAIN slots THEN "3"
  ELSE IF ~IsStated(AskedTerms(q, slots), hits) THEN "4"
  ELSE IF ~IsStated(SubstrateTerms(q, slots), hits) THEN "4s"
  ELSE IF "substrate" \notin DOMAIN slots /\ NeedsSubstrate(q, slots) THEN "5"
  ELSE IF "calculation" \in DOMAIN slots THEN "6"
  ELSE IF SingleDocument(hits) /\ AskedByProperty(q, slots) # Nothing THEN "7"
  ELSE IF "staff" \in audiences /\ "public" \notin audiences THEN "7s"
  ELSE "8"

\* the steps that are reached when what was asked for is stated
Gated == {"5", "6", "7", "7s", "8"}

PathOf(step) ==
  CASE step \in {"1", "4", "4s"} -> "refuse"
    [] step = "2" -> "defer"
    [] step = "3" -> "diagnosis"
    [] step = "5" -> "ask_back"
    [] step \in {"6", "7", "7s"} -> "extract"
    [] OTHER -> "compose"

\* the terms of what the question is mainly about
MainEvidence(primary, asked) ==
  IF primary \cap DOMAIN asked # {} THEN Restrict(asked, primary \cap DOMAIN asked) ELSE asked

Decided(q, hits, slots, step) ==
  [path |-> PathOf(step), step |-> step, slots |-> slots, hits |-> hits,
   terms |-> IF step \in Gated THEN AskedTerms(q, slots) ELSE {},
   evidence |-> IF step \in Gated
                THEN MainEvidence(PrimaryProperties(q.words), AskedByProperty(q, slots))
                ELSE Nothing,
   perOption |-> step \in {"6", "7", "8"} /\ "location" \notin DOMAIN slots
                 /\ LocationMatters(q, slots),
   sumRefused |-> step = "6"]

\* slots: what this question states, over what is carried
Route(q, hits, audiences, slots) ==
  Decided(q, hits, slots, Step(q, hits, audiences, slots))
=============================================================================
