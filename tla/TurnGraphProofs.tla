-------------------------- MODULE TurnGraphProofs --------------------------
(***************************************************************************)
(* A conversation of any number of threads, messages and slots: the safety *)
(* properties of TurnGraph.                                                *)
(*                                                                         *)
(* None of them is inductive.  What holds of a thread wherever it stands   *)
(* (Fit) says what the nodes have settled by then: which request is        *)
(* resolved, what the person's own words have become, who approved what.   *)
(* What holds of the thread of a turn in progress (InTurn) relates it to   *)
(* the message, which is the question only if the turn resumes nothing.    *)
(* A thread nobody runs stands where a turn may stop (Parked).             *)
(***************************************************************************)
EXTENDS TurnGraph, SequenceTheorems, TLAPS

Early == {"understand_turn", "case_boundary", "resolve_state", "analyse_images",
          "determine_missing_information"}
Parked == {End, "ask_back", "retrieve_candidates", "assess_evidence", "delegate",
           "recommend", "answer_state"}
Nodes == Early \cup Parked \cup {"verify", "need_more_information", "no_supported_recommendation"}

ChannelNames ==
  {"question", "index", "facts", "observations", "topic", "reading", "boundary", "resolved",
   "missing", "owners", "decision", "answers", "perceived", "resumed", "granted", "next"}
Paths == {"state", "ask_back", "acknowledge", NoAnswer, "compose", "refuse", "other", "select"}
Reply == {a \in [path : Paths, advises : SUBSET Products, names : SUBSET Products] :
            a.path = "refuse" => a.advises = {}}

GoodFacts(facts) ==
  /\ DOMAIN facts \subseteq FactSlots
  /\ \A s \in DOMAIN facts : facts[s] \in FactHistory
NewFacts(new) ==
  /\ DOMAIN new \subseteq FactSlots
  /\ \A s \in DOMAIN new : new[s] \in SessionFact /\ new[s].provenance \in {Stated, Observed}

Typed(c) ==
  /\ DOMAIN c = ChannelNames
  /\ c.question \in Messages
  /\ c.index \in 0 .. MaxIndex
  /\ GoodFacts(c.facts)
  /\ c.topic \in Products \cup {NoProduct}
  /\ c.reading.objective \in Objectives \cup {NoObjective}
  /\ c.missing \subseteq FactSlots
  /\ c.owners \subseteq Products
  /\ c.answers \in Seq(Reply)
  /\ c.resumed \in BOOLEAN
  /\ c.next \in Nodes

Selects(c) == Intent(c.question) = "select"

\* What the question states stands as a fact of the person's: as it was stated,
\* until the reply to an ask-back says otherwise.
SaidHeld(c) ==
  \A s \in DOMAIN Restated(c.question) \ Transient(c.question) :
    /\ s \in DOMAIN c.facts
    /\ FromPerson(c.facts[s].current)
    /\ c.facts[s].current.status # Superseded
    /\ c.resumed \/ c.facts[s].current.value = c.question.says[s]

Choosing == {"ask_back", "retrieve_candidates", "assess_evidence", "recommend"}

Settled(c) ==
  /\ c.next \in Choosing => Selects(c)
  /\ c.next \in Choosing \cup {"analyse_images", "determine_missing_information"} /\ Selects(c)
       => SaidHeld(c)
  /\ c.next \in {"assess_evidence", "recommend", "need_more_information"} =>
       c.resolved = Resolved(c)
  /\ c.next = "recommend" => MissingFacts(c.resolved) = {}
  /\ c.next = "need_more_information" => c.decision.missing = MissingFacts(c.resolved)

Approved(c) ==
  /\ c.decision.approved = c.granted
  /\ c.next = "verify" => c.answers # <<>>
  /\ c.next = End /\ c.answers # <<>> =>
       Head(c.answers).advises \subseteq c.granted \cup AskedAbout(c)

Fit(c) == Typed(c) /\ Settled(c) /\ Approved(c)

\* nothing is left of an old wall
Clean(facts, m) ==
  \A s \in DOMAIN facts :
    \/ s = "product"
    \/ s \in DOMAIN m.says /\ facts[s].current.value = m.says[s]
    \/ facts[s].current.provenance = Observed /\ m.photo

\* what a reply said is known
Heard(facts, m) ==
  \A s \in DOMAIN m.says : s \in DOMAIN facts /\ facts[s].current.status = Active

InTurn(u, c) ==
  /\ ~u.resumes => c.question = u.message
  /\ ~u.resumes /\ u.message.introduces /\ c.next \notin {"understand_turn", "case_boundary"}
       => Clean(c.facts, u.message)
  /\ u.resumes => c.next \notin Early
  /\ u.resumes /\ u.stood = "ask_back" /\ c.next # "ask_back" => Heard(c.facts, u.message)

TurnOK ==
  /\ DOMAIN turn = {"thread", "message", "resumes", "stood"}
  /\ turn.thread \in Threads \cup {Nobody}
  /\ turn.message \in Messages
  /\ turn.resumes \in BOOLEAN
  /\ Running => turn.thread \in DOMAIN threads /\ InTurn(turn, Here)

GraphInv ==
  /\ \A t \in DOMAIN threads :
       /\ t \in Threads
       /\ Fit(threads[t])
       /\ (Running /\ t = turn.thread) \/ threads[t].next \in Parked
  /\ TurnOK
  /\ asked \in [Threads -> 0 .. MaxIndex]

----------------------------------------------------------------------------
(* Facts that meet.                                                        *)

\* from one step to the next, while no other wall is opened
Stands(old, new, m) ==
  \A s \in DOMAIN old : FromPerson(old[s].current) =>
    /\ s \in DOMAIN new
    /\ FromPerson(new[s].current)
    /\ \/ new[s].current.value = old[s].current.value
       \/ s \in DOMAIN m.says /\ new[s].current.value = m.says[s]
       \/ s = "product" /\ new[s].current.value = m.uses
Keeps(old, new) ==
  \A s \in DOMAIN old : s \in DOMAIN new /\ \A v : Told(old[s], v) => Told(new[s], v)

LEMMA FactTyped ==
  ASSUME NEW v \in FactValues, NEW p \in Provenances, NEW n \in Nat
  PROVE  Fact(v, p, n) \in SessionFact
  BY DEF Fact, SessionFact

LEMMA AsTyped ==
  ASSUME NEW f \in SessionFact, NEW st \in {Active, Superseded, Conflicting}
  PROVE  /\ As(f, st) \in SessionFact
         /\ As(f, st).value = f.value
         /\ FromPerson(As(f, st)) <=> FromPerson(f)
         /\ As(f, st).provenance = f.provenance
         /\ As(f, st).status = st
  BY DEF As, SessionFact, FromPerson

LEMMA HistoryFields ==
  ASSUME NEW h \in FactHistory
  PROVE  /\ h.current \in SessionFact
         /\ h.superseded \in Seq(SessionFact)
         /\ h.contradicted \in Seq(SessionFact)
  BY DEF FactHistory

\* What a history told, a longer one tells.
LEMMA AppendTells ==
  ASSUME NEW h \in FactHistory, NEW g \in FactHistory, NEW f \in SessionFact,
         g.superseded = Append(h.superseded, f),
         FromPerson(f) <=> FromPerson(h.current), f.value = h.current.value,
         NEW v, Told(h, v)
  PROVE  Told(g, v)
  <1>1. /\ h.superseded \in Seq(SessionFact)
        /\ Len(h.superseded) \in Nat
        /\ DOMAIN h.superseded = 1 .. Len(h.superseded)
    BY HistoryFields, LenProperties
  <1>2. /\ DOMAIN g.superseded = 1 .. Len(h.superseded) + 1
        /\ \A i \in 1 .. Len(h.superseded) : g.superseded[i] = h.superseded[i]
        /\ g.superseded[Len(h.superseded) + 1] = f
    BY <1>1, AppendProperties, LenProperties
  <1>3. CASE FromPerson(h.current) /\ h.current.value = v
    <2>1. Len(h.superseded) + 1 \in DOMAIN g.superseded
      BY <1>1, <1>2
    <2> QED
      BY <1>2, <1>3, <2>1 DEF Told
  <1>4. CASE \E i \in DOMAIN h.superseded :
               FromPerson(h.superseded[i]) /\ h.superseded[i].value = v
    <2>1. PICK i \in DOMAIN h.superseded : FromPerson(h.superseded[i]) /\ h.superseded[i].value = v
      BY <1>4
    <2>2. i \in DOMAIN g.superseded /\ g.superseded[i] = h.superseded[i]
      BY <1>1, <1>2
    <2> QED
      BY <2>1, <2>2 DEF Told
  <1> QED
    BY <1>3, <1>4 DEF Told

\* A fact the person states.
LEMMA SpokenMeets ==
  ASSUME NEW h \in FactHistory, NEW f \in SessionFact, f.provenance = Stated
  PROVE  /\ Met(h, f) \in FactHistory
         /\ Met(h, f).current = f
         /\ FromPerson(f)
         /\ \A v : Told(h, v) => Told(Met(h, f), v)
  <1> DEFINE g == Met(h, f)
  <1>1. g = Spoken(h, f) /\ FromPerson(f)
    BY DEF Met, FromPerson, Stated, Observed
  <1>2. As(h.current, Superseded) \in SessionFact
    BY HistoryFields, AsTyped
  <1>3. Append(h.superseded, As(h.current, Superseded)) \in Seq(SessionFact)
    BY <1>2, HistoryFields, AppendProperties
  <1>4. <<>> \in Seq(SessionFact)
    BY EmptySeq
  <1>5. g \in FactHistory /\ g.current = f
    BY <1>1, <1>3, <1>4, HistoryFields DEF Spoken, FactHistory
  <1>6. ASSUME NEW v, Told(h, v) PROVE Told(g, v)
    <2>1. CASE h.current.value = f.value /\ FromPerson(h.current)
      <3>1. g.current = f /\ g.superseded = h.superseded
        BY <1>1, <2>1 DEF Spoken
      <3> QED
        BY <1>1, <1>6, <2>1, <3>1 DEF Told
    <2>2. CASE ~(h.current.value = f.value /\ FromPerson(h.current))
      <3>1. g.superseded = Append(h.superseded, As(h.current, Superseded))
        BY <1>1, <2>2 DEF Spoken
      <3>2. /\ FromPerson(As(h.current, Superseded)) <=> FromPerson(h.current)
            /\ As(h.current, Superseded).value = h.current.value
        BY HistoryFields, AsTyped
      <3> QED
        BY <1>2, <1>5, <1>6, <3>1, <3>2, AppendTells
    <2> QED
      BY <2>1, <2>2
  <1> QED
    BY <1>1, <1>5, <1>6

\* A fact a photograph shows.
LEMMA SeenMeets ==
  ASSUME NEW h \in FactHistory, NEW f \in SessionFact, f.provenance = Observed
  PROVE  /\ Met(h, f) \in FactHistory
         /\ \A v : Told(h, v) => Told(Met(h, f), v)
         /\ FromPerson(h.current) =>
              /\ FromPerson(Met(h, f).current)
              /\ Met(h, f).current.value = h.current.value
              /\ h.current.status # Superseded => Met(h, f).current.status # Superseded
         /\ ~FromPerson(h.current) => Met(h, f).current = f
  <1> DEFINE g == Met(h, f)
  <1>1. g = Seen(h, f) /\ ~FromPerson(f)
    BY DEF Met, FromPerson, Stated, Carried, Observed
  <1>2. /\ As(h.current, Conflicting) \in SessionFact
        /\ FromPerson(As(h.current, Conflicting)) <=> FromPerson(h.current)
        /\ As(h.current, Conflicting).value = h.current.value
        /\ As(h.current, Conflicting).status = Conflicting
    BY HistoryFields, AsTyped
  <1>3. Append(h.contradicted, f) \in Seq(SessionFact)
    BY HistoryFields, AppendProperties
  <1>4. CASE ~FromPerson(h.current)
    <2>1. g = [current |-> f, superseded |-> h.superseded, contradicted |-> h.contradicted]
      BY <1>1, <1>4 DEF Seen
    <2>2. g \in FactHistory /\ g.current = f /\ g.superseded = h.superseded
      BY <2>1, HistoryFields DEF FactHistory
    <2> QED
      BY <1>4, <2>2 DEF Told
  <1>5. CASE FromPerson(h.current) /\ h.current.value = f.value
    BY <1>1, <1>5 DEF Seen
  <1>6. CASE FromPerson(h.current) /\ h.current.value # f.value
    <2>1. g = [current |-> IF h.current.turn = f.turn THEN h.current
                           ELSE As(h.current, Conflicting),
               superseded |-> h.superseded,
               contradicted |-> Append(h.contradicted, f)]
      BY <1>1, <1>6 DEF Seen
    <2>2. /\ g \in FactHistory
          /\ g.superseded = h.superseded
          /\ g.current = h.current \/ g.current = As(h.current, Conflicting)
      BY <2>1, <1>2, <1>3, HistoryFields DEF FactHistory
    <2>3. FromPerson(g.current) /\ g.current.value = h.current.value
      BY <1>2, <1>6, <2>2
    <2>4. h.current.status # Superseded => g.current.status # Superseded
      BY <1>2, <2>2 DEF Conflicting, Superseded
    <2> QED
      BY <1>6, <2>2, <2>3, <2>4 DEF Told
  <1> QED
    BY <1>4, <1>5, <1>6

\* A denial retires the current value and keeps it in the history.
LEMMA DeniedMeets ==
  ASSUME NEW h \in FactHistory, NEW w
  PROVE  /\ Denied(h, w) \in FactHistory
         /\ \A v : Told(h, v) => Told(Denied(h, w), v)
         /\ FromPerson(Denied(h, w).current) <=> FromPerson(h.current)
         /\ Denied(h, w).current.value = h.current.value
         /\ Denied(h, w).current.provenance = h.current.provenance
  <1> DEFINE g == Denied(h, w)
             f == As(h.current, Superseded)
  <1>1. /\ f \in SessionFact
        /\ FromPerson(f) <=> FromPerson(h.current)
        /\ f.value = h.current.value
        /\ f.provenance = h.current.provenance
    BY HistoryFields, AsTyped
  <1>2. Append(h.superseded, f) \in Seq(SessionFact) /\ <<>> \in Seq(SessionFact)
    BY <1>1, HistoryFields, AppendProperties, EmptySeq
  <1>3. CASE h.current.value = w
    <2>1. g = [current |-> f, superseded |-> Append(h.superseded, f), contradicted |-> <<>>]
      BY <1>3 DEF Denied
    <2>2. g \in FactHistory /\ g.current = f /\ g.superseded = Append(h.superseded, f)
      BY <1>1, <1>2, <2>1 DEF FactHistory
    <2>3. ASSUME NEW v, Told(h, v) PROVE Told(g, v)
      BY <1>1, <2>2, <2>3, AppendTells
    <2> QED
      BY <1>1, <2>2, <2>3
  <1>4. CASE h.current.value # w
    BY <1>4 DEF Denied
  <1> QED
    BY <1>3, <1>4

----------------------------------------------------------------------------
(* Dictionaries of facts.                                                  *)

\* Facts that are stated or seen meet what is held.
LEMMA MergeGood ==
  ASSUME NEW old, GoodFacts(old), NEW new, NewFacts(new)
  PROVE  GoodFacts(MergeFacts(old, new)) /\ Keeps(old, MergeFacts(old, new))
  <1> DEFINE merged == MergeFacts(old, new)
  <1>1. DOMAIN merged = DOMAIN old \cup DOMAIN new
    BY DEF MergeFacts
  <1>2. ASSUME NEW s \in DOMAIN old
        PROVE  merged[s] \in FactHistory /\ \A v : Told(old[s], v) => Told(merged[s], v)
    <2>1. old[s] \in FactHistory
      BY DEF GoodFacts
    <2>2. CASE s \in DOMAIN new
      <3>1. merged[s] = Met(old[s], new[s])
        BY <2>2 DEF MergeFacts
      <3>2. new[s] \in SessionFact /\ new[s].provenance \in {Stated, Observed}
        BY <2>2 DEF NewFacts
      <3> QED
        BY <2>1, <3>1, <3>2, SpokenMeets, SeenMeets
    <2>3. CASE s \notin DOMAIN new
      <3>1. merged[s] = old[s]
        BY <2>3 DEF MergeFacts
      <3> QED
        BY <2>1, <3>1
    <2> QED
      BY <2>2, <2>3
  <1>3. ASSUME NEW s \in DOMAIN new \ DOMAIN old PROVE merged[s] \in FactHistory
    <2>1. merged[s] = Begun(new[s]) /\ new[s] \in SessionFact
      BY DEF MergeFacts, NewFacts
    <2>2. <<>> \in Seq(SessionFact)
      BY EmptySeq
    <2> QED
      BY <2>1, <2>2 DEF Begun, FactHistory
  <1> QED
    BY <1>1, <1>2, <1>3 DEF GoodFacts, NewFacts, Keeps

\* ... what is stated, in the words of the message
LEMMA MergeStated ==
  ASSUME NEW old, GoodFacts(old), NEW new, NewFacts(new),
         \A s \in DOMAIN new : new[s].provenance = Stated
  PROVE  \A s \in DOMAIN new : /\ s \in DOMAIN MergeFacts(old, new)
                               /\ MergeFacts(old, new)[s].current = new[s]
                               /\ FromPerson(new[s])
  <1> TAKE s \in DOMAIN new
  <1>1. new[s] \in SessionFact /\ new[s].provenance = Stated
    BY DEF NewFacts
  <1>2. s \in DOMAIN MergeFacts(old, new)
    BY DEF MergeFacts
  <1>3. CASE s \in DOMAIN old
    <2>1. old[s] \in FactHistory /\ MergeFacts(old, new)[s] = Met(old[s], new[s])
      BY <1>3 DEF GoodFacts, MergeFacts
    <2> QED
      BY <1>1, <1>2, <2>1, SpokenMeets
  <1>4. CASE s \notin DOMAIN old
    <2>1. MergeFacts(old, new)[s] = Begun(new[s])
      BY <1>4 DEF MergeFacts
    <2> QED
      BY <1>1, <1>2, <2>1 DEF Begun, FromPerson
  <1> QED
    BY <1>3, <1>4

LEMMA RetractGood ==
  ASSUME NEW old, GoodFacts(old), NEW denied
  PROVE  /\ GoodFacts(Retract(old, denied))
         /\ Keeps(old, Retract(old, denied))
         /\ DOMAIN Retract(old, denied) = DOMAIN old
         /\ \A s \in DOMAIN old :
              /\ Retract(old, denied)[s].current.value = old[s].current.value
              /\ Retract(old, denied)[s].current.provenance = old[s].current.provenance
              /\ FromPerson(Retract(old, denied)[s].current) <=> FromPerson(old[s].current)
  <1> DEFINE new == Retract(old, denied)
  <1>1. DOMAIN new = DOMAIN old
    BY DEF Retract
  <1>2. ASSUME NEW s \in DOMAIN old
        PROVE  /\ new[s] \in FactHistory
               /\ \A v : Told(old[s], v) => Told(new[s], v)
               /\ new[s].current.value = old[s].current.value
               /\ new[s].current.provenance = old[s].current.provenance
               /\ FromPerson(new[s].current) <=> FromPerson(old[s].current)
    <2>1. old[s] \in FactHistory
      BY DEF GoodFacts
    <2>2. new[s] = old[s] \/ new[s] = Denied(old[s], denied[s])
      BY DEF Retract
    <2> QED
      BY <2>1, <2>2, DeniedMeets
  <1> QED
    BY <1>1, <1>2 DEF GoodFacts, Keeps

\* What an abandoned thread hands on.
LEMMA InheritGood ==
  ASSUME NEW old, GoodFacts(old)
  PROVE  /\ GoodFacts(Inherit(old))
         /\ Keeps(old, Inherit(old))
         /\ DOMAIN Inherit(old) = DOMAIN old
         /\ \A s \in DOMAIN old :
              /\ Inherit(old)[s].current.value = old[s].current.value
              /\ FromPerson(Inherit(old)[s].current) <=> FromPerson(old[s].current)
  <1> DEFINE new == Inherit(old)
  <1>1. DOMAIN new = DOMAIN old
    BY DEF Inherit
  <1>2. ASSUME NEW s \in DOMAIN old
        PROVE  /\ new[s] \in FactHistory
               /\ \A v : Told(old[s], v) => Told(new[s], v)
               /\ new[s].current.value = old[s].current.value
               /\ FromPerson(new[s].current) <=> FromPerson(old[s].current)
    <2>1. /\ old[s].current \in SessionFact
          /\ old[s].superseded \in Seq(SessionFact)
          /\ old[s].contradicted \in Seq(SessionFact)
      BY HistoryFields DEF GoodFacts
    <2>2. /\ new[s].current = Inherited(old[s].current)
          /\ new[s].superseded = old[s].superseded
          /\ new[s] = [current |-> Inherited(old[s].current),
                       superseded |-> old[s].superseded, contradicted |-> old[s].contradicted]
      BY DEF Inherit
    <2>3. /\ Inherited(old[s].current) \in SessionFact
          /\ Inherited(old[s].current).value = old[s].current.value
          /\ FromPerson(Inherited(old[s].current)) <=> FromPerson(old[s].current)
      BY <2>1 DEF Inherited, SessionFact, FromPerson, Provenances
    <2>4. new[s] \in FactHistory
      BY <2>1, <2>2, <2>3 DEF FactHistory
    <2> QED
      BY <2>2, <2>3, <2>4 DEF Told
  <1> QED
    BY <1>1, <1>2 DEF GoodFacts, Keeps

LEMMA KeepsTwice ==
  ASSUME NEW a, NEW b, NEW c, Keeps(a, b), Keeps(b, c) PROVE Keeps(a, c)
  BY DEF Keeps

LEMMA Untold ==
  ASSUME NEW facts, NEW m
  PROVE  Stands(facts, facts, m) /\ Keeps(facts, facts)
  BY DEF Stands, Keeps

\* ... what a photograph shows, beside what a person said
LEMMA MergeSeen ==
  ASSUME NEW old, GoodFacts(old), NEW new, NewFacts(new),
         \A s \in DOMAIN new : new[s].provenance = Observed
  PROVE  /\ \A s \in DOMAIN old : FromPerson(old[s].current) =>
              /\ s \in DOMAIN MergeFacts(old, new)
              /\ FromPerson(MergeFacts(old, new)[s].current)
              /\ MergeFacts(old, new)[s].current.value = old[s].current.value
              /\ old[s].current.status # Superseded =>
                   MergeFacts(old, new)[s].current.status # Superseded
         /\ \A s \in DOMAIN MergeFacts(old, new) :
              \/ s \in DOMAIN old /\ MergeFacts(old, new)[s] = old[s]
              \/ s \in DOMAIN old /\ FromPerson(old[s].current)
              \/ s \in DOMAIN new /\ MergeFacts(old, new)[s].current.provenance = Observed
  <1> DEFINE merged == MergeFacts(old, new)
  <1>1. DOMAIN merged = DOMAIN old \cup DOMAIN new
    BY DEF MergeFacts
  <1>2. ASSUME NEW s \in DOMAIN new
        PROVE  new[s] \in SessionFact /\ new[s].provenance = Observed
    BY DEF NewFacts
  <1>3. ASSUME NEW s \in DOMAIN old, s \in DOMAIN new
        PROVE  merged[s] = Met(old[s], new[s]) /\ old[s] \in FactHistory
    BY <1>3 DEF MergeFacts, GoodFacts
  <1>4. ASSUME NEW s \in DOMAIN old, s \notin DOMAIN new PROVE merged[s] = old[s]
    BY <1>4 DEF MergeFacts
  <1>5. ASSUME NEW s \in DOMAIN old, FromPerson(old[s].current)
        PROVE  /\ s \in DOMAIN merged
               /\ FromPerson(merged[s].current)
               /\ merged[s].current.value = old[s].current.value
               /\ old[s].current.status # Superseded => merged[s].current.status # Superseded
    <2>1. CASE s \in DOMAIN new
      BY <1>1, <1>2, <1>3, <1>5, <2>1, SeenMeets
    <2>2. CASE s \notin DOMAIN new
      BY <1>1, <1>4, <1>5, <2>2
    <2> QED
      BY <2>1, <2>2
  <1>6. ASSUME NEW s \in DOMAIN merged
        PROVE  \/ s \in DOMAIN old /\ merged[s] = old[s]
               \/ s \in DOMAIN old /\ FromPerson(old[s].current)
               \/ s \in DOMAIN new /\ merged[s].current.provenance = Observed
    <2>1. CASE s \in DOMAIN old /\ s \notin DOMAIN new
      BY <1>4, <2>1
    <2>2. CASE s \in DOMAIN old /\ s \in DOMAIN new /\ ~FromPerson(old[s].current)
      <3>1. merged[s].current = new[s]
        BY <1>2, <1>3, <2>2, SeenMeets
      <3> QED
        BY <1>2, <2>2, <3>1
    <2>3. CASE s \notin DOMAIN old
      <3>1. s \in DOMAIN new /\ merged[s] = Begun(new[s])
        BY <1>1, <2>3 DEF MergeFacts
      <3> QED
        BY <1>2, <3>1 DEF Begun
    <2> QED
      BY <2>1, <2>2, <2>3
  <1> QED
    BY <1>5, <1>6

----------------------------------------------------------------------------
(* Messages and requests.                                                  *)

LEMMA PartialFields ==
  ASSUME NEW S, NEW V, NEW f \in PartialOver(S, V)
  PROVE  DOMAIN f \subseteq S /\ \A s \in DOMAIN f : f[s] \in V
  BY DEF PartialOver

LEMMA MessageFields ==
  ASSUME NEW m \in Messages
  PROVE  /\ DOMAIN m.says \subseteq BuildingSlots
         /\ \A s \in DOMAIN m.says : m.says[s] \in FactValues
         /\ DOMAIN m.shows \subseteq VisibleSlots
         /\ \A s \in DOMAIN m.shows : m.shows[s] \in FactValues
         /\ m.uses \in Products \cup {NoProduct}
         /\ m.topic \in Products \cup {NoProduct}
         /\ m.objective \in Objectives \cup {NoObjective}
         /\ m.parts \in 1 .. 2
  <1>1. m \in Message
    BY GraphConstants
  <1>2. /\ m.says \in PartialOver(BuildingSlots, FactValues)
        /\ m.shows \in PartialOver(VisibleSlots, FactValues)
        /\ m.uses \in Products \cup {NoProduct}
        /\ m.topic \in Products \cup {NoProduct}
        /\ m.objective \in Objectives \cup {NoObjective}
        /\ m.parts \in 1 .. 2
    BY <1>1 DEF Message
  <1> QED
    BY <1>2, PartialFields

LEMMA BuildingSlot == BuildingSlots \subseteq FactSlots /\ "product" \notin BuildingSlots
  BY DEF BuildingSlots

\* Facts a text supplies, under one provenance.
LEMMA SuppliedFacts ==
  ASSUME NEW says, DOMAIN says \subseteq FactSlots,
         \A s \in DOMAIN says : says[s] \in FactValues,
         NEW p \in {Stated, Observed}, NEW n \in Nat
  PROVE  /\ NewFacts([s \in DOMAIN says |-> Fact(says[s], p, n)])
         /\ \A s \in DOMAIN says : /\ Fact(says[s], p, n).provenance = p
                                   /\ Fact(says[s], p, n).value = says[s]
                                   /\ Fact(says[s], p, n).status = Active
  <1>1. ASSUME NEW s \in DOMAIN says
        PROVE  /\ Fact(says[s], p, n) \in SessionFact
               /\ Fact(says[s], p, n).provenance = p
               /\ Fact(says[s], p, n).value = says[s]
               /\ Fact(says[s], p, n).status = Active
    BY FactTyped DEF Fact, Provenances
  <1> QED
    BY <1>1 DEF NewFacts

LEMMA NoFacts == GoodFacts(Nothing) /\ NewFacts(Nothing) /\ DOMAIN Nothing = {}
  BY DEF GoodFacts, NewFacts, Nothing

\* What a turn's own text becomes.
LEMMA FactsFromSaid ==
  ASSUME NEW c, Typed(c)
  PROVE  LET m == c.question
             from == FactsFrom(m, c.facts, c.index, c.topic)
         IN  /\ NewFacts(from)
             /\ \A s \in DOMAIN from :
                  /\ from[s].provenance = Stated
                  /\ from[s].status = Active
                  /\ \/ s \in DOMAIN m.says /\ from[s].value = m.says[s]
                     \/ s = "product" /\ from[s].value = m.uses
             /\ m.asksSlot = NoSlot =>
                  \A s \in DOMAIN Restated(m) \ Transient(m) :
                    s \in DOMAIN from /\ from[s].value = m.says[s]
  <1> DEFINE m == c.question
             from == FactsFrom(m, c.facts, c.index, c.topic)
             said == DOMAIN Restated(m) \ Transient(m)
  <1>1. m \in Messages /\ c.index \in Nat
    BY GraphConstants DEF Typed
  <1>2. said \subseteq DOMAIN m.says /\ said \subseteq BuildingSlots
    BY <1>1, MessageFields DEF Restated
  <1>3. CASE m.asksSlot # NoSlot
    <2>1. from = Nothing
      BY <1>3 DEF FactsFrom
    <2> QED
      BY <1>3, <2>1, NoFacts
  <1>4. CASE m.asksSlot = NoSlot
    <2>1. PICK product \in SUBSET {"product"} :
            /\ from = [s \in said \cup product |->
                         Fact(IF s = "product" THEN m.uses ELSE m.says[s], Stated, c.index)]
            /\ product # {} => m.uses # NoProduct
      <3> DEFINE product == IF m.uses # NoProduct /\ m.uses = ResolvedProduct(m, c.facts, c.topic)
                                 /\ ProductOrigin(m, c.facts, c.index, c.topic) = Stated
                            THEN {"product"} ELSE {}
      <3>1. from = [s \in said \cup product |->
                      Fact(IF s = "product" THEN m.uses ELSE m.says[s], Stated, c.index)]
        BY <1>4 DEF FactsFrom
      <3>2. product \in SUBSET {"product"} /\ (product # {} => m.uses # NoProduct)
        OBVIOUS
      <3> QED
        BY <3>1, <3>2
    <2>2. DOMAIN from = said \cup product
      BY <2>1
    <2>3. ASSUME NEW s \in said
          PROVE  /\ from[s] \in SessionFact
                 /\ from[s].provenance = Stated
                 /\ from[s].status = Active
                 /\ s \in DOMAIN m.says /\ from[s].value = m.says[s]
                 /\ s \in FactSlots
      <3>1. s # "product" /\ s \in FactSlots /\ s \in DOMAIN m.says
        BY <1>2, BuildingSlot
      <3>2. from[s] = Fact(m.says[s], Stated, c.index)
        BY <2>1, <3>1
      <3>3. m.says[s] \in FactValues
        BY <1>1, <3>1, MessageFields
      <3> QED
        BY <1>1, <3>1, <3>2, <3>3, FactTyped DEF Fact, Provenances
    <2>4. ASSUME NEW s \in product
          PROVE  /\ from[s] \in SessionFact
                 /\ from[s].provenance = Stated
                 /\ from[s].status = Active
                 /\ s = "product" /\ from[s].value = m.uses
                 /\ s \in FactSlots
      <3>1. s = "product" /\ m.uses # NoProduct
        BY <2>1
      <3>2. from[s] = Fact(m.uses, Stated, c.index)
        BY <2>1, <3>1
      <3>3. m.uses \in FactValues
        BY <1>1, <3>1, MessageFields, UnderstandingConstants
      <3> QED
        BY <1>1, <3>1, <3>2, <3>3, FactTyped, ConversationConstants DEF Fact, Provenances
    <2> QED
      BY <1>4, <2>2, <2>3, <2>4 DEF NewFacts
  <1> QED
    BY <1>3, <1>4

LEMMA ResolvedFields ==
  ASSUME NEW c, Typed(c)
  PROVE  /\ Resolved(c).intent = Intent(c.question)
         /\ Resolved(c).objective \in Objectives \cup {NoObjective}
         /\ Resolved(c).slots = ResolvedSlots(c.question, c.facts)
         /\ Resolved(c).unsettled = UnsettledSlots(c.facts)
         /\ MissingFacts(Resolved(c)) \subseteq FactSlots
  <1>1. /\ Resolved(c).intent = Intent(c.question)
        /\ Resolved(c).objective = IF c.question.objective # NoObjective
                                   THEN c.question.objective ELSE c.reading.objective
        /\ Resolved(c).slots = ResolvedSlots(c.question, c.facts)
        /\ Resolved(c).unsettled = UnsettledSlots(c.facts)
    BY DEF Resolved, Resolve
  <1>2. c.question.objective \in Objectives \cup {NoObjective}
    BY MessageFields DEF Typed
  <1>3. Resolved(c).objective \in Objectives \cup {NoObjective}
    BY <1>1, <1>2 DEF Typed
  <1>4. /\ Requirement[Resolved(c).objective].always \subseteq FactSlots
        /\ Requirement[Resolved(c).objective].external \subseteq FactSlots
    BY <1>3, EvidenceConstants
  <1>5. UnsettledSlots(c.facts) \subseteq FactSlots
    BY DEF UnsettledSlots, Typed, GoodFacts
  <1>6. Needed(Resolved(c).objective, Resolved(c).slots) \subseteq FactSlots
    BY <1>4 DEF Needed
  <1> QED
    BY <1>1, <1>3, <1>5, <1>6 DEF MissingFacts

LEMMA SameRequest ==
  ASSUME NEW c, NEW d, d.question = c.question, d.reading = c.reading, d.facts = c.facts,
         d.index = c.index, d.topic = c.topic
  PROVE  Resolved(d) = Resolved(c)
  BY DEF Resolved

LEMMA SelectingAsksNoSlot ==
  ASSUME NEW m, Intent(m) = "select" PROVE m.asksSlot = NoSlot
  <1> SUFFICES ASSUME m.asksSlot # NoSlot PROVE FALSE
    OBVIOUS
  <1>1. Intent(m) \in {"escalate", "lookup"}
    BY DEF Intent
  <1> QED
    BY <1>1

----------------------------------------------------------------------------
(* Steps.                                                                  *)

\* What a step may do to what was said, to any thread that outlives it.
Steady ==
  \A t \in DOMAIN threads \cap DOMAIN threads' :
    \/ OpensCase
    \/ /\ Stands(threads[t].facts, threads'[t].facts, turn.message)
       /\ Keeps(threads[t].facts, threads'[t].facts)

\* A node leaves its thread fit for the next one.
NodeStep ==
  \E d : /\ Writes(d)
         /\ Fit(d) /\ InTurn(turn, d)
         /\ \/ OpensCase
            \/ Stands(Here.facts, d.facts, turn.message) /\ Keeps(Here.facts, d.facts)

LEMMA NodeStepGood ==
  ASSUME GraphInv, Running, NodeStep PROVE GraphInv' /\ Steady
  <1>1. PICK d : /\ Writes(d)
                 /\ Fit(d) /\ InTurn(turn, d)
                 /\ \/ OpensCase
                    \/ Stands(Here.facts, d.facts, turn.message) /\ Keeps(Here.facts, d.facts)
    BY DEF NodeStep
  <1>2. turn.thread \in DOMAIN threads
    BY DEF GraphInv, TurnOK
  <1>3. /\ turn' = turn /\ asked' = asked
        /\ DOMAIN threads' = DOMAIN threads
        /\ threads'[turn.thread] = d
        /\ \A t \in DOMAIN threads \ {turn.thread} : threads'[t] = threads[t]
    BY <1>1, <1>2 DEF Writes
  <1>4. Here' = d /\ Running'
    BY <1>3 DEF Here, Running
  <1>5. ASSUME NEW t \in DOMAIN threads'
        PROVE  /\ t \in Threads
               /\ Fit(threads'[t])
               /\ (Running' /\ t = turn'.thread) \/ threads'[t].next \in Parked
    <2>1. CASE t = turn.thread
      BY <1>1, <1>2, <1>3, <1>4, <2>1 DEF GraphInv
    <2>2. CASE t # turn.thread
      BY <1>3, <2>2 DEF GraphInv
    <2> QED
      BY <2>1, <2>2
  <1>6. TurnOK'
    BY <1>1, <1>2, <1>3, <1>4 DEF GraphInv, TurnOK
  <1>7. GraphInv'
    BY <1>3, <1>5, <1>6 DEF GraphInv
  <1>8. ASSUME NEW t \in DOMAIN threads, t \in DOMAIN threads'
        PROVE  \/ OpensCase
               \/ /\ Stands(threads[t].facts, threads'[t].facts, turn.message)
                  /\ Keeps(threads[t].facts, threads'[t].facts)
    <2>1. CASE t = turn.thread
      BY <1>1, <1>3, <2>1 DEF Here
    <2>2. CASE t # turn.thread
      BY <1>3, <2>2, Untold
    <2> QED
      BY <2>1, <2>2
  <1> QED
    BY <1>7, <1>8 DEF Steady

\* What a node finds.
LEMMA Found ==
  ASSUME GraphInv, Running
  PROVE  /\ Typed(Here) /\ Settled(Here) /\ Approved(Here)
         /\ InTurn(turn, Here)
         /\ turn.message \in Messages /\ turn.resumes \in BOOLEAN
         /\ Here.question \in Messages
         /\ Here.index \in Nat
  <1>1. turn.thread \in DOMAIN threads /\ Fit(Here) /\ InTurn(turn, Here)
    BY DEF GraphInv, TurnOK, Here
  <1>2. Typed(Here) /\ Settled(Here) /\ Approved(Here)
    BY <1>1 DEF Fit
  <1>3. Here.question \in Messages /\ Here.index \in Nat
    BY <1>2, GraphConstants DEF Typed
  <1> QED
    BY <1>1, <1>2, <1>3 DEF GraphInv, TurnOK

LEMMA UnderstandTurnStep ==
  ASSUME GraphInv, Running, UnderstandTurn PROVE NodeStep
  <1> DEFINE c == Here
  <1>1. c.next = "understand_turn"
    BY DEF UnderstandTurn, At, Here
  <1>2. PICK r \in Readings(c.question) \cup {Deterministic} :
          Writes([c EXCEPT !.reading = r, !.boundary = Boundary(c),
                           !.missing = {}, !.owners = {}, !.decision = Undecided,
                           !.answers = <<>>, !.perceived = FALSE,
                           !.granted = {},
                           !.resumed = FALSE, !.next = "case_boundary"])
    BY DEF UnderstandTurn
  <1> DEFINE d == [c EXCEPT !.reading = r, !.boundary = Boundary(c),
                            !.missing = {}, !.owners = {}, !.decision = Undecided,
                            !.answers = <<>>, !.perceived = FALSE,
                            !.granted = {},
                            !.resumed = FALSE, !.next = "case_boundary"]
  <1>3. r.objective \in Objectives \cup {NoObjective}
    BY DEF Readings, Deterministic
  <1>4. Typed(c)
    BY Found
  <1>5. /\ DOMAIN d = ChannelNames
        /\ d.question = c.question /\ d.index = c.index /\ d.facts = c.facts /\ d.topic = c.topic
        /\ d.reading = r /\ d.missing = {} /\ d.owners = {} /\ d.decision = Undecided
        /\ d.answers = <<>> /\ d.granted = {} /\ d.resumed = FALSE
        /\ d.next = "case_boundary"
    BY <1>4 DEF Typed, ChannelNames
  <1>6. Typed(d)
    BY <1>3, <1>4, <1>5, EmptySeq DEF Typed, Nodes, Early
  <1>7. Settled(d)
    BY <1>5 DEF Settled, Choosing
  <1>8. Approved(d)
    <2>1. Undecided.approved = {}
      BY DEF Undecided
    <2> QED
      BY <1>5, <2>1 DEF Approved, End
  <1>9. InTurn(turn, d)
    BY <1>1, <1>5, Found DEF InTurn, Early
  <1>10. Stands(c.facts, d.facts, turn.message) /\ Keeps(c.facts, d.facts)
    BY <1>5, Untold
  <1>11. Writes(d) /\ Fit(d)
    BY <1>2, <1>6, <1>7, <1>8 DEF Fit
  <1> QED
    BY <1>9, <1>10, <1>11 DEF NodeStep

LEMMA CaseBoundaryStep ==
  ASSUME GraphInv, Running, CaseBoundary PROVE NodeStep
  <1> DEFINE c == Here
             m == c.question
             opens == OpensANewCase(m.introduces, m.corrects, c.reading.newSubject)
             keep == [s \in DOMAIN m.says |-> Fact(m.says[s], Stated, c.index)]
  <1>1. c.next = "case_boundary" /\ At("case_boundary")
    BY DEF CaseBoundary, At, Here
  <1>2. Typed(c) /\ Approved(c) /\ InTurn(turn, c) /\ m \in Messages /\ c.index \in Nat
    BY Found
  <1>3. m = turn.message /\ ~turn.resumes
    BY <1>1, <1>2 DEF InTurn, Early
  <1>4. CASE opens
    <2> DEFINE d == [c EXCEPT !.facts = MergeNewCase(keep), !.topic = NoProduct,
                              !.observations = {}, !.next = "resolve_state"]
    <2>1. Writes(d)
      BY <1>4 DEF CaseBoundary
    <2>2. /\ DOMAIN d = ChannelNames
          /\ d.question = m /\ d.index = c.index /\ d.topic = NoProduct
          /\ d.facts = MergeNewCase(keep)
          /\ d.reading = c.reading /\ d.missing = c.missing /\ d.owners = c.owners
          /\ d.decision = c.decision
          /\ d.answers = c.answers /\ d.granted = c.granted /\ d.resumed = c.resumed
          /\ d.next = "resolve_state"
      BY <1>2 DEF Typed, ChannelNames
    <2>3. NewFacts(keep) /\ \A s \in DOMAIN m.says : /\ keep[s].provenance = Stated
                                                     /\ keep[s].value = m.says[s]
      <3>1. DOMAIN m.says \subseteq BuildingSlots /\ \A s \in DOMAIN m.says : m.says[s] \in FactValues
        BY <1>2, MessageFields
      <3> QED
        BY <1>2, <3>1, BuildingSlot, SuppliedFacts
    <2>4. GoodFacts(MergeFacts(Nothing, keep))
      BY <2>3, NoFacts, MergeGood
    <2>5. Typed(d)
      BY <1>2, <2>2, <2>4 DEF Typed, MergeNewCase, Nodes, Early
    <2>6. Settled(d)
      BY <2>2 DEF Settled, Choosing
    <2>7. Approved(d)
      BY <1>2, <2>2 DEF Approved, End
    <2>8. Clean(d.facts, m)
      <3>1. DOMAIN d.facts = DOMAIN m.says
        BY <2>2, NoFacts DEF MergeNewCase, MergeFacts
      <3>2. \A s \in DOMAIN keep : MergeFacts(Nothing, keep)[s].current = keep[s]
        <4>1. \A s \in DOMAIN keep : keep[s].provenance = Stated
          BY <2>3
        <4> HIDE DEF keep
        <4> QED
          BY <2>3, <4>1, NoFacts, MergeStated
      <3>3. ASSUME NEW s \in DOMAIN m.says PROVE d.facts[s].current.value = m.says[s]
        <4>1. MergeFacts(Nothing, keep)[s].current = keep[s] /\ keep[s].value = m.says[s]
          BY <2>3, <3>2
        <4>2. d.facts = MergeFacts(Nothing, keep)
          BY <2>2 DEF MergeNewCase
        <4> HIDE DEF d, keep
        <4> QED
          BY <4>1, <4>2
      <3> QED
        BY <3>1, <3>3 DEF Clean
    <2>9. InTurn(turn, d)
      BY <1>3, <2>2, <2>8 DEF InTurn
    <2>10. OpensCase
      BY <1>1, <1>4 DEF OpensCase
    <2> QED
      BY <2>1, <2>5, <2>6, <2>7, <2>9, <2>10 DEF NodeStep, Fit
  <1>5. CASE ~opens
    <2> DEFINE d == [c EXCEPT !.next = "resolve_state"]
    <2>1. Writes(d)
      BY <1>5 DEF CaseBoundary
    <2>2. /\ DOMAIN d = ChannelNames
          /\ d.question = m /\ d.index = c.index /\ d.topic = c.topic
          /\ d.facts = c.facts
          /\ d.reading = c.reading /\ d.missing = c.missing /\ d.owners = c.owners
          /\ d.decision = c.decision
          /\ d.answers = c.answers /\ d.granted = c.granted /\ d.resumed = c.resumed
          /\ d.next = "resolve_state"
      BY <1>2 DEF Typed, ChannelNames
    <2>3. Typed(d)
      BY <1>2, <2>2 DEF Typed, Nodes, Early
    <2>4. Settled(d)
      BY <2>2 DEF Settled, Choosing
    <2>5. Approved(d)
      BY <1>2, <2>2 DEF Approved, End
    <2>6. ~m.introduces
      BY <1>5 DEF OpensANewCase
    <2>7. InTurn(turn, d)
      BY <1>3, <2>2, <2>6 DEF InTurn
    <2>8. Stands(c.facts, d.facts, turn.message) /\ Keeps(c.facts, d.facts)
      BY <2>2, Untold
    <2> QED
      BY <2>1, <2>3, <2>4, <2>5, <2>7, <2>8 DEF NodeStep, Fit
  <1> QED
    BY <1>4, <1>5

LEMMA ResolveStateStep ==
  ASSUME GraphInv, Running, ResolveState PROVE NodeStep
  <1> DEFINE c == Here
             m == c.question
             from == FactsFrom(m, c.facts, c.index, c.topic)
             left == Retract(c.facts, m.denies)
             facts == MergeFacts(left, from)
             next == IF c.boundary # NoAnswer /\ ~m.photo THEN "answer_state" ELSE "analyse_images"
             d == [c EXCEPT !.facts = facts, !.resolved = Resolved(c),
                            !.topic = IF m.topic # NoProduct THEN m.topic ELSE c.topic,
                            !.next = next]
  <1>1. c.next = "resolve_state" /\ Writes(d)
    BY DEF ResolveState, At, Here
  <1>2. Typed(c) /\ Approved(c) /\ InTurn(turn, c) /\ m \in Messages /\ c.index \in Nat
    BY Found
  <1>3. m = turn.message /\ ~turn.resumes
    BY <1>1, <1>2 DEF InTurn, Early
  <1>4. /\ DOMAIN d = ChannelNames
        /\ d.question = m /\ d.index = c.index
        /\ d.topic = IF m.topic # NoProduct THEN m.topic ELSE c.topic
        /\ d.facts = facts
        /\ d.reading = c.reading /\ d.missing = c.missing /\ d.owners = c.owners
        /\ d.decision = c.decision
        /\ d.answers = c.answers /\ d.granted = c.granted /\ d.resumed = c.resumed
        /\ d.next = next
    BY <1>2 DEF Typed, ChannelNames
  <1>5. /\ NewFacts(from)
        /\ \A s \in DOMAIN from :
             /\ from[s].provenance = Stated
             /\ from[s].status = Active
             /\ \/ s \in DOMAIN m.says /\ from[s].value = m.says[s]
                \/ s = "product" /\ from[s].value = m.uses
        /\ m.asksSlot = NoSlot =>
             \A s \in DOMAIN Restated(m) \ Transient(m) :
               s \in DOMAIN from /\ from[s].value = m.says[s]
    BY <1>2, FactsFromSaid
  <1>6. GoodFacts(c.facts)
    BY <1>2 DEF Typed
  <1>7. /\ GoodFacts(left) /\ Keeps(c.facts, left) /\ DOMAIN left = DOMAIN c.facts
        /\ \A s \in DOMAIN c.facts :
             /\ left[s].current.value = c.facts[s].current.value
             /\ left[s].current.provenance = c.facts[s].current.provenance
             /\ FromPerson(left[s].current) <=> FromPerson(c.facts[s].current)
    BY <1>6, RetractGood
  <1>8. GoodFacts(facts) /\ Keeps(left, facts)
    BY <1>5, <1>7, MergeGood
  <1>9. \A s \in DOMAIN from : /\ s \in DOMAIN facts /\ facts[s].current = from[s]
                               /\ FromPerson(from[s])
    BY <1>5, <1>7, MergeStated
  <1>10. /\ DOMAIN facts = DOMAIN c.facts \cup DOMAIN from
         /\ \A s \in DOMAIN c.facts \ DOMAIN from : facts[s] = left[s]
    BY <1>7 DEF MergeFacts
  <1>11. Typed(d)
    <2>1. d.topic \in Products \cup {NoProduct}
      BY <1>2, <1>4, MessageFields DEF Typed
    <2> QED
      BY <1>2, <1>4, <1>8, <2>1 DEF Typed, Nodes, Early, Parked
  <1>12. Settled(d)
    <2>1. ASSUME Selects(d) PROVE SaidHeld(d)
      <3>1. m.asksSlot = NoSlot
        BY <1>4, <2>1, SelectingAsksNoSlot DEF Selects
      <3>2. ASSUME NEW s \in DOMAIN Restated(m) \ Transient(m)
            PROVE  /\ s \in DOMAIN facts
                   /\ FromPerson(facts[s].current)
                   /\ facts[s].current.status # Superseded
                   /\ facts[s].current.value = m.says[s]
        BY <1>5, <1>9, <3>1 DEF Active, Superseded
      <3> QED
        BY <1>4, <3>2 DEF SaidHeld
    <2> QED
      BY <1>4, <2>1 DEF Settled, Choosing
  <1>13. Approved(d)
    BY <1>2, <1>4 DEF Approved, End
  <1>14. InTurn(turn, d)
    <2>1. ASSUME m.introduces PROVE Clean(facts, m)
      <3>1. Clean(c.facts, m)
        BY <1>1, <1>2, <1>3, <2>1 DEF InTurn
      <3>2. ASSUME NEW s \in DOMAIN facts
            PROVE  \/ s = "product"
                   \/ s \in DOMAIN m.says /\ facts[s].current.value = m.says[s]
                   \/ facts[s].current.provenance = Observed /\ m.photo
        <4>1. CASE s \in DOMAIN from
          BY <1>5, <1>9, <4>1
        <4>2. CASE s \notin DOMAIN from
          BY <1>7, <1>10, <3>1, <4>2 DEF Clean
        <4> QED
          BY <4>1, <4>2
      <3> QED
        BY <3>2 DEF Clean
    <2> QED
      BY <1>3, <1>4, <2>1 DEF InTurn
  <1>15. Stands(c.facts, facts, turn.message)
    <2>1. ASSUME NEW s \in DOMAIN c.facts, FromPerson(c.facts[s].current)
          PROVE  /\ s \in DOMAIN facts
                 /\ FromPerson(facts[s].current)
                 /\ \/ facts[s].current.value = c.facts[s].current.value
                    \/ s \in DOMAIN m.says /\ facts[s].current.value = m.says[s]
                    \/ s = "product" /\ facts[s].current.value = m.uses
      <3>1. CASE s \in DOMAIN from
        BY <1>5, <1>9, <3>1
      <3>2. CASE s \notin DOMAIN from
        BY <1>7, <1>10, <2>1, <3>2
      <3> QED
        BY <3>1, <3>2
    <2> QED
      BY <1>3, <2>1 DEF Stands
  <1>16. Keeps(c.facts, facts)
    BY <1>7, <1>8, KeepsTwice
  <1> QED
    BY <1>1, <1>4, <1>11, <1>12, <1>13, <1>14, <1>15, <1>16 DEF NodeStep, Fit

LEMMA AnswerStateStep ==
  ASSUME GraphInv, Running, AnswerState PROVE NodeStep
  <1> DEFINE c == Here
             d == [c EXCEPT !.answers = <<Plain(Boundary(c))>>, !.next = End]
  <1>1. c.next = "answer_state" /\ Writes(d)
    BY DEF AnswerState, At, Here
  <1>2. Typed(c) /\ Approved(c) /\ InTurn(turn, c)
    BY Found
  <1>3. Boundary(c) \in {"state", "ask_back", "acknowledge", NoAnswer}
    BY DEF Boundary, StateOnlyAnswer
  <1>4. Plain(Boundary(c)) \in Reply /\ Plain(Boundary(c)).advises = {}
    BY <1>3 DEF Plain, Answer, Reply, Paths
  <1>5. /\ DOMAIN d = ChannelNames
        /\ d.question = c.question /\ d.index = c.index /\ d.topic = c.topic
        /\ d.facts = c.facts
        /\ d.reading = c.reading /\ d.missing = c.missing /\ d.owners = c.owners
        /\ d.decision = c.decision /\ d.resolved = c.resolved
        /\ d.answers = <<Plain(Boundary(c))>> /\ d.granted = c.granted /\ d.resumed = c.resumed
        /\ d.next = End
    BY <1>2 DEF Typed, ChannelNames
  <1>6. Typed(d)
    BY <1>2, <1>4, <1>5 DEF Typed, Nodes, Parked
  <1>7. Settled(d)
    BY <1>5 DEF Settled, Choosing, End
  <1>8. Approved(d)
    BY <1>2, <1>4, <1>5 DEF Approved, End
  <1>9. InTurn(turn, d)
    BY <1>1, <1>2, <1>5 DEF InTurn, Early, End
  <1>10. Stands(c.facts, d.facts, turn.message) /\ Keeps(c.facts, d.facts)
    BY <1>5, Untold
  <1> QED
    BY <1>1, <1>6, <1>7, <1>8, <1>9, <1>10 DEF NodeStep, Fit

LEMMA AnalyseImagesStep ==
  ASSUME GraphInv, Running, AnalyseImages PROVE NodeStep
  <1> DEFINE c == Here
             m == c.question
             seen(read) == IF read THEN [s \in DOMAIN m.shows |-> Fact(m.shows[s], Observed, c.index)]
                           ELSE Nothing
             d(read) == [c EXCEPT
                 !.facts = MergeFacts(c.facts, seen(read)),
                 !.observations = MergeObservations(c.observations,
                                                    {seen(read)[s] : s \in DOMAIN seen(read)}),
                 !.perceived = m.photo,
                 !.next = "determine_missing_information"]
  <1>1. c.next = "analyse_images"
    BY DEF AnalyseImages, At, Here
  <1>2. PICK read \in IF m.photo THEN BOOLEAN ELSE {FALSE} : Writes(d(read))
    BY DEF AnalyseImages
  <1>3. Typed(c) /\ Settled(c) /\ Approved(c) /\ InTurn(turn, c) /\ m \in Messages /\ c.index \in Nat
    BY Found
  <1>4. m = turn.message /\ ~turn.resumes
    BY <1>1, <1>3 DEF InTurn, Early
  <1> DEFINE new == seen(read)
             facts == MergeFacts(c.facts, new)
             e == d(read)
  <1>5. /\ DOMAIN e = ChannelNames
        /\ e.question = m /\ e.index = c.index /\ e.topic = c.topic
        /\ e.facts = facts
        /\ e.reading = c.reading /\ e.missing = c.missing /\ e.owners = c.owners
        /\ e.decision = c.decision
        /\ e.answers = c.answers /\ e.granted = c.granted /\ e.resumed = c.resumed
        /\ e.next = "determine_missing_information"
    BY <1>3 DEF Typed, ChannelNames
  <1>6. /\ NewFacts(new)
        /\ \A s \in DOMAIN new : new[s].provenance = Observed
        /\ DOMAIN new # {} => m.photo
    <2>1. CASE read
      <3>1. m.photo
        BY <1>2, <2>1
      <3>2. /\ DOMAIN m.shows \subseteq VisibleSlots
            /\ \A s \in DOMAIN m.shows : m.shows[s] \in FactValues
        BY <1>3, MessageFields
      <3>3. new = [s \in DOMAIN m.shows |-> Fact(m.shows[s], Observed, c.index)]
        BY <2>1
      <3>4. NewFacts(new) /\ \A s \in DOMAIN m.shows : Fact(m.shows[s], Observed, c.index).provenance = Observed
        BY <1>3, <3>2, <3>3, SuppliedFacts DEF VisibleSlots
      <3> QED
        BY <3>1, <3>3, <3>4
    <2>2. CASE ~read
      BY <2>2, NoFacts
    <2> QED
      BY <2>1, <2>2
  <1>7. GoodFacts(c.facts)
    BY <1>3 DEF Typed
  <1>8. GoodFacts(facts) /\ Keeps(c.facts, facts)
    BY <1>6, <1>7, MergeGood
  <1>9. /\ \A s \in DOMAIN c.facts : FromPerson(c.facts[s].current) =>
             /\ s \in DOMAIN facts
             /\ FromPerson(facts[s].current)
             /\ facts[s].current.value = c.facts[s].current.value
             /\ c.facts[s].current.status # Superseded => facts[s].current.status # Superseded
        /\ \A s \in DOMAIN facts :
             \/ s \in DOMAIN c.facts /\ facts[s] = c.facts[s]
             \/ s \in DOMAIN c.facts /\ FromPerson(c.facts[s].current)
             \/ s \in DOMAIN new /\ facts[s].current.provenance = Observed
    BY <1>6, <1>7, MergeSeen, SMTT(30)
  <1>10. Typed(e)
    BY <1>3, <1>5, <1>8 DEF Typed, Nodes, Early
  <1>11. Settled(e)
    <2>1. ASSUME Selects(e) PROVE SaidHeld(e)
      <3>1. SaidHeld(c)
        BY <1>1, <1>3, <1>5, <2>1 DEF Settled, Selects
      <3>2. ASSUME NEW s \in DOMAIN Restated(m) \ Transient(m)
            PROVE  /\ s \in DOMAIN facts
                   /\ FromPerson(facts[s].current)
                   /\ facts[s].current.status # Superseded
                   /\ c.resumed \/ facts[s].current.value = m.says[s]
        BY <1>9, <3>1 DEF SaidHeld
      <3> QED
        BY <1>5, <3>2, SMTT(30) DEF SaidHeld
    <2> QED
      BY <1>5, <2>1 DEF Settled, Choosing
  <1>12. Approved(e)
    BY <1>3, <1>5 DEF Approved, End
  <1>13. InTurn(turn, e)
    <2>1. ASSUME m.introduces PROVE Clean(facts, m)
      <3>1. Clean(c.facts, m)
        BY <1>1, <1>3, <1>4, <2>1 DEF InTurn
      <3>2. ASSUME NEW s \in DOMAIN facts
            PROVE  \/ s = "product"
                   \/ s \in DOMAIN m.says /\ facts[s].current.value = m.says[s]
                   \/ facts[s].current.provenance = Observed /\ m.photo
        <4>1. CASE s \in DOMAIN new /\ facts[s].current.provenance = Observed
          BY <1>6, <4>1
        <4>2. CASE s \in DOMAIN c.facts /\ facts[s] = c.facts[s]
          BY <3>1, <4>2 DEF Clean
        <4>3. CASE s \in DOMAIN c.facts /\ FromPerson(c.facts[s].current)
          <5>1. c.facts[s].current.provenance # Observed
            BY <4>3 DEF FromPerson, Observed, Stated, Carried
          <5>2. facts[s].current.value = c.facts[s].current.value
            BY <1>9, <4>3
          <5> QED
            BY <3>1, <4>3, <5>1, <5>2 DEF Clean
        <4> QED
          BY <1>9, <4>1, <4>2, <4>3
      <3> QED
        BY <3>2 DEF Clean
    <2> QED
      BY <1>4, <1>5, <2>1 DEF InTurn
  <1>14. Stands(c.facts, facts, turn.message)
    BY <1>9 DEF Stands
  <1>15. Writes(e)
    BY <1>2
  <1> QED
    BY <1>5, <1>8, <1>10, <1>11, <1>12, <1>13, <1>14, <1>15, ZenonT(40) DEF NodeStep, Fit

LEMMA DetermineMissingStep ==
  ASSUME GraphInv, Running, DetermineMissing PROVE NodeStep
  <1> DEFINE c == Here
             resolved == Resolved(c)
             missing == IF resolved.intent = "select" THEN MissingFacts(resolved) ELSE {}
             next == CASE c.boundary # NoAnswer -> "answer_state"
                       [] c.boundary = NoAnswer /\ resolved.intent # "select" -> "delegate"
                       [] c.boundary = NoAnswer /\ resolved.intent = "select" ->
                            IF missing = {} THEN "retrieve_candidates" ELSE "ask_back"
             d == [c EXCEPT !.resolved = resolved, !.missing = missing, !.next = next]
  <1>1. c.next = "determine_missing_information" /\ Writes(d)
    BY DEF DetermineMissing, At, Here
  <1>2. Typed(c) /\ Settled(c) /\ Approved(c) /\ InTurn(turn, c)
    BY Found
  <1>3. \/ next \in {"answer_state", "delegate"}
        \/ next \in {"retrieve_candidates", "ask_back"} /\ resolved.intent = "select"
    <2>1. CASE c.boundary # NoAnswer
      BY <2>1
    <2>2. CASE c.boundary = NoAnswer /\ resolved.intent # "select"
      BY <2>2
    <2>3. CASE c.boundary = NoAnswer /\ resolved.intent = "select"
      BY <2>3
    <2> QED
      BY <2>1, <2>2, <2>3
  <1> HIDE DEF next
  <1>4. missing \subseteq FactSlots /\ resolved.intent = Intent(c.question)
    BY <1>2, ResolvedFields
  <1>5. /\ DOMAIN d = ChannelNames
        /\ d.question = c.question /\ d.index = c.index /\ d.topic = c.topic
        /\ d.facts = c.facts
        /\ d.reading = c.reading /\ d.missing = missing /\ d.owners = c.owners
        /\ d.decision = c.decision
        /\ d.answers = c.answers /\ d.granted = c.granted /\ d.resumed = c.resumed
        /\ d.next = next
    BY <1>2 DEF Typed, ChannelNames
  <1>6. Typed(d)
    BY <1>2, <1>3, <1>4, <1>5 DEF Typed, Nodes, Parked
  <1>7. Settled(d)
    <2>1. ASSUME Selects(d) PROVE SaidHeld(d)
      <3>1. SaidHeld(c)
        BY <1>1, <1>2, <1>5, <2>1 DEF Settled, Selects
      <3> QED
        BY <1>5, <3>1 DEF SaidHeld
    <2>2. next \in Choosing => Selects(d)
      BY <1>3, <1>4, <1>5 DEF Choosing, Selects
    <2> QED
      BY <1>3, <1>5, <2>1, <2>2 DEF Settled
  <1>8. Approved(d)
    BY <1>2, <1>3, <1>5 DEF Approved, End
  <1>9. InTurn(turn, d)
    <2>1. ~turn.resumes /\ c.question = turn.message
      BY <1>1, <1>2 DEF InTurn, Early
    <2>2. turn.message.introduces => Clean(c.facts, turn.message)
      BY <1>1, <1>2, <2>1 DEF InTurn
    <2> QED
      BY <1>5, <2>1, <2>2 DEF InTurn
  <1>10. Stands(c.facts, d.facts, turn.message) /\ Keeps(c.facts, d.facts)
    BY <1>5, Untold
  <1> QED
    BY <1>1, <1>6, <1>7, <1>8, <1>9, <1>10 DEF NodeStep, Fit

LEMMA AskBackStep ==
  ASSUME GraphInv, Running, AskBack PROVE NodeStep
  <1> DEFINE c == Here
             m == turn.message
             heard == [s \in DOMAIN m.says |-> Fact(m.says[s], Stated, c.index)]
             facts == MergeFacts(c.facts, heard)
             d == [c EXCEPT !.facts = facts, !.missing = c.missing \ DOMAIN heard,
                            !.resumed = TRUE, !.next = "retrieve_candidates"]
  <1>1. c.next = "ask_back" /\ turn.resumes /\ Writes(d)
    BY DEF AskBack, At, Here
  <1>2. /\ Typed(c) /\ Settled(c) /\ Approved(c) /\ InTurn(turn, c)
        /\ m \in Messages /\ c.index \in Nat
    BY Found
  <1>3. /\ DOMAIN d = ChannelNames
        /\ d.question = c.question /\ d.index = c.index /\ d.topic = c.topic
        /\ d.facts = facts
        /\ d.reading = c.reading /\ d.missing \subseteq c.missing /\ d.owners = c.owners
        /\ d.decision = c.decision
        /\ d.answers = c.answers /\ d.granted = c.granted /\ d.resumed = TRUE
        /\ d.next = "retrieve_candidates"
    BY <1>2 DEF Typed, ChannelNames
  <1>4. DOMAIN m.says \subseteq BuildingSlots /\ \A s \in DOMAIN m.says : m.says[s] \in FactValues
    BY <1>2, MessageFields
  <1>5. NewFacts(heard) /\ \A s \in DOMAIN m.says : /\ heard[s].provenance = Stated
                                                    /\ heard[s].value = m.says[s]
                                                    /\ heard[s].status = Active
    BY <1>2, <1>4, BuildingSlot, SuppliedFacts
  <1>6. GoodFacts(c.facts)
    BY <1>2 DEF Typed
  <1>7. GoodFacts(facts) /\ Keeps(c.facts, facts)
    BY <1>5, <1>6, MergeGood
  <1>8. \A s \in DOMAIN heard : /\ s \in DOMAIN facts /\ facts[s].current = heard[s]
                                /\ FromPerson(heard[s])
    BY <1>5, <1>6, MergeStated
  <1>9. /\ DOMAIN heard = DOMAIN m.says
        /\ DOMAIN facts = DOMAIN c.facts \cup DOMAIN m.says
        /\ \A s \in DOMAIN c.facts \ DOMAIN m.says : facts[s] = c.facts[s]
    BY DEF MergeFacts
  <1> HIDE DEF heard, facts
  <1>10. \A s \in DOMAIN m.says : /\ s \in DOMAIN facts
                                  /\ FromPerson(facts[s].current)
                                  /\ facts[s].current.value = m.says[s]
                                  /\ facts[s].current.status = Active
    BY <1>5, <1>8, <1>9
  <1>11. Typed(d)
    BY <1>2, <1>3, <1>7 DEF Typed, Nodes, Parked
  <1>12. Settled(d)
    <2>1. Selects(c) /\ SaidHeld(c)
      BY <1>1, <1>2 DEF Settled, Choosing
    <2>2. ASSUME NEW s \in DOMAIN Restated(c.question) \ Transient(c.question)
          PROVE  /\ s \in DOMAIN facts
                 /\ FromPerson(facts[s].current)
                 /\ facts[s].current.status # Superseded
      <3>1. CASE s \in DOMAIN m.says
        BY <1>10, <3>1 DEF Active, Superseded
      <3>2. CASE s \notin DOMAIN m.says
        BY <1>9, <2>1, <3>2 DEF SaidHeld
      <3> QED
        BY <3>1, <3>2
    <2>3. SaidHeld(d) /\ Selects(d)
      BY <1>3, <2>1, <2>2 DEF SaidHeld, Selects
    <2> QED
      BY <1>3, <2>3 DEF Settled
  <1>13. Approved(d)
    BY <1>2, <1>3 DEF Approved, End
  <1>14. InTurn(turn, d)
    <2>1. Heard(facts, m)
      BY <1>10 DEF Heard
    <2> QED
      BY <1>1, <1>3, <2>1 DEF InTurn, Early
  <1>15. Stands(c.facts, facts, m)
    <2>1. ASSUME NEW s \in DOMAIN c.facts, FromPerson(c.facts[s].current)
          PROVE  /\ s \in DOMAIN facts
                 /\ FromPerson(facts[s].current)
                 /\ \/ facts[s].current.value = c.facts[s].current.value
                    \/ s \in DOMAIN m.says /\ facts[s].current.value = m.says[s]
      <3>1. CASE s \in DOMAIN m.says
        BY <1>10, <3>1
      <3>2. CASE s \notin DOMAIN m.says
        BY <1>9, <2>1, <3>2
      <3> QED
        BY <3>1, <3>2
    <2> QED
      BY <2>1 DEF Stands
  <1> QED
    BY <1>1, <1>3, <1>7, <1>11, <1>12, <1>13, <1>14, <1>15 DEF NodeStep, Fit

LEMMA RetrieveCandidatesStep ==
  ASSUME GraphInv, Running, RetrieveCandidates PROVE NodeStep
  <1> DEFINE c == Here
  <1>1. c.next = "retrieve_candidates"
    BY DEF RetrieveCandidates, At, Here
  <1>2. PICK owners \in SUBSET Products :
          Writes([c EXCEPT !.resolved = Resolved(c), !.owners = owners, !.next = "assess_evidence"])
    BY DEF RetrieveCandidates
  <1> DEFINE d == [c EXCEPT !.resolved = Resolved(c), !.owners = owners, !.next = "assess_evidence"]
  <1>3. Typed(c) /\ Settled(c) /\ Approved(c) /\ InTurn(turn, c)
    BY Found
  <1>4. /\ DOMAIN d = ChannelNames
        /\ d.question = c.question /\ d.index = c.index /\ d.topic = c.topic
        /\ d.facts = c.facts /\ d.resolved = Resolved(c)
        /\ d.reading = c.reading /\ d.missing = c.missing /\ d.owners = owners
        /\ d.decision = c.decision
        /\ d.answers = c.answers /\ d.granted = c.granted /\ d.resumed = c.resumed
        /\ d.next = "assess_evidence"
    BY <1>3 DEF Typed, ChannelNames
  <1>5. Typed(d)
    BY <1>3, <1>4 DEF Typed, Nodes, Parked
  <1>6. Settled(d)
    <2>1. Selects(c) /\ SaidHeld(c)
      BY <1>1, <1>3 DEF Settled, Choosing
    <2>2. Selects(d) /\ SaidHeld(d)
      BY <1>4, <2>1 DEF Selects, SaidHeld
    <2>3. Resolved(d) = Resolved(c)
      BY <1>4, SameRequest
    <2> QED
      BY <1>4, <2>2, <2>3 DEF Settled
  <1>7. Approved(d)
    BY <1>3, <1>4 DEF Approved, End
  <1>8. InTurn(turn, d)
    BY <1>1, <1>3, <1>4 DEF InTurn, Early
  <1>9. Stands(c.facts, d.facts, turn.message) /\ Keeps(c.facts, d.facts)
    BY <1>4, Untold
  <1> QED
    BY <1>2, <1>5, <1>6, <1>7, <1>8, <1>9 DEF NodeStep, Fit

\* Nothing is missing where a product is approved.
LEMMA DecideOutcome ==
  ASSUME NEW resolved, NEW names, NEW corpus, NEW read
  PROVE  LET d == Decide(resolved, names, corpus, Audiences, read)
         IN  /\ d.missing = MissingFacts(resolved)
             /\ d.outcome = "need_more_information" <=> MissingFacts(resolved) # {}
  BY DEF Decide

LEMMA AssessEvidenceStep ==
  ASSUME GraphInv, Running, AssessEvidence PROVE NodeStep
  <1> DEFINE c == Here
             decided(names, corpus, read) == Decide(c.resolved, names, corpus, Audiences, read)
             next(v) == CASE v.outcome = "need_more_information" -> "need_more_information"
                          [] v.outcome = "no_supported_recommendation" ->
                               "no_supported_recommendation"
                          [] OTHER -> "recommend"
             e(v) == [c EXCEPT !.decision = v, !.granted = v.approved, !.next = next(v)]
  <1>1. c.next = "assess_evidence"
    BY DEF AssessEvidence, At, Here
  <1>2. PICK corpus \in Corpora, read \in BOOLEAN, names \in Discoveries(c.resolved, c.owners) :
          Writes(e(decided(names, corpus, read)))
    BY DEF AssessEvidence
  <1> DEFINE v == decided(names, corpus, read)
             d == e(v)
  <1>3. Typed(c) /\ Settled(c) /\ Approved(c) /\ InTurn(turn, c)
    BY Found
  <1>4. /\ v.missing = MissingFacts(c.resolved)
        /\ v.outcome = "need_more_information" <=> MissingFacts(c.resolved) # {}
    BY DecideOutcome
  <1>5. Writes(d)
    BY <1>2
  <1>6. \/ next(v) = "need_more_information"
        \/ next(v) = "no_supported_recommendation"
        \/ next(v) = "recommend" /\ v.outcome # "need_more_information"
    <2>1. CASE v.outcome = "need_more_information"
      BY <2>1
    <2>2. CASE v.outcome = "no_supported_recommendation"
      BY <2>2
    <2>3. CASE v.outcome \notin {"need_more_information", "no_supported_recommendation"}
      BY <2>3
    <2> QED
      BY <2>1, <2>2, <2>3
  <1> HIDE DEF next, v
  <1>7. /\ DOMAIN d = ChannelNames
        /\ d.question = c.question /\ d.index = c.index /\ d.topic = c.topic
        /\ d.facts = c.facts /\ d.resolved = c.resolved
        /\ d.reading = c.reading /\ d.missing = c.missing /\ d.owners = c.owners
        /\ d.decision = v
        /\ d.answers = c.answers /\ d.granted = v.approved /\ d.resumed = c.resumed
        /\ d.next = next(v)
    BY <1>3 DEF Typed, ChannelNames
  <1>8. Typed(d)
    BY <1>3, <1>6, <1>7 DEF Typed, Nodes, Parked
  <1>9. Settled(d)
    <2>1. Selects(c) /\ SaidHeld(c) /\ c.resolved = Resolved(c)
      BY <1>1, <1>3 DEF Settled, Choosing
    <2>2. Selects(d) /\ SaidHeld(d)
      BY <1>7, <2>1 DEF Selects, SaidHeld
    <2>3. Resolved(d) = Resolved(c)
      BY <1>7, SameRequest
    <2>4. next(v) = "recommend" => MissingFacts(c.resolved) = {}
      BY <1>4, <1>6
    <2> QED
      BY <1>4, <1>7, <2>1, <2>2, <2>3, <2>4 DEF Settled
  <1>10. Approved(d)
    BY <1>6, <1>7 DEF Approved, End
  <1>11. InTurn(turn, d)
    BY <1>1, <1>3, <1>6, <1>7 DEF InTurn, Early
  <1>12. Stands(c.facts, d.facts, turn.message) /\ Keeps(c.facts, d.facts)
    BY <1>7, Untold
  <1> QED
    BY <1>5, <1>8, <1>9, <1>10, <1>11, <1>12 DEF NodeStep, Fit

\* An answer is put together, to be verified.
LEMMA Answered ==
  ASSUME GraphInv, Running, Here.next \in Parked \cup {"need_more_information", "no_supported_recommendation"},
         Here.next # "ask_back",
         NEW answers \in Seq(Reply), answers # <<>>,
         Writes([Here EXCEPT !.answers = answers, !.next = "verify"])
  PROVE  NodeStep
  <1> DEFINE c == Here
             d == [c EXCEPT !.answers = answers, !.next = "verify"]
  <1>1. Typed(c) /\ Approved(c) /\ InTurn(turn, c)
    BY Found
  <1>2. /\ DOMAIN d = ChannelNames
        /\ d.question = c.question /\ d.index = c.index /\ d.topic = c.topic
        /\ d.facts = c.facts /\ d.resolved = c.resolved
        /\ d.reading = c.reading /\ d.missing = c.missing /\ d.owners = c.owners
        /\ d.decision = c.decision
        /\ d.answers = answers /\ d.granted = c.granted /\ d.resumed = c.resumed
        /\ d.next = "verify"
    BY <1>1 DEF Typed, ChannelNames
  <1>3. Typed(d)
    BY <1>1, <1>2 DEF Typed, Nodes
  <1>4. Settled(d)
    BY <1>2 DEF Settled, Choosing
  <1>5. Approved(d)
    BY <1>1, <1>2 DEF Approved, End
  <1>6. c.next \notin Early
    BY DEF Parked, Early, End
  <1>7. InTurn(turn, d)
    BY <1>1, <1>2, <1>6 DEF InTurn, Early
  <1>8. Stands(c.facts, d.facts, turn.message) /\ Keeps(c.facts, d.facts)
    BY <1>2, Untold
  <1> QED
    BY <1>3, <1>4, <1>5, <1>7, <1>8 DEF NodeStep, Fit

LEMMA DelegateStep ==
  ASSUME GraphInv, Running, Delegate PROVE NodeStep
  <1>1. Here.next = "delegate"
    BY DEF Delegate, At, Here
  <1> DEFINE parts == 1 .. Here.question.parts
  <1>2. PICK path \in [parts -> {"compose", "refuse", "other"}],
             advises \in [parts -> SUBSET Products] :
          /\ \A i \in DOMAIN path : path[i] # "compose" => advises[i] = {}
          /\ Writes([Here EXCEPT
               !.answers = [i \in DOMAIN path |-> Answer(path[i], advises[i], advises[i])],
               !.next = "verify"])
    BY DEF Delegate
  <1> DEFINE answers == [i \in DOMAIN path |-> Answer(path[i], advises[i], advises[i])]
  <1>3. Here.question.parts \in 1 .. 2
    BY Found, MessageFields
  <1>4. ASSUME NEW i \in parts PROVE Answer(path[i], advises[i], advises[i]) \in Reply
    <2>1. path[i] \in Paths /\ advises[i] \in SUBSET Products /\ (path[i] = "refuse" => advises[i] = {})
      BY <1>2 DEF Paths
    <2> QED
      BY <2>1 DEF Answer, Reply
  <1>5. answers \in [parts -> Reply]
    BY <1>2, <1>4
  <1>6. answers \in Seq(Reply)
    BY <1>3, <1>5, SeqDef
  <1>7. answers # <<>>
    <2>1. DOMAIN answers = parts /\ 1 \in parts
      BY <1>3, <1>5
    <2>2. DOMAIN <<>> = {}
      OBVIOUS
    <2> QED
      BY <2>1, <2>2
  <1> QED
    BY <1>1, <1>2, <1>6, <1>7, Answered DEF Parked

LEMMA RecommendStep ==
  ASSUME GraphInv, Running, Recommend PROVE NodeStep
  <1>1. Here.next = "recommend"
    BY DEF Recommend, At, Here
  <1>2. PICK names \in SUBSET Products, advises \in SUBSET Products :
          Writes([Here EXCEPT !.answers = <<Answer("select", advises, names)>>, !.next = "verify"])
    BY DEF Recommend
  <1>3. Answer("select", advises, names) \in Reply
    BY DEF Answer, Reply, Paths
  <1>4. <<Answer("select", advises, names)>> \in Seq(Reply)
    BY <1>3
  <1> QED
    BY <1>1, <1>2, <1>4, Answered DEF Parked

LEMMA NeedMoreInformationStep ==
  ASSUME GraphInv, Running, NeedMoreInformation PROVE NodeStep
  <1>1. /\ Here.next = "need_more_information"
        /\ Writes([Here EXCEPT !.answers = <<Plain("ask_back")>>, !.next = "verify"])
    BY DEF NeedMoreInformation, At, Here
  <1>2. Plain("ask_back") \in Reply
    BY DEF Plain, Answer, Reply, Paths
  <1>3. <<Plain("ask_back")>> \in Seq(Reply)
    BY <1>2
  <1> QED
    BY <1>1, <1>3, Answered

LEMMA NoSupportedRecommendationStep ==
  ASSUME GraphInv, Running, NoSupportedRecommendation PROVE NodeStep
  <1>1. /\ Here.next = "no_supported_recommendation"
        /\ Writes([Here EXCEPT !.answers = <<Plain("refuse")>>, !.next = "verify"])
    BY DEF NoSupportedRecommendation, At, Here
  <1>2. Plain("refuse") \in Reply
    BY DEF Plain, Answer, Reply, Paths
  <1>3. <<Plain("refuse")>> \in Seq(Reply)
    BY <1>2
  <1> QED
    BY <1>1, <1>3, Answered

LEMMA VerifyStep ==
  ASSUME GraphInv, Running, Verify PROVE NodeStep
  <1> DEFINE c == Here
             answer == Head(c.answers)
             fails == /\ answer.path # "refuse"
                      /\ \/ Unapproved(answer.advises, c.decision, AskedAbout(c)) # {}
                         \/ Intruders(answer.names, c.decision) # {}
             answers == IF fails THEN <<Plain("refuse")>> ELSE c.answers
             d == [c EXCEPT !.answers = answers, !.next = End]
  <1>1. c.next = "verify" /\ Writes(d)
    BY DEF Verify, At, Here
  <1>2. Typed(c) /\ Approved(c) /\ InTurn(turn, c)
    BY Found
  <1>3. c.answers \in Seq(Reply) /\ c.answers # <<>> /\ answer \in Reply
    <2>1. c.answers \in Seq(Reply) /\ c.answers # <<>>
      BY <1>1, <1>2 DEF Typed, Approved
    <2> QED
      BY <2>1, HeadTailProperties
  <1>4. Plain("refuse") \in Reply /\ Plain("refuse").advises = {}
    BY DEF Plain, Answer, Reply, Paths
  <1>5. <<Plain("refuse")>> \in Seq(Reply) /\ Head(<<Plain("refuse")>>) = Plain("refuse")
    BY <1>4
  <1>6. answers \in Seq(Reply)
    BY <1>3, <1>5
  <1>7. Head(answers).advises \subseteq c.granted \cup AskedAbout(c)
    <2>1. CASE fails
      BY <1>4, <1>5, <2>1
    <2>2. CASE answer.path = "refuse"
      BY <1>3, <2>2 DEF Reply
    <2>3. CASE Unapproved(answer.advises, c.decision, AskedAbout(c)) = {} /\ ~fails
      <3>1. answer.advises \subseteq c.decision.approved \cup AskedAbout(c)
        BY <2>3 DEF Unapproved
      <3>2. c.decision.approved = c.granted
        BY <1>2 DEF Approved
      <3> QED
        BY <2>3, <3>1, <3>2
    <2> QED
      BY <2>1, <2>2, <2>3
  <1> HIDE DEF answers
  <1>8. /\ DOMAIN d = ChannelNames
        /\ d.question = c.question /\ d.index = c.index /\ d.topic = c.topic
        /\ d.facts = c.facts /\ d.resolved = c.resolved
        /\ d.reading = c.reading /\ d.missing = c.missing /\ d.owners = c.owners
        /\ d.decision = c.decision
        /\ d.answers = answers /\ d.granted = c.granted /\ d.resumed = c.resumed
        /\ d.next = End
    BY <1>2 DEF Typed, ChannelNames
  <1>9. Typed(d)
    BY <1>2, <1>6, <1>8 DEF Typed, Nodes, Parked
  <1>10. Settled(d)
    BY <1>8 DEF Settled, Choosing, End
  <1>11. Approved(d)
    <2>1. AskedAbout(d) = AskedAbout(c)
      BY <1>8 DEF AskedAbout
    <2> QED
      BY <1>2, <1>7, <1>8, <2>1 DEF Approved, End
  <1>12. InTurn(turn, d)
    BY <1>1, <1>2, <1>8 DEF InTurn, Early, End
  <1>13. Stands(c.facts, d.facts, turn.message) /\ Keeps(c.facts, d.facts)
    BY <1>8, Untold
  <1> QED
    BY <1>1, <1>9, <1>10, <1>11, <1>12, <1>13 DEF NodeStep, Fit

----------------------------------------------------------------------------
(* Entering and leaving a turn.                                            *)

LEMMA BlankFields ==
  ASSUME NEW facts, GoodFacts(facts)
  PROVE  /\ Typed(Blank(facts))
         /\ Blank(facts).facts = facts
         /\ Blank(facts).decision.approved = Blank(facts).granted
  <1> DEFINE b == Blank(facts)
  <1>1. AnyMessage \in Messages
    BY GraphConstants DEF AnyMessage
  <1>2. /\ DOMAIN b = ChannelNames
        /\ b.question = AnyMessage /\ b.index = 0 /\ b.facts = facts /\ b.topic = NoProduct
        /\ b.reading = Deterministic /\ b.missing = {} /\ b.owners = {}
        /\ b.decision = Undecided /\ b.answers = <<>> /\ b.resumed = FALSE
        /\ b.granted = {} /\ b.next = End
    BY DEF Blank, ChannelNames
  <1>3. Deterministic.objective = NoObjective /\ Undecided.approved = {}
    BY DEF Deterministic, Undecided
  <1>4. 0 \in 0 .. MaxIndex
    BY GraphConstants
  <1> QED
    BY <1>1, <1>2, <1>3, <1>4, EmptySeq DEF Typed, Nodes, Parked

\* The topic is added to what is known, and changes nothing.
LEMMA ConversationFactsGood ==
  ASSUME NEW c, Typed(c)
  PROVE  /\ GoodFacts(ConversationFacts(c))
         /\ \A s \in DOMAIN c.facts : /\ s \in DOMAIN ConversationFacts(c)
                                      /\ ConversationFacts(c)[s] = c.facts[s]
  <1>1. CASE c.topic # NoProduct /\ "product" \notin DOMAIN c.facts
    <2> DEFINE f == Fact(c.topic, Assumed, c.index)
               facts == ConversationFacts(c)
    <2>1. f \in SessionFact
      <3>1. c.topic \in FactValues /\ c.index \in Nat
        BY <1>1, UnderstandingConstants, GraphConstants DEF Typed
      <3> QED
        BY <3>1, FactTyped DEF Provenances
    <2>2. /\ DOMAIN facts = DOMAIN c.facts \cup {"product"}
          /\ \A s \in DOMAIN c.facts : facts[s] = c.facts[s]
          /\ facts["product"] = Begun(f)
      BY <1>1 DEF ConversationFacts, MergeFacts
    <2>3. Begun(f) \in FactHistory
      BY <2>1, EmptySeq DEF Begun, FactHistory
    <2>4. DOMAIN c.facts \subseteq FactSlots /\ \A s \in DOMAIN c.facts : c.facts[s] \in FactHistory
      BY DEF Typed, GoodFacts
    <2> QED
      BY <2>2, <2>3, <2>4, ConversationConstants DEF GoodFacts
  <1>2. CASE ~(c.topic # NoProduct /\ "product" \notin DOMAIN c.facts)
    BY <1>2 DEF ConversationFacts, Typed
  <1> QED
    BY <1>1, <1>2

LEMMA BeforeGood ==
  ASSUME GraphInv, NEW t \in Threads
  PROVE  /\ Typed(Before(t))
         /\ Before(t).decision.approved = Before(t).granted
         /\ t \in DOMAIN threads => /\ Stands(threads[t].facts, Before(t).facts, turn.message)
                                    /\ Keeps(threads[t].facts, Before(t).facts)
  <1>1. CASE t \in DOMAIN threads /\ threads[t].next # End
    <2> DEFINE c == threads[t]
               known == ConversationFacts(c)
    <2>1. Before(t) = Blank(Inherit(known))
      BY <1>1 DEF Before, Paused
    <2>2. Typed(c)
      BY <1>1 DEF GraphInv, Fit
    <2>3. /\ GoodFacts(known)
          /\ \A s \in DOMAIN c.facts : s \in DOMAIN known /\ known[s] = c.facts[s]
      BY <2>2, ConversationFactsGood
    <2>4. /\ GoodFacts(Inherit(known)) /\ Keeps(known, Inherit(known))
          /\ DOMAIN Inherit(known) = DOMAIN known
          /\ \A s \in DOMAIN known :
               /\ Inherit(known)[s].current.value = known[s].current.value
               /\ FromPerson(Inherit(known)[s].current) <=> FromPerson(known[s].current)
      BY <2>3, InheritGood
    <2>5. Before(t).facts = Inherit(known)
      BY <2>1, <2>4, BlankFields
    <2>6. Stands(c.facts, Inherit(known), turn.message)
      BY <2>3, <2>4 DEF Stands
    <2>7. Keeps(c.facts, Inherit(known))
      BY <2>3, <2>4 DEF Keeps
    <2> QED
      BY <2>1, <2>4, <2>5, <2>6, <2>7, BlankFields
  <1>2. CASE t \in DOMAIN threads /\ threads[t].next = End
    <2>1. Before(t) = threads[t]
      BY <1>2 DEF Before, Paused
    <2> QED
      BY <1>2, <2>1, Untold DEF GraphInv, Fit, Approved
  <1>3. CASE t \notin DOMAIN threads
    <2>1. Before(t) = Blank(Nothing)
      BY <1>3 DEF Before, Paused
    <2> QED
      BY <1>3, <2>1, NoFacts, BlankFields
  <1> QED
    BY <1>1, <1>2, <1>3

LEMMA IndexOfTyped ==
  ASSUME GraphInv, NEW t \in Threads PROVE IndexOf(t) \in 0 .. MaxIndex
  <1>1. asked[t] \in 0 .. MaxIndex /\ MaxIndex \in Nat
    BY GraphConstants DEF GraphInv
  <1> QED
    BY <1>1 DEF IndexOf

LEMMA EnterTurnStep ==
  ASSUME GraphInv, NEW t \in Threads, NEW m \in Messages, EnterTurn(t, m)
  PROVE  GraphInv' /\ Steady
  <1> DEFINE resumes == Paused(t) /\ ~MovesOn(m)
             begun == [Before(t) EXCEPT !.question = m, !.index = IndexOf(t),
                                        !.next = "understand_turn"]
             entered == IF resumes THEN threads[t] ELSE begun
             stood == IF t \in DOMAIN threads THEN threads[t].next ELSE End
  <1>1. /\ ~Running
        /\ turn' = [thread |-> t, message |-> m, resumes |-> resumes, stood |-> stood]
        /\ threads' = [u \in DOMAIN threads \cup {t} |-> IF u = t THEN entered ELSE threads[u]]
        /\ asked' = asked
    BY DEF EnterTurn
  <1>2. /\ DOMAIN turn' = {"thread", "message", "resumes", "stood"}
        /\ turn'.thread = t /\ turn'.message = m /\ turn'.stood = stood
        /\ turn'.resumes \in BOOLEAN /\ (turn'.resumes <=> resumes)
    BY <1>1
  <1>3. /\ DOMAIN threads' = DOMAIN threads \cup {t}
        /\ threads'[t] = entered
        /\ \A u \in DOMAIN threads \ {t} : threads'[u] = threads[u]
    BY <1>1
  <1>4. Running' /\ Here' = entered
    BY <1>2, <1>3, GraphConstants DEF Running, Here
  <1>5. \A u \in DOMAIN threads : u \in Threads /\ Fit(threads[u]) /\ threads[u].next \in Parked
    BY <1>1 DEF GraphInv
  <1>6. Fit(entered) /\ InTurn(turn', entered)
    <2>1. CASE resumes
      <3>1. /\ entered = threads[t] /\ t \in DOMAIN threads /\ stood = threads[t].next
            /\ threads[t].next # End
        BY <2>1 DEF Paused
      <3>2. Fit(threads[t]) /\ threads[t].next \notin Early
        BY <1>5, <3>1 DEF Parked, Early, End
      <3> QED
        BY <1>2, <2>1, <3>1, <3>2 DEF InTurn
    <2>2. CASE ~resumes
      <3>1. entered = begun
        BY <2>2
      <3>2. Typed(Before(t)) /\ Before(t).decision.approved = Before(t).granted
        BY BeforeGood
      <3>3. /\ DOMAIN begun = ChannelNames
            /\ begun.question = m /\ begun.index = IndexOf(t) /\ begun.topic = Before(t).topic
            /\ begun.facts = Before(t).facts
            /\ begun.reading = Before(t).reading /\ begun.missing = Before(t).missing
            /\ begun.owners = Before(t).owners
            /\ begun.decision = Before(t).decision
            /\ begun.answers = Before(t).answers /\ begun.granted = Before(t).granted
            /\ begun.resumed = Before(t).resumed
            /\ begun.next = "understand_turn"
        BY <3>2 DEF Typed, ChannelNames
      <3>4. Typed(begun)
        BY <3>2, <3>3, IndexOfTyped DEF Typed, Nodes, Early
      <3>5. Settled(begun)
        BY <3>3 DEF Settled, Choosing
      <3>6. Approved(begun)
        BY <3>2, <3>3 DEF Approved, End
      <3>7. InTurn(turn', begun)
        BY <1>2, <2>2, <3>3 DEF InTurn
      <3> QED
        BY <3>1, <3>4, <3>5, <3>6, <3>7 DEF Fit
    <2> QED
      BY <2>1, <2>2
  <1>7. ASSUME NEW u \in DOMAIN threads'
        PROVE  /\ u \in Threads
               /\ Fit(threads'[u])
               /\ (Running' /\ u = turn'.thread) \/ threads'[u].next \in Parked
    <2>1. CASE u = t
      BY <1>2, <1>3, <1>4, <1>6, <2>1
    <2>2. CASE u # t
      BY <1>3, <1>5, <2>2
    <2> QED
      BY <2>1, <2>2
  <1>8. TurnOK'
    BY <1>2, <1>3, <1>4, <1>6 DEF TurnOK
  <1>9. GraphInv'
    BY <1>1, <1>7, <1>8 DEF GraphInv
  <1>10. ASSUME NEW u \in DOMAIN threads, u \in DOMAIN threads'
         PROVE  /\ Stands(threads[u].facts, threads'[u].facts, turn.message)
                /\ Keeps(threads[u].facts, threads'[u].facts)
    <2>1. CASE u = t /\ resumes
      BY <1>3, <2>1, Untold
    <2>2. CASE u = t /\ ~resumes
      <3>1. Typed(Before(t))
        BY BeforeGood
      <3>2. threads'[u].facts = Before(t).facts
        <4>1. begun.facts = Before(t).facts
          BY <3>1 DEF Typed, ChannelNames
        <4> QED
          BY <1>3, <2>2, <4>1
      <3> QED
        BY <2>2, <3>2, BeforeGood
    <2>3. CASE u # t
      BY <1>3, <2>3, Untold
    <2> QED
      BY <2>1, <2>2, <2>3
  <1> QED
    BY <1>9, <1>10 DEF Steady

LEMMA NoTurnFields ==
  /\ DOMAIN NoTurn = {"thread", "message", "resumes", "stood"}
  /\ NoTurn.thread = Nobody /\ NoTurn.message \in Messages /\ NoTurn.resumes = FALSE
  BY GraphConstants DEF NoTurn, AnyMessage

\* A turn is left where a turn may stop.
LEMMA LeaveStep ==
  ASSUME GraphInv, Running, Leave, Here.next \in Parked,
         asked' \in [Threads -> 0 .. MaxIndex]
  PROVE  GraphInv' /\ Steady
  <1>1. turn' = NoTurn /\ threads' = threads
    BY DEF Leave
  <1>2. ~Running'
    BY <1>1, NoTurnFields DEF Running
  <1>3. TurnOK'
    BY <1>1, <1>2, NoTurnFields DEF TurnOK
  <1>4. \A t \in DOMAIN threads : t \in Threads /\ Fit(threads[t]) /\ threads[t].next \in Parked
    BY DEF GraphInv, Here
  <1>5. GraphInv'
    BY <1>1, <1>3, <1>4 DEF GraphInv
  <1>6. Steady
    BY <1>1, Untold DEF Steady
  <1> QED
    BY <1>5, <1>6

LEMMA RememberedTyped ==
  ASSUME GraphInv, NEW t \in Threads, Remembered(t) PROVE asked' \in [Threads -> 0 .. MaxIndex]
  <1>1. asked \in [Threads -> 0 .. MaxIndex] /\ MaxIndex \in Nat
    BY GraphConstants DEF GraphInv
  <1> QED
    BY <1>1 DEF Remembered

LEMMA LeavesStep ==
  ASSUME GraphInv, Running, Finish \/ Pause \/ Fail
  PROVE  GraphInv' /\ Steady
  <1>1. turn.thread \in Threads
    BY DEF GraphInv, TurnOK, Running
  <1>2. CASE Finish
    <2>1. Here.next = End /\ Leave /\ Remembered(turn.thread)
      BY <1>2 DEF Finish, At, Here
    <2> QED
      BY <1>1, <2>1, RememberedTyped, LeaveStep DEF Parked
  <1>3. CASE Pause
    <2>1. Here.next = "ask_back" /\ Leave /\ Remembered(turn.thread)
      BY <1>3 DEF Pause, At, Here
    <2> QED
      BY <1>1, <2>1, RememberedTyped, LeaveStep DEF Parked
  <1>4. CASE Fail
    <2>1. /\ Here.next \in {"retrieve_candidates", "assess_evidence", "delegate", "recommend",
                            "answer_state"}
          /\ Leave /\ asked' = asked
      BY <1>4 DEF Fail, Raises
    <2>2. asked' \in [Threads -> 0 .. MaxIndex]
      BY <2>1 DEF GraphInv
    <2> QED
      BY <2>1, <2>2, LeaveStep DEF Parked
  <1> QED
    BY <1>2, <1>3, <1>4

LEMMA ForgetThreadsStep ==
  ASSUME GraphInv, ForgetThreads PROVE GraphInv' /\ Steady
  <1>1. DOMAIN threads' = {} /\ turn' = NoTurn /\ asked' = asked
    BY DEF ForgetThreads
  <1>2. TurnOK'
    BY <1>1, NoTurnFields DEF TurnOK, Running
  <1> QED
    BY <1>1, <1>2 DEF GraphInv, Steady

LEMMA NodeIsStep ==
  ASSUME GraphInv, Node PROVE GraphInv' /\ Steady
  <1>1. Running
    BY DEF Node, UnderstandTurn, CaseBoundary, ResolveState, AnswerState, AnalyseImages,
           DetermineMissing, AskBack, RetrieveCandidates, AssessEvidence, Delegate, Recommend,
           NeedMoreInformation, NoSupportedRecommendation, Verify, Finish, Pause, At
  <1>2. CASE Finish \/ Pause
    BY <1>1, <1>2, LeavesStep
  <1>3. CASE ~(Finish \/ Pause)
    <2>1. NodeStep
      BY <1>1, <1>3, UnderstandTurnStep, CaseBoundaryStep, ResolveStateStep, AnswerStateStep,
         AnalyseImagesStep, DetermineMissingStep, AskBackStep, RetrieveCandidatesStep,
         AssessEvidenceStep, DelegateStep, RecommendStep, NeedMoreInformationStep,
         NoSupportedRecommendationStep, VerifyStep
      DEF Node
    <2> QED
      BY <1>1, <2>1, NodeStepGood
  <1> QED
    BY <1>2, <1>3

LEMMA InitInv == GraphInit => GraphInv
  <1> SUFFICES ASSUME GraphInit PROVE GraphInv
    OBVIOUS
  <1>1. DOMAIN threads = {} /\ turn = NoTurn /\ asked = [t \in Threads |-> 0]
    BY DEF GraphInit
  <1>2. TurnOK
    BY <1>1, NoTurnFields DEF TurnOK, Running
  <1>3. asked \in [Threads -> 0 .. MaxIndex]
    BY <1>1, GraphConstants
  <1> QED
    BY <1>1, <1>2, <1>3 DEF GraphInv

LEMMA NextInv == GraphInv /\ [GraphNext]_graphVars => GraphInv' /\ Steady
  <1> SUFFICES ASSUME GraphInv, [GraphNext]_graphVars PROVE GraphInv' /\ Steady
    OBVIOUS
  <1>1. CASE \E t \in Threads, m \in Messages : EnterTurn(t, m)
    BY <1>1, EnterTurnStep
  <1>2. CASE Node
    BY <1>2, NodeIsStep
  <1>3. CASE Fail
    BY <1>3, LeavesStep DEF Fail
  <1>4. CASE ForgetThreads
    BY <1>4, ForgetThreadsStep
  <1>5. CASE UNCHANGED graphVars
    <2>1. threads' = threads /\ turn' = turn /\ asked' = asked
      BY <1>5 DEF graphVars
    <2>2. Running' <=> Running
      BY <2>1 DEF Running
    <2>3. TurnOK'
      BY <2>1, <2>2 DEF GraphInv, TurnOK, Here
    <2>4. GraphInv'
      BY <2>1, <2>2, <2>3 DEF GraphInv
    <2>5. Steady
      BY <2>1, Untold DEF Steady
    <2> QED
      BY <2>4, <2>5
  <1> QED
    BY <1>1, <1>2, <1>3, <1>4, <1>5 DEF GraphNext

----------------------------------------------------------------------------
(* What follows.                                                           *)

\* The inductive invariant of the turn graph: what each node may rely on.
THEOREM Conversing == GraphSpec => []GraphInv
  BY InitInv, NextInv, PTL DEF GraphSpec

\* The channels keep their types, and a turn in progress has a thread.
THEOREM ConversationTypes == GraphSpec => []GraphTypeOK
  <1>1. GraphInv => GraphTypeOK
    BY DEF GraphInv, GraphTypeOK, Fit, Typed, GoodFacts, TurnOK
  <1> QED
    BY <1>1, Conversing, PTL

\* A product is chosen only on facts the conversation holds (recommend).
THEOREM AdviceRests == GraphSpec => []AdviceRestsOnTheConversation
  <1>1. GraphInv => AdviceRestsOnTheConversation
    <2> SUFFICES ASSUME GraphInv, At("recommend") PROVE AdviceRestsOnTheConversation
      BY DEF AdviceRestsOnTheConversation
    <2> DEFINE c == Here
               m == c.question
               resolved == c.resolved
    <2>1. Running /\ c.next = "recommend"
      BY DEF At, Here
    <2>2. Typed(c) /\ Settled(c)
      BY <2>1, Found
    <2>3. Selects(c) /\ SaidHeld(c) /\ resolved = Resolved(c) /\ MissingFacts(resolved) = {}
      BY <2>1, <2>2 DEF Settled, Choosing
    <2>4. /\ resolved.slots = ResolvedSlots(m, c.facts)
          /\ resolved.unsettled = UnsettledSlots(c.facts)
      BY <2>2, <2>3, ResolvedFields
    <2>5. /\ UnsettledSlots(c.facts) = {}
          /\ Needed(resolved.objective, resolved.slots) \subseteq DOMAIN resolved.slots
      BY <2>3, <2>4 DEF MissingFacts
    <2>6. /\ DOMAIN resolved.slots = DOMAIN Restated(m) \cup InheritedSlots(m, c.facts)
          /\ \A s \in DOMAIN Restated(m) : s \in DOMAIN m.says /\ resolved.slots[s] = m.says[s]
          /\ \A s \in InheritedSlots(m, c.facts) \ DOMAIN Restated(m) :
               resolved.slots[s] = ActiveFacts(c.facts)[s]
      BY <2>4 DEF ResolvedSlots, Restated
    <2>7. ASSUME NEW s \in Needed(resolved.objective, resolved.slots) \ Transient(m)
          PROVE  /\ s \in DOMAIN ActiveFacts(c.facts)
                 /\ s \in DOMAIN resolved.slots
                 /\ \/ resolved.slots[s] = ActiveFacts(c.facts)[s]
                    \/ c.resumed /\ s \in DOMAIN m.says
      <3>1. s \in DOMAIN resolved.slots
        BY <2>5
      <3>2. CASE s \in DOMAIN Restated(m)
        <4>1. /\ s \in DOMAIN c.facts
              /\ c.facts[s].current.status # Superseded
              /\ c.resumed \/ c.facts[s].current.value = m.says[s]
          BY <2>3, <3>2 DEF SaidHeld
        <4>2. c.facts[s].current.status \in {Active, Superseded, Conflicting}
          BY <2>2, <4>1 DEF Typed, GoodFacts, FactHistory, SessionFact
        <4>3. c.facts[s].current.status # Conflicting
          BY <2>5, <4>1 DEF UnsettledSlots, Unsettled
        <4>4. s \in DOMAIN ActiveFacts(c.facts) /\ ActiveFacts(c.facts)[s] = c.facts[s].current.value
          BY <4>1, <4>2, <4>3 DEF ActiveFacts
        <4> QED
          BY <2>6, <3>1, <3>2, <4>1, <4>4
      <3>3. CASE s \notin DOMAIN Restated(m)
        <4>1. s \in InheritedSlots(m, c.facts)
          BY <2>6, <3>1, <3>3
        <4>2. s \in DOMAIN ActiveFacts(c.facts)
          BY <4>1 DEF InheritedSlots
        <4> QED
          BY <2>6, <3>1, <3>3, <4>1, <4>2
      <3> QED
        BY <3>2, <3>3
    <2> QED
      BY <2>5, <2>7 DEF AdviceRestsOnTheConversation
  <1> QED
    BY <1>1, Conversing, PTL

\* What a reply said is not asked for again, unless the question took it back.
THEOREM RepliesAreKnown == GraphSpec => []NeverReasks
  <1>1. GraphInv => NeverReasks
    <2> SUFFICES ASSUME GraphInv, At("need_more_information"), turn.resumes,
                        turn.stood = "ask_back",
                        NEW s \in Here.decision.missing, s \in DOMAIN turn.message.says
                 PROVE  s \in DOMAIN Here.question.denies
      BY DEF NeverReasks
    <2> DEFINE c == Here
               m == c.question
    <2>1. Running /\ c.next = "need_more_information"
      BY DEF At, Here
    <2>2. Typed(c) /\ Settled(c) /\ InTurn(turn, c) /\ turn.message \in Messages
      BY <2>1, Found
    <2>3. c.resolved = Resolved(c) /\ c.decision.missing = MissingFacts(c.resolved)
      BY <2>1, <2>2 DEF Settled
    <2>4. s \in DOMAIN c.facts /\ c.facts[s].current.status = Active
      BY <2>1, <2>2 DEF InTurn, Heard
    <2>5. s \notin UnsettledSlots(c.facts) /\ s \in DOMAIN ActiveFacts(c.facts)
      BY <2>4 DEF UnsettledSlots, Unsettled, ActiveFacts, Active, Conflicting
    <2>6. s \in BuildingSlots
      BY <2>2, MessageFields
    <2>7. ASSUME s \notin DOMAIN m.denies PROVE FALSE
      <3>1. s \in DOMAIN Restated(m) \cup InheritedSlots(m, c.facts)
        BY <2>5, <2>6, <2>7 DEF Restated, InheritedSlots
      <3>2. s \in DOMAIN c.resolved.slots
        <4>1. c.resolved.slots = ResolvedSlots(m, c.facts)
          BY <2>2, <2>3, ResolvedFields
        <4>2. DOMAIN c.resolved.slots = DOMAIN Restated(m) \cup InheritedSlots(m, c.facts)
          BY <4>1 DEF ResolvedSlots
        <4> QED
          BY <3>1, <4>2
      <3>3. s \notin c.resolved.unsettled
        BY <2>2, <2>3, <2>5, ResolvedFields
      <3> QED
        BY <2>3, <3>2, <3>3 DEF MissingFacts
    <2> QED
      BY <2>7
  <1> QED
    BY <1>1, Conversing, PTL

\* The first answer advises what was approved in this turn or asked about.
THEOREM AdviceApproved == GraphSpec => []ApprovedInThisTurn
  <1>1. GraphInv => ApprovedInThisTurn
    <2> SUFFICES ASSUME GraphInv, At(End), Here.answers # <<>>
                 PROVE  Head(Here.answers).advises \subseteq Here.granted \cup AskedAbout(Here)
      BY DEF ApprovedInThisTurn
    <2>1. Running /\ Here.next = End
      BY DEF At, Here
    <2> QED
      BY <2>1, Found DEF Approved
  <1> QED
    BY <1>1, Conversing, PTL

\* A new wall leaves nothing of the old one behind.
THEOREM CasesOpenClean == GraphSpec => []CaseOpensClean
  <1>1. GraphInv => CaseOpensClean
    <2> SUFFICES ASSUME GraphInv, At(End), turn.message.introduces, ~turn.resumes
                 PROVE  Clean(Here.facts, turn.message)
      BY DEF CaseOpensClean, Clean
    <2>1. Running /\ Here.next = End
      BY DEF At, Here
    <2> QED
      BY <2>1, Found DEF InTurn, End
  <1> QED
    BY <1>1, Conversing, PTL

\* Nobody but the person changes what the person said.
THEOREM TestimonyIsKept == GraphSpec => TestimonyStands
  <1> DEFINE Kept ==
        \A t \in DOMAIN threads \cap DOMAIN threads' : \A s \in DOMAIN threads[t].facts :
          LET old == threads[t].facts[s].current
              now == threads'[t].facts
              message == turn.message
          IN  FromPerson(old) /\ ~OpensCase =>
                /\ s \in DOMAIN now
                /\ FromPerson(now[s].current)
                /\ \/ now[s].current.value = old.value
                   \/ s \in DOMAIN message.says /\ now[s].current.value = message.says[s]
                   \/ s = "product" /\ now[s].current.value = message.uses
  <1>1. Steady => Kept
    BY DEF Steady, Stands
  <1>2. GraphInv /\ [GraphNext]_graphVars => [Kept]_graphVars
    BY <1>1, NextInv
  <1> QED
    BY <1>2, Conversing, PTL DEF GraphSpec, TestimonyStands

\* What a person said stays in the history of the wall.
THEOREM NothingIsForgotten == GraphSpec => NothingForgotten
  <1> DEFINE Kept ==
        \A t \in DOMAIN threads \cap DOMAIN threads' :
          OpensCase \/ Testimony(threads[t].facts) \subseteq Testimony(threads'[t].facts)
  <1>1. Steady => Kept
    BY DEF Steady, Keeps, Testimony
  <1>2. GraphInv /\ [GraphNext]_graphVars => [Kept]_graphVars
    BY <1>1, NextInv
  <1> QED
    BY <1>2, Conversing, PTL DEF GraphSpec, NothingForgotten
=============================================================================
