----------------------------- MODULE TurnGraph -----------------------------
(***************************************************************************)
(* One turn of a conversation through the state graph: turn/graph.py, and  *)
(* Assistant.ask_turn of answering/engine.py, which enters it.             *)
(*                                                                         *)
(* A thread is what the checkpointer holds under one session id: the       *)
(* channels, and `next`, the node that runs next.  Every node's writes are *)
(* checkpointed before the next node starts, so a node that raises leaves  *)
(* the thread standing before it.  A turn is entered under the server's    *)
(* lock (LockedRepository.read_snapshot), so one runs at a time.           *)
(***************************************************************************)
EXTENDS Evidence

CONSTANTS Threads,    \* session ids
          Messages,   \* what people may send
          Corpora,    \* what the release may hold
          Audiences,  \* whom a passage may be for
          MaxIndex    \* MAX_TURNS + 1: turn_index is counted up to it

Nobody == "nobody"

ASSUME GraphConstants ==
  /\ Messages \subseteq Message
  /\ Messages # {}
  /\ MaxIndex \in Nat \ {0}
  /\ Nobody \notin Threads

VARIABLES threads,    \* the checkpointer: a function of the threads it holds
          turn,       \* the turn in progress
          asked       \* asked[t]: the turns t's session remembers

graphVars == <<threads, turn, asked>>

End == "end"
AnyMessage == CHOOSE m \in Messages : TRUE
\* stood: where the thread stood when the turn was entered
NoTurn == [thread |-> Nobody, message |-> AnyMessage, resumes |-> FALSE, stood |-> End]
Running == turn.thread # Nobody

\* The channels no turn has written.  granted is no channel: it keeps what the
\* evidence assessment approved since the turn began, for the properties.
Blank(facts) ==
  [question |-> AnyMessage, index |-> 0, facts |-> facts, observations |-> {},
   topic |-> NoProduct, reading |-> Deterministic, boundary |-> NoAnswer,
   resolved |-> [intent |-> "unknown", objective |-> NoObjective,
                 product |-> NoProduct, slots |-> Nothing, origins |-> Nothing,
                 unsettled |-> {}, suggests |-> {}],
   missing |-> {}, owners |-> {}, decision |-> Undecided,
   answers |-> <<>>, perceived |-> FALSE, resumed |-> FALSE, granted |-> {}, next |-> End]

----------------------------------------------------------------------------
(* Entering a turn.                                                        *)

\* _paused_on: the graph is taken to be waiting whenever a node is still to run
Paused(t) == t \in DOMAIN threads /\ threads[t].next # End

\* the person moved on: a policy question, or no answer to the ask-back
MovesOn(m) == m.policy \/ ~m.short

\* conversation_state: the topic becomes a product nobody claimed
ConversationFacts(c) ==
  IF c.topic # NoProduct /\ "product" \notin DOMAIN c.facts
  THEN MergeFacts(c.facts, [s \in {"product"} |-> Fact(c.topic, Assumed, c.index)])
  ELSE c.facts

IndexOf(t) == IF asked[t] < MaxIndex THEN asked[t] + 1 ELSE MaxIndex

(* Mutant: an abandoned thread takes what it was told with it.              *)
Before_Forgets(t) ==
  IF t \in DOMAIN threads /\ ~Paused(t) THEN threads[t] ELSE Blank(Nothing)

\* what the thread holds when a turn that resumes nothing begins
Before(t) ==
  IF Paused(t) THEN Blank(Inherit(ConversationFacts(threads[t])))
  ELSE IF t \in DOMAIN threads THEN threads[t] ELSE Blank(Nothing)

EnterTurn(t, m) ==
  LET resumes == Paused(t) /\ ~MovesOn(m)
      entered == IF resumes THEN threads[t]
                 ELSE [Before(t) EXCEPT !.question = m, !.index = IndexOf(t),
                                        !.next = "understand_turn"]
  IN  /\ ~Running
      /\ turn' = [thread |-> t, message |-> m, resumes |-> resumes,
                   stood |-> IF t \in DOMAIN threads THEN threads[t].next ELSE End]
      /\ threads' = [u \in DOMAIN threads \cup {t} |->
                       IF u = t THEN entered ELSE threads[u]]
      /\ UNCHANGED asked

\* a node of the running thread writes its channels and is checkpointed
At(node) == Running /\ threads[turn.thread].next = node
Here == threads[turn.thread]
Writes(c) == /\ threads' = [threads EXCEPT ![turn.thread] = c]
             /\ UNCHANGED <<turn, asked>>

----------------------------------------------------------------------------
(* The nodes.                                                              *)

\* advises: the products its recommending sentences name, among all it names
Answer(path, advises, names) == [path |-> path, advises |-> advises, names |-> names]
Plain(path) == Answer(path, {}, {})

Boundary(c) == StateOnlyAnswer(c.question, c.facts, c.index, c.topic)

(* Mutant: the last turn's assessment is left standing.                     *)
UnderstandTurn_KeepsDecision ==
  /\ At("understand_turn")
  /\ LET c == Here
         boundary == Boundary(c)
     IN  \E r \in IF boundary = NoAnswer THEN Readings(c.question) ELSE {Deterministic} :
           Writes([c EXCEPT !.reading = r, !.boundary = boundary,
                            !.missing = {}, !.owners = {},
                            !.answers = <<>>, !.perceived = FALSE, !.granted = {},
                            !.resumed = FALSE, !.next = "case_boundary"])

\* every field that describes one turn is cleared here, by the node that runs first
UnderstandTurn ==
  /\ At("understand_turn")
  /\ LET c == Here
         boundary == Boundary(c)
     IN  \E r \in IF boundary = NoAnswer THEN Readings(c.question) ELSE {Deterministic} :
           Writes([c EXCEPT !.reading = r, !.boundary = boundary,
                            !.missing = {}, !.owners = {}, !.decision = Undecided,
                            !.answers = <<>>, !.perceived = FALSE,
                            !.granted = {},
                            !.resumed = FALSE, !.next = "case_boundary"])

(* Mutant: another wall is merged into the old one.                         *)
CaseBoundary_Merges ==
  /\ At("case_boundary")
  /\ LET c == Here
         keep == [s \in DOMAIN c.question.says |-> Fact(c.question.says[s], Stated, c.index)]
     IN  Writes([c EXCEPT
           !.facts = IF OpensANewCase(c.question.introduces, c.question.corrects,
                                      c.reading.newSubject)
                     THEN MergeFacts(c.facts, keep) ELSE c.facts,
           !.next = "resolve_state"])

CaseBoundary ==
  /\ At("case_boundary")
  /\ LET c == Here
         opens == OpensANewCase(c.question.introduces, c.question.corrects,
                                c.reading.newSubject)
         keep == [s \in DOMAIN c.question.says |->
                    Fact(c.question.says[s], Stated, c.index)]
     IN  Writes(IF opens
                THEN [c EXCEPT !.facts = MergeNewCase(keep), !.topic = NoProduct,
                               !.observations = {}, !.next = "resolve_state"]
                ELSE [c EXCEPT !.next = "resolve_state"])

Resolved(c) == Resolve(c.question, c.reading, c.facts, c.index, c.topic)

ResolveState ==
  /\ At("resolve_state")
  /\ LET c == Here
         m == c.question
         facts == MergeFacts(Retract(c.facts, m.denies),
                             FactsFrom(m, c.facts, c.index, c.topic))
     IN  Writes([c EXCEPT
           !.facts = facts, !.resolved = Resolved(c),
           !.topic = IF m.topic # NoProduct THEN m.topic ELSE c.topic,
           !.next = IF c.boundary # NoAnswer /\ ~m.photo
                    THEN "answer_state" ELSE "analyse_images"])

\* the answer is worked out again, on what the conversation holds by now
AnswerState ==
  /\ At("answer_state")
  /\ LET c == Here
     IN  /\ Boundary(c) # NoAnswer
         /\ Writes([c EXCEPT !.answers = <<Plain(Boundary(c))>>, !.next = End])

\* vision switched off, or a reading that failed, supplies no facts
AnalyseImages ==
  /\ At("analyse_images")
  /\ LET c == Here
     IN  \E read \in IF c.question.photo THEN BOOLEAN ELSE {FALSE} :
           LET seen == IF read THEN [s \in DOMAIN c.question.shows |->
                                       Fact(c.question.shows[s], Observed, c.index)]
                       ELSE Nothing
           IN  Writes([c EXCEPT
                 !.facts = MergeFacts(c.facts, seen),
                 !.observations = MergeObservations(c.observations,
                                                    {seen[s] : s \in DOMAIN seen}),
                 !.perceived = c.question.photo,
                 !.next = "determine_missing_information"])

DetermineMissing ==
  /\ At("determine_missing_information")
  /\ LET c == Here
         resolved == Resolved(c)
         missing == IF resolved.intent = "select" THEN MissingFacts(resolved) ELSE {}
     IN  Writes([c EXCEPT
           !.resolved = resolved, !.missing = missing,
           !.next = CASE c.boundary # NoAnswer -> "answer_state"
                      [] c.boundary = NoAnswer /\ resolved.intent # "select" -> "delegate"
                      [] c.boundary = NoAnswer /\ resolved.intent = "select" ->
                           IF missing = {} THEN "retrieve_candidates" ELSE "ask_back"])

(* Mutant: the reply sends the graph back to see what is still missing.     *)
AskBack_AsksAgain ==
  /\ At("ask_back")
  /\ turn.resumes
  /\ LET c == Here
         heard == [s \in DOMAIN turn.message.says |->
                     Fact(turn.message.says[s], Stated, c.index)]
     IN  Writes([c EXCEPT !.facts = MergeFacts(c.facts, heard), !.resumed = TRUE,
                          !.next = "determine_missing_information"])

\* the reply to the ask-back, read for facts and for nothing else
AskBack ==
  /\ At("ask_back")
  /\ turn.resumes
  /\ LET c == Here
         heard == [s \in DOMAIN turn.message.says |->
                     Fact(turn.message.says[s], Stated, c.index)]
     IN  Writes([c EXCEPT !.facts = MergeFacts(c.facts, heard),
                          !.missing = c.missing \ DOMAIN heard,
                          !.resumed = TRUE, !.next = "retrieve_candidates"])

(* Mutant: the request is the one that was resolved before the reply.       *)
RetrieveCandidates_AsAsked ==
  /\ At("retrieve_candidates")
  /\ \E owners \in SUBSET Products :
       Writes([Here EXCEPT !.owners = owners, !.next = "assess_evidence"])

RetrieveCandidates ==
  /\ At("retrieve_candidates")
  /\ \E owners \in SUBSET Products :
       Writes([Here EXCEPT !.resolved = Resolved(Here), !.owners = owners,
                           !.next = "assess_evidence"])

AssessEvidence ==
  /\ At("assess_evidence")
  /\ LET c == Here
     IN  \E corpus \in Corpora, read \in BOOLEAN, names \in Discoveries(c.resolved, c.owners) :
           LET d == Decide(c.resolved, names, corpus, Audiences, read)
           IN  Writes([c EXCEPT
                 !.decision = d, !.granted = d.approved,
                 !.next = CASE d.outcome = "need_more_information" -> "need_more_information"
                            [] d.outcome = "no_supported_recommendation" ->
                                 "no_supported_recommendation"
                            [] OTHER -> "recommend"])

\* Everything that is not a selection goes to the engine, one answer for each
\* part of the message; a part that is composed may recommend.
Delegate ==
  /\ At("delegate")
  /\ \E path \in [1 .. Here.question.parts -> {"compose", "refuse", "other"}],
        advises \in [1 .. Here.question.parts -> SUBSET Products] :
       /\ \A i \in DOMAIN path : path[i] # "compose" => advises[i] = {}
       /\ Writes([Here EXCEPT
            !.answers = [i \in DOMAIN path |-> Answer(path[i], advises[i], advises[i])],
            !.next = "verify"])

\* the model composes over the approved set, and is checked only afterwards
Recommend ==
  /\ At("recommend")
  /\ \E names \in SUBSET Products, advises \in SUBSET Products :
       /\ advises \subseteq names
       /\ Writes([Here EXCEPT !.answers = <<Answer("select", advises, names)>>,
                              !.next = "verify"])

NeedMoreInformation ==
  /\ At("need_more_information")
  /\ Writes([Here EXCEPT !.answers = <<Plain("ask_back")>>, !.next = "verify"])

NoSupportedRecommendation ==
  /\ At("no_supported_recommendation")
  /\ Writes([Here EXCEPT !.answers = <<Plain("refuse")>>, !.next = "verify"])

\* what the question asks about by name is not a recommendation
AskedAbout(c) == ({c.resolved.product} \cap Products) \cup c.resolved.suggests
                 \cup c.question.named

\* the answer that is checked is the first one
Verify ==
  /\ At("verify")
  /\ LET c == Here
         answer == Head(c.answers)
         fails == /\ answer.path # "refuse"
                  /\ \/ Unapproved(answer.advises, c.decision, AskedAbout(c)) # {}
                     \/ Intruders(answer.names, c.decision) # {}
     IN  Writes([c EXCEPT !.answers = IF fails THEN <<Plain("refuse")>> ELSE c.answers,
                          !.next = End])

----------------------------------------------------------------------------
(* Leaving a turn.                                                         *)

Leave == turn' = NoTurn /\ UNCHANGED threads

(* Mutant: the turns are counted without end.                               *)
Remembered_Uncapped(t) == asked' = [asked EXCEPT ![t] = @ + 1]

\* the page shows an answer and the session counts the turn
Remembered(t) == asked' = [asked EXCEPT ![t] = IF @ < MaxIndex THEN @ + 1 ELSE @]

Finish == At(End) /\ Leave /\ Remembered(turn.thread)

\* the graph pauses inside ask_back, and what it stopped to ask is shown
Pause == At("ask_back") /\ ~turn.resumes /\ Leave /\ Remembered(turn.thread)

\* A call the node makes raises: no answer, no turn remembered.  answer_state
\* raises when the answer it was sent for is none any more.
Raises(node) ==
  \/ node \in {"retrieve_candidates", "assess_evidence", "delegate", "recommend"}
  \/ node = "answer_state" /\ Boundary(Here) = NoAnswer

Fail == Running /\ Raises(Here.next) /\ Leave /\ UNCHANGED asked

\* the checkpointer lives in the process
ForgetThreads ==
  /\ threads' = [t \in {} |-> Blank(Nothing)]
  /\ turn' = NoTurn
  /\ UNCHANGED asked

GraphInit ==
  /\ threads = [t \in {} |-> Blank(Nothing)]
  /\ turn = NoTurn
  /\ asked = [t \in Threads |-> 0]

Node ==
  \/ UnderstandTurn \/ CaseBoundary \/ ResolveState \/ AnswerState
  \/ AnalyseImages \/ DetermineMissing \/ AskBack \/ RetrieveCandidates
  \/ AssessEvidence \/ Delegate \/ Recommend \/ NeedMoreInformation
  \/ NoSupportedRecommendation \/ Verify \/ Finish \/ Pause

GraphNext ==
  \/ \E t \in Threads, m \in Messages : EnterTurn(t, m)
  \/ Node
  \/ Fail
  \/ ForgetThreads

\* a turn runs in the request that asked for it, which does not return before
GraphSpec == GraphInit /\ [][GraphNext]_graphVars /\ WF_graphVars(Node \/ Fail)

----------------------------------------------------------------------------
(* What a conversation promises.                                           *)

\* Every channel holds what its node writes, and a turn in progress has a thread.
GraphTypeOK ==
  /\ \A t \in DOMAIN threads :
       /\ t \in Threads
       /\ DOMAIN threads[t].facts \subseteq FactSlots
       /\ \A s \in DOMAIN threads[t].facts : threads[t].facts[s] \in FactHistory
       /\ threads[t].question \in Messages
       /\ threads[t].index \in 0 .. MaxIndex
       /\ threads[t].missing \subseteq FactSlots
       /\ threads[t].owners \subseteq Products
  /\ turn.thread \in Threads \cup {Nobody}
  /\ Running => turn.thread \in DOMAIN threads
  /\ asked \in [Threads -> 0 .. MaxIndex]

\* the step that decides the message is about another wall
OpensCase == At("case_boundary") /\ OpensANewCase(Here.question.introduces,
                                                  Here.question.corrects,
                                                  Here.reading.newSubject)

\* What a person said is changed only by that person: a photograph, an
\* assumption, a restored thread or an abandoned turn never replaces it
\* (merge_facts, inherit, ask_turn).
TestimonyStands ==
  [][\A t \in DOMAIN threads \cap DOMAIN threads' : \A s \in DOMAIN threads[t].facts :
       LET old == threads[t].facts[s].current
           now == threads'[t].facts
           message == turn.message
       IN  FromPerson(old) /\ ~OpensCase =>
             /\ s \in DOMAIN now
             /\ FromPerson(now[s].current)
             /\ \/ now[s].current.value = old.value
                \/ s \in DOMAIN message.says /\ now[s].current.value = message.says[s]
                \/ s = "product" /\ now[s].current.value = message.uses]_graphVars

\* a person said v at some time
Told(h, v) ==
  \/ FromPerson(h.current) /\ h.current.value = v
  \/ \E i \in DOMAIN h.superseded :
       FromPerson(h.superseded[i]) /\ h.superseded[i].value = v

Testimony(facts) ==
  {f \in FactSlots \X FactValues : f[1] \in DOMAIN facts /\ Told(facts[f[1]], f[2])}

\* Nothing a person said about a wall is lost while that wall is talked about:
\* corrected, denied or contradicted, it stays in the history of its slot, also
\* when a paused turn is abandoned and its thread is thrown away.
NothingForgotten ==
  [][\A t \in DOMAIN threads \cap DOMAIN threads' :
       OpensCase \/ Testimony(threads[t].facts) \subseteq Testimony(threads'[t].facts)]_graphVars

\* A product is chosen only for a wall whose needed facts are all known and
\* undisputed, on the values the conversation holds when it is chosen; only
\* what the question itself said stands over a reply (see RepliesAreHeeded).
AdviceRestsOnTheConversation ==
  At("recommend") =>
    LET c == Here
        resolved == c.resolved
    IN  /\ UnsettledSlots(c.facts) = {}
        /\ \A s \in Needed(resolved.objective, resolved.slots) \ Transient(c.question) :
             /\ s \in DOMAIN ActiveFacts(c.facts)
             /\ s \in DOMAIN resolved.slots
             /\ \/ resolved.slots[s] = ActiveFacts(c.facts)[s]
                \/ c.resumed /\ s \in DOMAIN c.question.says

\* What was just answered to an ask-back is not asked for again, unless the
\* question took a value of it back (see RepliesAreHeeded).
NeverReasks ==
  At("need_more_information") /\ turn.resumes /\ turn.stood = "ask_back" =>
    Here.decision.missing \cap DOMAIN turn.message.says \subseteq DOMAIN Here.question.denies

\* Candidates are assessed on what the reply to an ask-back just said: "Resolving
\* from the current facts makes the node's contract `retrieve for what is known
\* now`" (the docstring of retrieve_candidates).  Violated: what the paused
\* question said, or took back, wins over the reply.
RepliesAreHeeded ==
  At("assess_evidence") /\ turn.resumes /\ turn.stood = "ask_back" =>
    \A s \in DOMAIN turn.message.says :
      /\ s \in DOMAIN Here.resolved.slots
      /\ Here.resolved.slots[s] = turn.message.says[s]

\* The answer that is checked advises only what an evidence assessment of this
\* turn approved, or what the question named.
ApprovedInThisTurn ==
  At(End) /\ Here.answers # <<>> =>
    Head(Here.answers).advises \subseteq Here.granted \cup AskedAbout(Here)

\* A message that introduces another wall, and is read as a new question,
\* leaves nothing of the old wall behind.
CaseOpensClean ==
  At(End) /\ turn.message.introduces /\ ~turn.resumes =>
    \A s \in DOMAIN Here.facts :
      \/ s = "product"
      \/ /\ s \in DOMAIN turn.message.says
         /\ Here.facts[s].current.value = turn.message.says[s]
      \/ Here.facts[s].current.provenance = Observed /\ turn.message.photo

\* A turn that was entered is answered, paused or failed: no reply sends the
\* graph round its own loop.
TurnEnds == Running ~> ~Running

\* Whatever route produced it, an answer that tells somebody to use a product
\* had that product approved by an evidence assessment in this turn, or was
\* asked about it (the docstring of verify).
OnlyApprovedAdvice ==
  At(End) =>
    \A i \in DOMAIN Here.answers :
      Here.answers[i].advises \subseteq Here.granted \cup AskedAbout(Here)
=============================================================================
