---------------------------- MODULE Conversation ----------------------------
(***************************************************************************)
(* What a conversation knows about one wall, and the rules by which a new  *)
(* fact meets an old one: turn/conversation.py.  Facts come from what the  *)
(* person says now (stated), from what an earlier turn said (carried),     *)
(* from a photograph (observed), or from a topic nobody claimed (assumed). *)
(* Every write to the facts passes through merge_facts.                    *)
(***************************************************************************)
EXTENDS Integers, Sequences

CONSTANTS FactSlots,     \* the slots of a conversation, "product" among them
          FactValues     \* what a slot may hold

ASSUME ConversationConstants == "product" \in FactSlots

Stated == "stated"
Carried == "carried"
Observed == "observed"
Assumed == "assumed"
Provenances == {Stated, Carried, Observed, Assumed}

Active == "active"
Superseded == "superseded"
Conflicting == "conflicting"

SessionFact == [value : FactValues, provenance : Provenances,
                turn : Nat, status : {Active, Superseded, Conflicting}]
FactHistory == [current : SessionFact, superseded : Seq(SessionFact),
                contradicted : Seq(SessionFact)]

\* a dictionary of slots: a function of those it holds
PartialOver(S, V) == UNION {[D -> V] : D \in SUBSET S}
Nothing == [s \in {} |-> {}]

Fact(v, p, t) == [value |-> v, provenance |-> p, turn |-> t, status |-> Active]
As(f, st) == [value |-> f.value, provenance |-> f.provenance,
              turn |-> f.turn, status |-> st]
FromPerson(f) == f.provenance \in {Stated, Carried}
Inherited(f) == IF f.provenance = Stated
                THEN [value |-> f.value, provenance |-> Carried,
                      turn |-> f.turn, status |-> f.status]
                ELSE f
Begun(f) == [current |-> f, superseded |-> <<>>, contradicted |-> <<>>]
Unsettled(h) == h.current.status = Conflicting

----------------------------------------------------------------------------
(* merge_facts, rule by rule: h is the history of a slot, f what meets it. *)

Denied(h, v) ==
  IF h.current.value = v
  THEN [current |-> As(h.current, Superseded),
        superseded |-> Append(h.superseded, As(h.current, Superseded)),
        contradicted |-> <<>>]
  ELSE h

\* the person, speaking now, wins over anything
Spoken(h, f) ==
  IF h.current.value = f.value /\ FromPerson(h.current)
  THEN [current |-> f, superseded |-> h.superseded, contradicted |-> h.contradicted]
  ELSE [current |-> f,
        superseded |-> Append(h.superseded, As(h.current, Superseded)),
        contradicted |-> <<>>]

(* Mutant: a photograph overrules.                                          *)
Seen_Overrules(h, f) ==
  [current |-> f, superseded |-> Append(h.superseded, As(h.current, Superseded)),
   contradicted |-> <<>>]

\* a photograph may inform, never overrule
Seen(h, f) ==
  CASE ~FromPerson(h.current) ->
         [current |-> f, superseded |-> h.superseded, contradicted |-> h.contradicted]
    [] FromPerson(h.current) /\ h.current.value = f.value -> h
    [] FromPerson(h.current) /\ h.current.value # f.value ->
         [current |-> IF h.current.turn = f.turn THEN h.current
                      ELSE As(h.current, Conflicting),
          superseded |-> h.superseded,
          contradicted |-> Append(h.contradicted, f)]

\* history fills a gap, never overwrites the present
Filled(h, f) ==
  IF h.current.status = Active /\ FromPerson(h.current) THEN h
  ELSE [current |-> f, superseded |-> h.superseded, contradicted |-> h.contradicted]

Met(h, f) ==
  CASE f.provenance = Stated -> Spoken(h, f)
    [] f.provenance = Observed -> Seen(h, f)
    [] OTHER -> Filled(h, f)

\* the reducer on one turn's facts, and on what a turn takes back
MergeFacts(old, new) ==
  [s \in DOMAIN old \cup DOMAIN new |->
     IF s \notin DOMAIN new THEN old[s]
     ELSE IF s \in DOMAIN old THEN Met(old[s], new[s]) ELSE Begun(new[s])]

Retract(old, denied) ==
  [s \in DOMAIN old |-> IF s \in DOMAIN denied THEN Denied(old[s], denied[s]) ELSE old[s]]

\* NewCase: nothing of the old wall is left, what this turn stated is kept
MergeNewCase(keep) == MergeFacts(Nothing, keep)

\* merge_observations: photographs accumulate until the case changes
MergeObservations(old, new) == old \cup new

----------------------------------------------------------------------------
(* Reading, and restoring a conversation into a thread that has none.      *)

ActiveFacts(facts) ==
  [s \in {x \in DOMAIN facts : facts[x].current.status = Active} |->
     facts[s].current.value]

UnsettledSlots(facts) == {s \in DOMAIN facts : Unsettled(facts[s])}

Inherit(facts) ==
  [s \in DOMAIN facts |->
     [current |-> Inherited(facts[s].current), superseded |-> facts[s].superseded,
      contradicted |-> facts[s].contradicted]]

\* how a surface describes a fact a turn did not hear: by the turn it came from
OriginOf(f, turn) == IF f.provenance = Stated /\ f.turn # 0 /\ f.turn < turn
                     THEN Carried ELSE f.provenance

----------------------------------------------------------------------------
(* Is this turn about a different wall?                                    *)

\* An introducer with its subject says so even beside a correction; the
\* model's reading counts only where no correction marker stands.
OpensANewCase(introduces, corrects, modelSays) ==
  introduces \/ (~corrects /\ modelSays)
=============================================================================
