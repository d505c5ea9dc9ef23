----------------------------- MODULE Perception -----------------------------
(***************************************************************************)
(* What the photographs of one turn may tell: answering/vision.py.  A      *)
(* photograph is what came back for it: an error of the file or the call,  *)
(* or a reply of the vision model, which may be cut off.  An observation   *)
(* is its attribute, its wording and the vocabulary values that matches,   *)
(* whether it says where in the picture, and its confidence as the model   *)
(* wrote it.                                                               *)
(* The photographs are read one after the other, then resolved together.   *)
(***************************************************************************)
EXTENDS Integers, FiniteSets, SequencesExt

CONSTANTS Routable,        \* ROUTER_SLOTS
          Reported,        \* CONTEXT_SLOTS and CONDITION_ATTRIBUTES
          Forbidden,       \* FORBIDDEN_ATTRIBUTES
          Photographs,     \* what may come back for a photograph
          MaxObservations, \* MAX_OBSERVATIONS
          MaxPhotographs   \* bound: the photographs of a turn

\* a reply lists finitely many observations, whatever it was asked for
ASSUME PerceptionConstants ==
  /\ MaxObservations \in Nat
  /\ \A photo \in Photographs : Len(photo.saw) \in Nat

VARIABLE perceptions       \* observe_many: one for each photograph, in order

Known == Routable \cup Reported
NoReading == "no reading"
NoConfidence == -1
HighFloor == 80            \* hundredths
LikelyFloor == 65
UncertainFloor == 50

----------------------------------------------------------------------------
(* Decoding one reply.                                                     *)

\* A band stands for its floor; a number is a ratio, or a whole percentage
\* from 2 to 100.  What is neither is not a confidence.
DecodedConfidence(c) ==
  CASE c.word = "HIGH" -> HighFloor
    [] c.word = "UNCERTAIN" -> UncertainFloor
    [] c.word = "NOT_DETERMINABLE" -> 0
    [] c.word = "number" /\ c.hundredths \in 0 .. 100 -> c.hundredths
    [] c.word = "number" /\ c.hundredths \in {100 * n : n \in 2 .. 100} -> c.hundredths \div 100
    [] OTHER -> NoConfidence

Usable(o) == o.attribute \in Known /\ DecodedConfidence(o.confidence) # NoConfidence
Observation(o) ==
  [attribute |-> o.attribute, matches |-> o.matches, region |-> o.region,
   confidence |-> DecodedConfidence(o.confidence)]

NoPerception == [observations |-> {}, cannot |-> {}, refused |-> {}, truncated |-> FALSE, ok |-> FALSE]

SameReading(o, p) == o.attribute = p.attribute /\ o.wording = p.wording

\* Only so many observations are looked at, and one of each reading, the first; of
\* a reply that was cut off, those that were complete, and nothing of what it could
\* not determine.
Decode(reply) ==
  LET considered == 1 .. (IF Len(reply.saw) < MaxObservations
                          THEN Len(reply.saw) ELSE MaxObservations)
      usable == {i \in considered : Usable(reply.saw[i])}
      first == {i \in usable : \A j \in usable : SameReading(reply.saw[i], reply.saw[j]) => i <= j}
  IN  [observations |-> {Observation(reply.saw[i]) : i \in first},
       cannot |-> IF reply.form = "cut" THEN {} ELSE reply.cannot,
       refused |-> {reply.saw[i].attribute : i \in considered} \cap Forbidden,
       truncated |-> reply.form = "cut", ok |-> TRUE]

\* observe: an unreadable file, a failed call or a reply that is not one says nothing
Observe(photo) ==
  IF photo.form \in {"unreadable", "failed", "prose"} THEN NoPerception
  ELSE IF photo.form = "cut" /\ photo.saw = <<>> THEN [NoPerception EXCEPT !.truncated = TRUE]
  ELSE Decode(photo)

----------------------------------------------------------------------------
(* Resolving the photographs of a turn.                                    *)

Looked(ps) == {ps[i] : i \in DOMAIN ps}

\* _match_value: a reading that names one value of the vocabulary
Readable(o) == Cardinality(o.matches) = 1
ValueOf(o) == CHOOSE v \in o.matches : TRUE

SeenOf(a, ps) ==
  {o \in UNION {p.observations : p \in Looked(ps)} : o.attribute = a /\ Readable(o)}

\* what may be acted on: it can be checked, it came whole, and it is confident
Acceptable(a, ps) ==
  {o \in UNION {p.observations : p \in {q \in Looked(ps) : ~q.truncated}} :
     o.attribute = a /\ Readable(o) /\ o.region /\ o.confidence >= HighFloor}

Surest(S) == CHOOSE o \in S : \A p \in S : p.confidence <= o.confidence

(* Mutant: when photographs disagree the surest is believed.                *)
Aggregate_Surest(a, ps) ==
  LET accepted == Acceptable(a, ps)
      best == Surest(IF accepted # {} THEN accepted ELSE SeenOf(a, ps))
  IN  [value |-> ValueOf(best), confidence |-> best.confidence, withheld |-> FALSE,
       status |-> IF accepted # {} THEN "confirmed" ELSE "not determinable"]

\* one attribute over all photographs, before one is read against another
Aggregate(a, ps) ==
  LET accepted == Acceptable(a, ps)
      best == Surest(IF accepted # {} THEN accepted ELSE SeenOf(a, ps))
      is(value, status, withheld) ==
        [value |-> value, status |-> status, confidence |-> best.confidence,
         withheld |-> withheld]
  IN  IF Cardinality({ValueOf(o) : o \in accepted}) > 1
      THEN is(NoReading, "conflicting", TRUE)
      ELSE IF accepted # {} THEN is(ValueOf(best), "confirmed", FALSE)
      ELSE IF best.confidence >= HighFloor THEN is(ValueOf(best), "uncertain", TRUE)
      ELSE IF best.confidence >= UncertainFloor THEN is(ValueOf(best), "uncertain", FALSE)
      ELSE is(ValueOf(best), "not determinable", FALSE)

Certainty(r) ==
  CASE r.status = "confirmed" /\ ~r.withheld -> "observed"
    [] r.status = "conflicting" -> "uncertain"
    [] r.status = "not determinable" -> "cannot determine"
    [] OTHER -> IF r.confidence >= LikelyFloor THEN "likely" ELSE "uncertain"

\* _covered_without_exposure: a finish is there and no masonry shows, so what
\* the wall is built of cannot be seen
Covered(ps) ==
  /\ SeenOf("existing_finish", ps) # {}
  /\ LET finish == Aggregate("existing_finish", ps)
     IN  /\ finish.value \notin {NoReading, "none"}
         /\ Certainty(finish) \in {"observed", "likely"}
  /\ SeenOf("exposed_masonry", ps) # {} =>
       Aggregate("exposed_masonry", ps).value \notin {"yes", "partial"}

Resolved1(a, ps) ==
  LET r == Aggregate(a, ps)
      held == IF a = "substrate" /\ Covered(ps) THEN [r EXCEPT !.withheld = TRUE] ELSE r
      refused == \E p \in Looked(ps) : a \in p.cannot
  IN  IF refused /\ Certainty(held) # "observed"
      THEN [held EXCEPT !.status = "not determinable", !.withheld = TRUE] ELSE held

\* resolve: the slots that change what the assistant does
RoutedSlots(ps) ==
  [a \in {x \in Routable : SeenOf(x, ps) # {} /\ Certainty(Resolved1(x, ps)) = "observed"} |->
     Resolved1(a, ps).value]

----------------------------------------------------------------------------
(* One photograph after another.                                           *)

PerceptionInit == perceptions = <<>>
ReadPhotograph ==
  /\ Len(perceptions) < MaxPhotographs
  /\ \E photo \in Photographs : perceptions' = Append(perceptions, Observe(photo))
PerceptionSpec == PerceptionInit /\ [][ReadPhotograph]_perceptions

\* Looking at one more photograph never replaces what the others settled by
\* something else: it adds a slot, or it takes one back.  Two confident
\* photographs that disagree leave the question to the person.
NoSlotChangesHands ==
  [][\A a \in DOMAIN RoutedSlots(perceptions) \cap DOMAIN RoutedSlots(perceptions') :
       RoutedSlots(perceptions')[a] = RoutedSlots(perceptions)[a]]_perceptions
=============================================================================
