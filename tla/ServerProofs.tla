---------------------------- MODULE ServerProofs ----------------------------
(***************************************************************************)
(* The web surface for any number of request threads, visitors and         *)
(* releases, and a cache of any size: every answer that is given was made  *)
(* for the turn it is given in.                                            *)
(*                                                                         *)
(* That is not inductive.  A turn builds the key of the cache from the     *)
(* release all threads share, so it is right only while nobody else can    *)
(* begin a turn: the thread between BeginTurn and EndTurn holds the lock,  *)
(* and what it reads is what is pinned.  And what is found under a key was *)
(* made for every part of it.                                              *)
(***************************************************************************)
EXTENDS Server, SequenceTheorems, TLAPS

Histories == Seq(Asks)
Request == [visitor : Visitors, question : Asks, audiences : Allowed, images : Nat,
            history : Histories]
Made == [release : Nat, audiences : Allowed, history : Histories, perceived : BOOLEAN]
KeyOf(question, audiences, release, history) == <<question, audiences, release, history>>
Keys == {KeyOf(q, a, r, h) : q \in Asks, a \in Allowed, r \in Nat, h \in Histories}

\* what is filed under a key was made for all of it
Entry == {e \in [key : Keys, made : Made] :
            /\ e.made.audiences = e.key[2]
            /\ e.made.release = e.key[3]
            /\ e.made.history = e.key[4]}
Count == [visitor : Visitors, used : Nat]

Answered == {"made", "answered", "replied"}
InTurn == {"turn", "making", "made", "answered"}
Stages == {"idle", "accepted", "waiting"} \cup InTurn \cup Answered

\* a thread, whatever it is doing
GoodThread(r) ==
  /\ r.stage \in Stages
  /\ r.stage # "idle" => r.request \in Request
  /\ r.stage \in InTurn \cup {"replied"} => r.reads \in Nat
  /\ r.stage \in {"making", "made", "answered", "replied"} =>
       r.key = Key(r.request, r.reads)
  /\ r.stage \in Answered =>
       /\ r.answer \in Made
       /\ r.answer.release = r.reads
       /\ r.answer.audiences = r.request.audiences
       /\ r.answer.history = r.request.history

ServerTypeOK ==
  /\ published \in Nat
  /\ workers = [w \in Workers |-> workers[w]]
  /\ \A w \in Workers : GoodThread(workers[w])
  /\ lock \in Workers \cup {Free}
  /\ cache \in Seq(Entry)
  /\ budget \in Seq(Count)
  /\ turns \in [Visitors -> Histories]

\* A thread in its turn holds the lock, and reads what is pinned.
HoldsTheTurn ==
  \A w \in Workers : workers[w].stage \in InTurn => lock = w /\ workers[w].reads = pinned

ServerInv == ServerTypeOK /\ HoldsTheTurn

-----------------------------------------------------------------------------
(* The ordered dictionaries.                                               *)

\* An entry can be taken out anywhere.
LEMMA WithoutIsSeq ==
  ASSUME NEW S, NEW s \in Seq(S), NEW k \in 1 .. Len(s)
  PROVE  Without(s, k) \in Seq(S)
  <1>1. SubSeq(s, 1, k - 1) \in Seq(S)
    BY SubSeqProperties
  <1>2. SubSeq(s, k + 1, Len(s)) \in Seq(S)
    BY SubSeqProperties
  <1> QED
    BY <1>1, <1>2, ConcatProperties DEF Without

LEMMA PlaceIn == ASSUME NEW S, S # {} PROVE Place(S) \in S
  BY DEF Place

LEMMA TailIsSeq ==
  ASSUME NEW S, NEW s \in Seq(S), Len(s) > 0 PROVE Tail(s) \in Seq(S)
  BY HeadTailProperties, EmptySeq

LEMMA OthersIsSeq ==
  ASSUME cache \in Seq(Entry), NEW key PROVE Others(key) \in Seq(Entry)
  <1>1. CASE Cached(key)
    <2>1. Place(Filed(key)) \in 1 .. Len(cache)
      BY <1>1, PlaceIn, LenProperties DEF Cached, Filed
    <2> QED
      BY <1>1, <2>1, WithoutIsSeq DEF Others
  <1> QED
    BY <1>1 DEF Others

\* What is found under a key is an entry of that key.
LEMMA EntryFound ==
  ASSUME cache \in Seq(Entry), NEW key, Cached(key)
  PROVE  EntryAt(key) \in Entry /\ EntryAt(key).key = key
  <1>1. Place(Filed(key)) \in Filed(key)
    BY PlaceIn DEF Cached
  <1>2. Place(Filed(key)) \in 1 .. Len(cache) /\ cache[Place(Filed(key))].key = key
    BY <1>1, LenProperties DEF Filed
  <1> QED
    BY <1>2, ElementOfSeq DEF EntryAt

LEMMA GotIsSeq ==
  ASSUME cache \in Seq(Entry), NEW key PROVE Got(key) \in Seq(Entry)
  BY OthersIsSeq, EntryFound, AppendProperties DEF Got

LEMMA PutIsSeq ==
  ASSUME cache \in Seq(Entry), NEW key, NEW made, [key |-> key, made |-> made] \in Entry
  PROVE  PutIn(key, made) \in Seq(Entry)
  <1> DEFINE entries == Append(Others(key), [key |-> key, made |-> made])
  <1>1. entries \in Seq(Entry) /\ Len(entries) > 0
    BY OthersIsSeq, AppendProperties, LenProperties
  <1> QED
    BY <1>1, TailIsSeq DEF PutIn

\* No more photographs are granted than were sent, and a count is never negative.
LEMMA GrantedIsNat ==
  ASSUME budget \in Seq(Count), NEW v \in Visitors, NEW n \in Nat
  PROVE  Granted(v, n) \in Nat /\ CountOf(v) \in Nat
  <1>1. CountOf(v) \in Nat
    <2>1. CASE Counted(v) # {}
      <3>1. Place(Counted(v)) \in 1 .. Len(budget)
        BY <2>1, PlaceIn, LenProperties DEF Counted
      <3>2. budget[Place(Counted(v))] \in Count
        BY <3>1, ElementOfSeq
      <3> QED
        BY <2>1, <3>2 DEF CountOf, Count
    <2> QED
      BY <2>1 DEF CountOf
  <1> QED
    BY <1>1, ServerConstants DEF Granted

LEMMA TakenIsSeq ==
  ASSUME budget \in Seq(Count), NEW v \in Visitors, NEW n \in Nat
  PROVE  Taken(v, n) \in Seq(Count)
  <1> DEFINE others == IF Counted(v) = {} THEN budget ELSE Without(budget, Place(Counted(v)))
             counted == Append(others, [visitor |-> v, used |-> CountOf(v) + Granted(v, n)])
  <1>1. others \in Seq(Count)
    <2>1. CASE Counted(v) # {}
      <3>1. Place(Counted(v)) \in 1 .. Len(budget)
        BY <2>1, PlaceIn, LenProperties DEF Counted
      <3> QED
        BY <2>1, <3>1, WithoutIsSeq
    <2> QED
      BY <2>1
  <1>2. [visitor |-> v, used |-> CountOf(v) + Granted(v, n)] \in Count
    BY GrantedIsNat DEF Count
  <1> HIDE DEF others
  <1>3. counted \in Seq(Count) /\ Len(counted) > 0
    BY <1>1, <1>2, AppendProperties, LenProperties
  <1>4. Tail(counted) \in Seq(Count)
    BY <1>3, TailIsSeq
  <1> QED
    BY <1>3, <1>4 DEF Taken, others

\* The last questions of a session are questions.
LEMMA ContextIsHistory ==
  ASSUME turns \in [Visitors -> Histories], NEW v \in Visitors
  PROVE  Context(v) \in Histories
  <1>1. turns[v] \in Seq(Asks)
    BY DEF Histories
  <1>2. CASE Len(turns[v]) < 2
    BY <1>2, EmptySeq DEF Context, Histories
  <1>3. CASE Len(turns[v]) >= 2
    <2>1. SubSeq(turns[v], Len(turns[v]) - 1, Len(turns[v])) \in Seq(Asks)
      BY <1>1, <1>3, SubSeqProperties, LenProperties
    <2> QED
      BY <1>1, <1>3, <2>1, LenProperties DEF Context, Histories
  <1> QED
    BY <1>1, <1>2, <1>3, LenProperties

-----------------------------------------------------------------------------
(* The invariant.                                                          *)

LEMMA InitInv == ServerInit => ServerInv
  <1> SUFFICES ASSUME ServerInit PROVE ServerInv
    OBVIOUS
  <1>1. <<>> \in Seq(Entry) /\ <<>> \in Seq(Count) /\ <<>> \in Histories
    BY EmptySeq DEF Histories
  <1>2. workers = [w \in Workers |-> workers[w]]
    BY DEF ServerInit
  <1>3. \A w \in Workers : workers[w].stage = "idle"
    BY DEF ServerInit, Idle, Thread
  <1>4. \A w \in Workers : GoodThread(workers[w])
    BY <1>3 DEF GoodThread, Stages, InTurn, Answered
  <1> QED
    BY <1>1, <1>2, <1>3, <1>4 DEF ServerInit, ServerInv, ServerTypeOK, HoldsTheTurn, InTurn

\* One thread moves: the others stay good, and nobody else is in a turn that
\* this one begins, takes on or ends.
LEMMA OneThreadMoves ==
  ASSUME ServerInv, NEW w \in Workers, NEW thread, Goes(w, thread), GoodThread(thread),
         thread.stage \in InTurn => lock' = w /\ thread.reads = pinned',
         \/ lock' = lock /\ pinned' = pinned
         \/ lock = Free
         \/ lock = w
  PROVE  /\ workers' = [v \in Workers |-> workers'[v]]
         /\ \A v \in Workers : GoodThread(workers'[v])
         /\ HoldsTheTurn'
  <1>1. workers = [v \in Workers |-> workers[v]]
    BY DEF ServerInv, ServerTypeOK
  <1>2. workers' = [v \in Workers |-> IF v = w THEN thread ELSE workers[v]]
    BY <1>1 DEF Goes
  <1>3. \A v \in Workers : workers'[v] = IF v = w THEN thread ELSE workers[v]
    BY <1>2
  <1>4. workers' = [v \in Workers |-> workers'[v]]
    BY <1>2
  <1>5. \A v \in Workers : GoodThread(workers'[v])
    BY <1>3 DEF ServerInv, ServerTypeOK
  <1>6. ASSUME NEW v \in Workers, workers'[v].stage \in InTurn
        PROVE  lock' = v /\ workers'[v].reads = pinned'
    <2>1. CASE v = w
      BY <1>3, <1>6, <2>1
    <2>2. CASE v # w
      <3>1. lock = v /\ workers[v].reads = pinned
        BY <1>3, <1>6, <2>2 DEF ServerInv, HoldsTheTurn
      <3>2. lock # Free
        BY <3>1, ServerConstants
      <3> QED
        BY <1>3, <2>2, <3>1, <3>2
    <2> QED
      BY <2>1, <2>2
  <1> QED
    BY <1>4, <1>5, <1>6 DEF HoldsTheTurn

\* A thread that is made of its parts has those parts.
LEMMA ThreadHas ==
  ASSUME NEW s, NEW q, NEW n, NEW k, NEW a
  PROVE  /\ Thread(s, q, n, k, a).stage = s
         /\ Thread(s, q, n, k, a).request = q
         /\ Thread(s, q, n, k, a).reads = n
         /\ Thread(s, q, n, k, a).key = k
         /\ Thread(s, q, n, k, a).answer = a
  BY DEF Thread

USE DEF Stage

LEMMA AcceptKeeps ==
  ASSUME ServerInv, NEW w \in Workers, Accept(w) PROVE ServerInv'
  <1>1. PICK v \in Visitors, q \in Asks, a \in Allowed, n \in 0 .. MaxImages :
          /\ Goes(w, Thread("accepted",
                            [visitor |-> v, question |-> q, audiences |-> a,
                             images |-> Granted(v, n), history |-> <<>>],
                            NoRelease, <<>>, NoMade))
          /\ budget' = IF n = 0 THEN budget ELSE Taken(v, n)
    BY DEF Accept
  <1> DEFINE request == [visitor |-> v, question |-> q, audiences |-> a,
                         images |-> Granted(v, n), history |-> <<>>]
             thread == Thread("accepted", request, NoRelease, <<>>, NoMade)
  <1>2. n \in Nat /\ budget \in Seq(Count)
    BY ServerConstants DEF ServerInv, ServerTypeOK
  <1>3. budget' \in Seq(Count)
    BY <1>1, <1>2, TakenIsSeq
  <1>4. request \in Request
    BY <1>2, GrantedIsNat, EmptySeq DEF Request, Histories
  <1>5. thread.stage = "accepted" /\ thread.request = request
    BY ThreadHas
  <1>6. Goes(w, thread)
    BY <1>1
  <1> HIDE DEF thread, request
  <1>7. GoodThread(thread) /\ thread.stage \notin InTurn
    BY <1>4, <1>5 DEF GoodThread, Stages, InTurn, Answered
  <1>8. UNCHANGED <<published, lock, pinned, cache, turns>>
    BY DEF Accept
  <1>9. /\ workers' = [u \in Workers |-> workers'[u]]
        /\ \A u \in Workers : GoodThread(workers'[u])
        /\ HoldsTheTurn'
    BY <1>6, <1>7, <1>8, OneThreadMoves
  <1> QED
    BY <1>3, <1>8, <1>9 DEF ServerInv, ServerTypeOK

LEMMA ReadSessionKeeps ==
  ASSUME ServerInv, NEW w \in Workers, ReadSession(w) PROVE ServerInv'
  <1> DEFINE r == workers[w].request
             request == [r EXCEPT !.history = Context(r.visitor)]
             thread == Thread("waiting", request, NoRelease, <<>>, NoMade)
  <1>1. r \in Request
    BY DEF ReadSession, ServerInv, ServerTypeOK, GoodThread
  <1>2. Context(r.visitor) \in Histories
    BY <1>1, ContextIsHistory DEF Request, ServerInv, ServerTypeOK
  <1>3. request \in Request
    BY <1>1, <1>2 DEF Request
  <1>4. thread.stage = "waiting" /\ thread.request = request
    BY ThreadHas
  <1>5. Goes(w, thread) /\ UNCHANGED <<published, lock, pinned, cache, budget, turns>>
    BY DEF ReadSession
  <1> HIDE DEF thread, request
  <1>6. GoodThread(thread) /\ thread.stage \notin InTurn
    BY <1>3, <1>4 DEF GoodThread, Stages, InTurn, Answered
  <1>7. /\ workers' = [u \in Workers |-> workers'[u]]
        /\ \A u \in Workers : GoodThread(workers'[u])
        /\ HoldsTheTurn'
    BY <1>5, <1>6, OneThreadMoves
  <1> QED
    BY <1>5, <1>7 DEF ServerInv, ServerTypeOK

LEMMA BeginTurnKeeps ==
  ASSUME ServerInv, NEW w \in Workers, BeginTurn(w) PROVE ServerInv'
  <1> DEFINE r == workers[w].request
             thread == Thread("turn", r, published, <<>>, NoMade)
  <1>1. r \in Request /\ published \in Nat
    BY DEF BeginTurn, ServerInv, ServerTypeOK, GoodThread
  <1>2. thread.stage = "turn" /\ thread.request = r /\ thread.reads = published
    BY ThreadHas
  <1>3. /\ Goes(w, thread) /\ lock = Free /\ lock' = w /\ pinned' = published
        /\ UNCHANGED <<published, cache, budget, turns>>
    BY DEF BeginTurn
  <1> HIDE DEF thread, r
  <1>4. GoodThread(thread)
    BY <1>1, <1>2 DEF GoodThread, Stages, InTurn, Answered
  <1>5. /\ workers' = [u \in Workers |-> workers'[u]]
        /\ \A u \in Workers : GoodThread(workers'[u])
        /\ HoldsTheTurn'
    BY <1>2, <1>3, <1>4, OneThreadMoves
  <1> QED
    BY <1>3, <1>5 DEF ServerInv, ServerTypeOK

\* What is found was made for this very turn; what is not is made next.
LEMMA LookUpKeeps ==
  ASSUME ServerInv, NEW w \in Workers, LookUp(w) PROVE ServerInv'
  <1> DEFINE r == workers[w]
             key == Key(r.request, pinned)
             hit == Thread("answered", r.request, r.reads, key, EntryAt(key).made)
             miss == Thread("making", r.request, r.reads, key, NoMade)
             thread == IF Cached(key) THEN hit ELSE miss
  <1>1. /\ r.request \in Request /\ r.reads \in Nat
        /\ lock = w /\ r.reads = pinned /\ cache \in Seq(Entry)
    BY DEF LookUp, ServerInv, ServerTypeOK, GoodThread, HoldsTheTurn, InTurn
  <1>2. /\ Goes(w, thread) /\ cache' = Got(key)
        /\ UNCHANGED <<published, lock, pinned, budget, turns>>
    BY DEF LookUp
  <1>3. cache' \in Seq(Entry)
    BY <1>1, <1>2, GotIsSeq
  <1>4. /\ thread.stage = IF Cached(key) THEN "answered" ELSE "making"
        /\ thread.request = r.request /\ thread.reads = r.reads
        /\ thread.key = key
        /\ Cached(key) => thread.answer = EntryAt(key).made
    BY ThreadHas
  <1>5. ASSUME Cached(key)
        PROVE  /\ EntryAt(key).made \in Made
               /\ EntryAt(key).made.release = r.reads
               /\ EntryAt(key).made.audiences = r.request.audiences
               /\ EntryAt(key).made.history = r.request.history
    <2>1. EntryAt(key) \in Entry /\ EntryAt(key).key = key
      BY <1>1, <1>5, EntryFound
    <2>2. key[2] = r.request.audiences /\ key[3] = r.reads /\ key[4] = r.request.history
      BY <1>1 DEF Key
    <2> QED
      BY <2>1, <2>2 DEF Entry
  <1> HIDE DEF thread
  <1>6. GoodThread(thread)
    BY <1>1, <1>4, <1>5 DEF GoodThread, Stages, InTurn, Answered
  <1>7. /\ workers' = [u \in Workers |-> workers'[u]]
        /\ \A u \in Workers : GoodThread(workers'[u])
        /\ HoldsTheTurn'
    BY <1>1, <1>2, <1>4, <1>6, OneThreadMoves
  <1> QED
    BY <1>2, <1>3, <1>7 DEF ServerInv, ServerTypeOK

\* What is made is filed under all it was made from.
LEMMA MakeAnswerKeeps ==
  ASSUME ServerInv, NEW w \in Workers, MakeAnswer(w) PROVE ServerInv'
  <1> DEFINE r == workers[w]
             made == [release |-> r.reads, audiences |-> r.request.audiences,
                      history |-> r.request.history, perceived |-> FALSE]
             thread == Thread("made", r.request, r.reads, r.key, made)
  <1>1. /\ r.request \in Request /\ r.reads \in Nat /\ r.key = Key(r.request, r.reads)
        /\ lock = w /\ r.reads = pinned /\ cache \in Seq(Entry)
    BY DEF MakeAnswer, ServerInv, ServerTypeOK, GoodThread, HoldsTheTurn, InTurn
  <1>2. /\ Goes(w, thread) /\ cache' = PutIn(r.key, made)
        /\ UNCHANGED <<published, lock, pinned, budget, turns>>
    BY DEF MakeAnswer
  <1>3. made \in Made
    BY <1>1 DEF Made, Request
  <1>4. r.key \in Keys
    BY <1>1 DEF Key, Keys, KeyOf, Request
  <1>5. /\ r.key[2] = r.request.audiences /\ r.key[3] = r.reads
        /\ r.key[4] = r.request.history
    BY <1>1 DEF Key
  <1>6. [key |-> r.key, made |-> made] \in Entry
    BY <1>3, <1>4, <1>5 DEF Entry
  <1>7. cache' \in Seq(Entry)
    BY <1>1, <1>2, <1>6, PutIsSeq
  <1>8. /\ thread.stage = "made" /\ thread.request = r.request /\ thread.reads = r.reads
        /\ thread.key = r.key /\ thread.answer = made
    BY ThreadHas
  <1>9. /\ made.release = r.reads /\ made.audiences = r.request.audiences
        /\ made.history = r.request.history
    OBVIOUS
  <1> HIDE DEF thread, made
  <1>10. GoodThread(thread)
    BY <1>1, <1>3, <1>8, <1>9 DEF GoodThread, Stages, InTurn, Answered
  <1>11. /\ workers' = [u \in Workers |-> workers'[u]]
        /\ \A u \in Workers : GoodThread(workers'[u])
        /\ HoldsTheTurn'
    BY <1>1, <1>2, <1>8, <1>10, OneThreadMoves
  <1> QED
    BY <1>2, <1>7, <1>11 DEF ServerInv, ServerTypeOK

\* What an answer is told of photographs changes nothing it was made from,
\* in the cache or out of it.
LEMMA EndTurnKeeps ==
  ASSUME ServerInv, NEW w \in Workers, EndTurn(w) PROVE ServerInv'
  <1> DEFINE r == workers[w]
             told == [r.answer EXCEPT !.perceived = @ \/ r.request.images > 0]
             thread == Thread("replied", r.request, r.reads, r.key, told)
  <1>1. /\ r.request \in Request /\ r.reads \in Nat /\ r.key = Key(r.request, r.reads)
        /\ lock = w /\ cache \in Seq(Entry)
        /\ r.answer \in Made /\ r.answer.release = r.reads
        /\ r.answer.audiences = r.request.audiences /\ r.answer.history = r.request.history
    BY DEF EndTurn, ServerInv, ServerTypeOK, GoodThread, HoldsTheTurn, InTurn, Answered
  <1>2. /\ Goes(w, thread) /\ lock' = Free
        /\ cache' = [i \in DOMAIN cache |->
                        IF r.stage = "made" /\ cache[i].key = r.key
                        THEN [cache[i] EXCEPT !.made = told] ELSE cache[i]]
        /\ UNCHANGED <<published, pinned, budget, turns>>
    BY DEF EndTurn
  <1>3. /\ told \in Made /\ told.release = r.reads
        /\ told.audiences = r.request.audiences /\ told.history = r.request.history
    BY <1>1 DEF Made
  <1>4. /\ r.key[2] = r.request.audiences /\ r.key[3] = r.reads
        /\ r.key[4] = r.request.history
    BY <1>1 DEF Key
  <1> HIDE DEF told
  <1>5. ASSUME NEW e \in Entry, e.key = r.key PROVE [e EXCEPT !.made = told] \in Entry
    BY <1>3, <1>4, <1>5 DEF Entry
  <1>6. cache' \in Seq(Entry)
    <2>1. DOMAIN cache = 1 .. Len(cache) /\ Len(cache) \in Nat
      BY <1>1, LenProperties
    <2>2. \A i \in 1 .. Len(cache) : cache[i] \in Entry
      BY <1>1, ElementOfSeq
    <2>3. cache' \in [1 .. Len(cache) -> Entry]
      BY <1>2, <1>5, <2>1, <2>2
    <2> QED
      BY <2>1, <2>3, SeqDef
  <1>7. /\ thread.stage = "replied" /\ thread.request = r.request /\ thread.reads = r.reads
        /\ thread.key = r.key /\ thread.answer = told
    BY ThreadHas
  <1> HIDE DEF thread
  <1>8. GoodThread(thread) /\ thread.stage \notin InTurn
    BY <1>1, <1>3, <1>7 DEF GoodThread, Stages, InTurn, Answered
  <1>9. /\ workers' = [u \in Workers |-> workers'[u]]
        /\ \A u \in Workers : GoodThread(workers'[u])
        /\ HoldsTheTurn'
    BY <1>1, <1>2, <1>8, OneThreadMoves
  <1> QED
    BY <1>2, <1>6, <1>9 DEF ServerInv, ServerTypeOK

LEMMA IdleIsGood == GoodThread(Idle) /\ Idle.stage = "idle"
  <1>1. Idle.stage = "idle"
    BY DEF Idle, Thread
  <1> QED
    BY <1>1 DEF GoodThread, Stages, InTurn, Answered

LEMMA FailTurnKeeps ==
  ASSUME ServerInv, NEW w \in Workers, FailTurn(w) PROVE ServerInv'
  <1>1. lock = w
    BY DEF FailTurn, ServerInv, HoldsTheTurn, InTurn
  <1>2. Goes(w, Idle) /\ lock' = Free /\ UNCHANGED <<published, pinned, cache, budget, turns>>
    BY DEF FailTurn
  <1>3. /\ workers' = [u \in Workers |-> workers'[u]]
        /\ \A u \in Workers : GoodThread(workers'[u])
        /\ HoldsTheTurn'
    BY <1>1, <1>2, IdleIsGood, OneThreadMoves DEF InTurn
  <1> QED
    BY <1>1, <1>2, <1>3 DEF ServerInv, ServerTypeOK

LEMMA RespondKeeps ==
  ASSUME ServerInv, NEW w \in Workers, Respond(w) PROVE ServerInv'
  <1> DEFINE r == workers[w].request
  <1>1. r \in Request /\ turns \in [Visitors -> Histories]
    BY DEF Respond, ServerInv, ServerTypeOK, GoodThread
  <1>2. /\ Goes(w, Idle)
        /\ turns' = [turns EXCEPT ![r.visitor] = Append(turns[r.visitor], r.question)]
        /\ UNCHANGED <<published, lock, pinned, cache, budget>>
    BY DEF Respond
  <1>3. r.visitor \in Visitors /\ r.question \in Asks
    BY <1>1 DEF Request
  <1>4. Append(turns[r.visitor], r.question) \in Histories
    BY <1>1, <1>3, AppendProperties DEF Histories
  <1>5. turns' \in [Visitors -> Histories]
    BY <1>1, <1>2, <1>4
  <1>6. /\ workers' = [u \in Workers |-> workers'[u]]
        /\ \A u \in Workers : GoodThread(workers'[u])
        /\ HoldsTheTurn'
    BY <1>2, IdleIsGood, OneThreadMoves DEF InTurn
  <1> QED
    BY <1>2, <1>5, <1>6 DEF ServerInv, ServerTypeOK

\* A release that is published while turns run changes what none of them reads.
LEMMA PublishKeeps == ASSUME ServerInv, PublishRelease PROVE ServerInv'
  <1>1. published' = published + 1 /\ published \in Nat
        /\ UNCHANGED <<workers, lock, pinned, cache, budget, turns>>
    BY DEF PublishRelease, ServerInv, ServerTypeOK
  <1> QED
    BY <1>1 DEF ServerInv, ServerTypeOK, HoldsTheTurn

LEMMA StepKeeps == ServerInv /\ [ServerNext]_serverVars => ServerInv'
  <1> SUFFICES ASSUME ServerInv, [ServerNext]_serverVars PROVE ServerInv'
    OBVIOUS
  <1>1. CASE PublishRelease
    BY <1>1, PublishKeeps
  <1>2. CASE \E w \in Workers : Accept(w) \/ Proceed(w)
    BY <1>2, AcceptKeeps, ReadSessionKeeps, BeginTurnKeeps, LookUpKeeps, MakeAnswerKeeps,
       EndTurnKeeps, FailTurnKeeps, RespondKeeps DEF Proceed
  <1>3. CASE UNCHANGED serverVars
    BY <1>3 DEF serverVars, ServerInv, ServerTypeOK, HoldsTheTurn
  <1> QED
    BY <1>1, <1>2, <1>3 DEF ServerNext

\* The threads, the cache and the sessions keep their types, and a turn is
\* the only one while it holds the lock.
THEOREM TurnsAreSerial == ServerSpec => []ServerInv
  BY InitInv, StepKeeps, PTL DEF ServerSpec

\* Every answer that is given was made from the release its turn reads, for
\* its audiences and in its conversation, whatever the cache held and whoever
\* published in between.
THEOREM AnswersOwned == ServerSpec => []AnswersAreTheTurnsOwn
  <1>1. ServerInv => AnswersAreTheTurnsOwn
    <2> SUFFICES ASSUME ServerInv PROVE AnswersAreTheTurnsOwn
      OBVIOUS
    <2>1. \A i \in DOMAIN cache : cache[i].made.release = cache[i].key[3]
      <3>1. cache \in Seq(Entry)
        BY DEF ServerInv, ServerTypeOK
      <3>2. \A i \in DOMAIN cache : cache[i] \in Entry
        BY <3>1, ElementOfSeq, LenProperties
      <3> QED
        BY <3>2 DEF Entry
    <2> QED
      BY <2>1 DEF ServerInv, ServerTypeOK, GoodThread, Answered, AnswersAreTheTurnsOwn
  <1> QED
    BY <1>1, TurnsAreSerial, PTL
=============================================================================
