------------------------------- MODULE Server -------------------------------
(***************************************************************************)
(* The web surface: interfaces/ui.py serves every request on a thread of   *)
(* its own, over one Assistant.  Turns take turns at the repository's lock *)
(* (knowledge/locking.py), each pinned to the release that is active when  *)
(* it gets it; what is done before and after a turn is not behind that     *)
(* lock.  Finished answers are shared by all threads (cache.py).           *)
(*                                                                         *)
(* The answer itself is in Answering and TurnGraph; here it is what it was *)
(* made from.  The facts of a conversation, which are part of the cache's  *)
(* key with the history, are left to TurnGraph.                            *)
(***************************************************************************)
EXTENDS Integers, Sequences, FiniteSets

Free == "free"
NoRelease == 0

CONSTANTS Workers,       \* request threads
          Visitors,      \* sessions, by their cookie
          Asks,          \* the words of a question, normalised
          Allowed,       \* the audiences a request may be narrowed to
          MaxImages,     \* MAX_IMAGES_PER_SESSION
          MaxTracked,    \* MAX_TRACKED_SESSIONS
          MaxCached,     \* DEFAULT_MAX_ENTRIES
          MaxRelease,    \* bound: releases that are published
          MaxRequests    \* bound: requests that are made

ASSUME ServerConstants ==
  /\ Visitors # {} /\ Asks # {}
  /\ MaxImages \in Nat /\ MaxTracked \in Nat \ {0} /\ MaxCached \in Nat \ {0}
  /\ Free \notin Workers

VARIABLES published,  \* the active release
          workers,    \* what each thread is doing
          lock,       \* who holds the repository
          pinned,     \* assistant._turn_snapshot, shared by all threads
          cache,      \* AnswerCache._entries, the oldest first
          budget,     \* UploadBudget._counts, the least recently used first
          turns,      \* the questions each session remembers
          requests    \* bound: how many were made

serverVars == <<published, workers, lock, pinned, cache, budget, turns, requests>>

NoMade == [release |-> NoRelease, audiences |-> {}, history |-> <<>>, perceived |-> FALSE]
NobodysRequest == [visitor |-> CHOOSE v \in Visitors : TRUE, question |-> CHOOSE q \in Asks : TRUE,
               audiences |-> {}, images |-> 0, history |-> <<>>]
Thread(stage, request, reads, key, answer) ==
  [stage |-> stage, request |-> request, reads |-> reads, key |-> key, answer |-> answer]
Idle == Thread("idle", NobodysRequest, NoRelease, <<>>, NoMade)
Stage(w, stage) == workers[w].stage = stage
Goes(w, thread) == workers' = [workers EXCEPT ![w] = thread]

----------------------------------------------------------------------------
(* The parts shared by all threads.                                        *)

\* an OrderedDict without the entry at k
Without(s, k) == SubSeq(s, 1, k - 1) \o SubSeq(s, k + 1, Len(s))

\* UploadBudget.take
Counted(v) == {i \in DOMAIN budget : budget[i].visitor = v}
Place(S) == CHOOSE i \in S : TRUE
CountOf(v) == IF Counted(v) = {} THEN 0 ELSE budget[Place(Counted(v))].used
Granted(v, wanted) ==
  IF wanted <= MaxImages - CountOf(v) THEN wanted
  ELSE IF CountOf(v) < MaxImages THEN MaxImages - CountOf(v) ELSE 0
Taken(v, wanted) ==
  LET others == IF Counted(v) = {} THEN budget ELSE Without(budget, Place(Counted(v)))
      counted == Append(others, [visitor |-> v, used |-> CountOf(v) + Granted(v, wanted)])
  IN  IF Len(counted) > MaxTracked THEN Tail(counted) ELSE counted

\* _build_context: the last two questions of the session, or nothing
Context(v) ==
  LET n == Len(turns[v]) IN IF n < 2 THEN <<>> ELSE SubSeq(turns[v], n - 1, n)

\* AnswerCache: everything that can change the right answer to the same words
Key(request, release) == <<request.question, request.audiences, release, request.history>>
Filed(key) == {i \in DOMAIN cache : cache[i].key = key}
Cached(key) == Filed(key) # {}
EntryAt(key) == cache[Place(Filed(key))]
Others(key) == IF Cached(key) THEN Without(cache, Place(Filed(key))) ELSE cache
Got(key) == IF Cached(key) THEN Append(Others(key), EntryAt(key)) ELSE cache
PutIn(key, made) ==
  LET entries == Append(Others(key), [key |-> key, made |-> made])
  IN  IF Len(entries) > MaxCached THEN Tail(entries) ELSE entries

----------------------------------------------------------------------------
(* A request.                                                              *)

\* the session is opened and its photographs are counted before anything is read
Accept(w) ==
  /\ Stage(w, "idle")
  /\ requests < MaxRequests
  /\ requests' = requests + 1
  /\ \E v \in Visitors, q \in Asks, a \in Allowed, n \in 0 .. MaxImages :
       /\ Goes(w, Thread("accepted",
                         [visitor |-> v, question |-> q, audiences |-> a,
                          images |-> Granted(v, n), history |-> <<>>],
                         NoRelease, <<>>, NoMade))
       /\ budget' = IF n = 0 THEN budget ELSE Taken(v, n)
  /\ UNCHANGED <<published, lock, pinned, cache, turns>>

\* _answer: what the session holds is read before the turn waits for the lock
ReadSession(w) ==
  /\ Stage(w, "accepted")
  /\ LET r == workers[w].request
     IN  Goes(w, Thread("waiting", [r EXCEPT !.history = Context(r.visitor)],
                        NoRelease, <<>>, NoMade))
  /\ UNCHANGED <<published, lock, pinned, cache, budget, turns, requests>>

(* Mutant: a turn begins without waiting for the one before it.             *)
BeginTurn_Unlocked(w) ==
  /\ Stage(w, "waiting")
  /\ pinned' = published
  /\ Goes(w, Thread("turn", workers[w].request, published, <<>>, NoMade))
  /\ UNCHANGED <<published, lock, cache, budget, turns, requests>>

\* ask_turn enters the locked snapshot, and says so for all to see
BeginTurn(w) ==
  /\ Stage(w, "waiting")
  /\ lock = Free
  /\ lock' = w
  /\ pinned' = published
  /\ Goes(w, Thread("turn", workers[w].request, published, <<>>, NoMade))
  /\ UNCHANGED <<published, cache, budget, turns, requests>>

\* answer_part asks for the snapshot of the turn when it builds the key
LookUp(w) ==
  /\ Stage(w, "turn")
  /\ LET r == workers[w]
         key == Key(r.request, pinned)
     IN  /\ cache' = Got(key)
         /\ Goes(w, IF Cached(key)
                    THEN Thread("answered", r.request, r.reads, key, EntryAt(key).made)
                    ELSE Thread("making", r.request, r.reads, key, NoMade))
  /\ UNCHANGED <<published, lock, pinned, budget, turns, requests>>

\* made from the passages the turn's own snapshot holds, for its audiences
MakeAnswer(w) ==
  /\ Stage(w, "making")
  /\ LET r == workers[w]
         made == [release |-> r.reads, audiences |-> r.request.audiences,
                  history |-> r.request.history, perceived |-> FALSE]
     IN  /\ cache' = PutIn(r.key, made)
         /\ Goes(w, Thread("made", r.request, r.reads, r.key, made))
  /\ UNCHANGED <<published, lock, pinned, budget, turns, requests>>

\* The lock is given back and the answer is told what was seen in a photograph:
\* an answer that was just made is the very object the cache holds.
EndTurn(w) ==
  /\ workers[w].stage \in {"made", "answered"}
  /\ lock' = Free
  /\ LET r == workers[w]
         told == [r.answer EXCEPT !.perceived = @ \/ r.request.images > 0]
     IN  /\ Goes(w, Thread("replied", r.request, r.reads, r.key, told))
         /\ cache' = [i \in DOMAIN cache |->
                        IF r.stage = "made" /\ cache[i].key = r.key
                        THEN [cache[i] EXCEPT !.made = told] ELSE cache[i]]
  /\ UNCHANGED <<published, pinned, budget, turns, requests>>

(* Mutant: a turn that fails keeps the lock.                                *)
FailTurn_KeepsLock(w) ==
  /\ workers[w].stage \in {"turn", "making"}
  /\ Goes(w, Idle)
  /\ UNCHANGED <<published, lock, pinned, cache, budget, turns, requests>>

\* A model or the store fails: the lock is given back.  /ask reports any
\* failure; / reports a model's or an index's, and drops the rest.
FailTurn(w) ==
  /\ workers[w].stage \in {"turn", "making"}
  /\ lock' = Free
  /\ Goes(w, Idle)
  /\ UNCHANGED <<published, pinned, cache, budget, turns, requests>>

\* _remember, and the page is sent
Respond(w) ==
  /\ Stage(w, "replied")
  /\ LET r == workers[w].request
     IN  turns' = [turns EXCEPT ![r.visitor] = Append(turns[r.visitor], r.question)]
  /\ Goes(w, Idle)
  /\ UNCHANGED <<published, lock, pinned, cache, budget, requests>>

\* another process publishes; a turn that has begun reads on as before
PublishRelease ==
  /\ published < MaxRelease
  /\ published' = published + 1
  /\ UNCHANGED <<workers, lock, pinned, cache, budget, turns, requests>>

ServerInit ==
  /\ published = 1
  /\ workers = [w \in Workers |-> Idle]
  /\ lock = Free
  /\ pinned = NoRelease
  /\ cache = <<>>
  /\ budget = <<>>
  /\ turns = [v \in Visitors |-> <<>>]
  /\ requests = 0

Proceed(w) ==
  \/ ReadSession(w) \/ BeginTurn(w) \/ LookUp(w) \/ MakeAnswer(w)
  \/ EndTurn(w) \/ FailTurn(w) \/ Respond(w)
ServerNext == PublishRelease \/ \E w \in Workers : Accept(w) \/ Proceed(w)
ServerSpec ==
  /\ ServerInit /\ [][ServerNext]_serverVars
  /\ \A w \in Workers : WF_serverVars(Proceed(w))

----------------------------------------------------------------------------
(* Properties.                                                             *)

\* Whoever made it, and whatever was published since, an answer that is given
\* was made from the release this turn reads, for this turn's audiences and
\* in this conversation's history; and the cache never holds one that is filed
\* under another release than it was made from.
AnswersAreTheTurnsOwn ==
  /\ \A w \in Workers : workers[w].stage \in {"made", "answered", "replied"} =>
       /\ workers[w].answer.release = workers[w].reads
       /\ workers[w].answer.audiences = workers[w].request.audiences
       /\ workers[w].answer.history = workers[w].request.history
  /\ \A i \in DOMAIN cache : cache[i].made.release = cache[i].key[3]

\* A thread that has accepted a request is done with it at last: the lock every
\* turn waits for is given back on every way out of a turn.
EveryRequestEnds ==
  \A w \in Workers : ~Stage(w, "idle") ~> Stage(w, "idle")
=============================================================================
