---------------------------- MODULE MCAssistant ----------------------------
(***************************************************************************)
(* The parts of the assistant that answer people, and the crawls, side by  *)
(* side on small instances.  They meet only through values (an answer, a   *)
(* cookie, a release), so a behaviour follows one of them and the others   *)
(* stay as they began.                                                     *)
(***************************************************************************)
EXTENDS TurnGraph, Answering, Perception, Server, SessionStore, Crawl, TLC

CONSTANTS MaxTurnsEntered,  \* bound: turns of the conversation
          MaxClock, MaxTold, MaxFaults, MaxReboots,  \* bounds: the session store
          MaxCrawls, MaxMishaps  \* bounds: crawls, and what befalls them

VARIABLES part,     \* the part that is followed
          entered,  \* turns that were entered
          befell    \* crawls begun, and changes, deaths and overlaps among them

parts == {"sessions", "talk", "answering", "photographs", "server", "crawls"}
mcVars == <<graphVars, answeringVars, perceptions, serverVars, sessionVars, crawlVars, part, entered, befell>>

----------------------------------------------------------------------------
(* Messages, as the detectors of the code read these texts.                *)

Plainly == [policy |-> FALSE, asksSlot |-> NoSlot, symptom |-> FALSE,
  calculation |-> FALSE, background |-> FALSE, choice |-> FALSE, property |-> FALSE,
  objective |-> NoObjective, topic |-> NoProduct, named |-> {}, compares |-> FALSE,
  weighs |-> FALSE, says |-> Nothing, denies |-> Nothing, uses |-> NoProduct, scenario |-> FALSE,
  refers |-> FALSE, asks |-> FALSE, personal |-> FALSE, short |-> FALSE, parts |-> 1,
  introduces |-> FALSE, corrects |-> FALSE, photo |-> FALSE, shows |-> Nothing]

\* "What should I use on my stone wall?"
WhichForStone == [Plainly EXCEPT !.choice = TRUE, !.asks = TRUE, !.says = ("substrate" :> "stone")]
\* "What should I use on this?", with a photograph of a damp stone wall
WhichForThis == [Plainly EXCEPT !.choice = TRUE, !.asks = TRUE, !.photo = TRUE,
                   !.shows = ("substrate" :> "stone" @@ "symptom" :> "damp")]
\* "Which plaster should I use? My wall is not brick."
WhichNotBrick == [Plainly EXCEPT !.choice = TRUE, !.asks = TRUE, !.corrects = TRUE,
                   !.denies = ("substrate" :> "brick")]
\* "My external brick wall has cracks."
BrickOutside == [Plainly EXCEPT !.short = TRUE, !.personal = TRUE, !.symptom = TRUE,
  !.says = ("substrate" :> "brick" @@ "location" :> "external")]
\* "I have another wall. It is stone.", "I have another wall. It is not brick."
AnotherWall == [Plainly EXCEPT !.says = ("substrate" :> "stone"), !.short = TRUE,
                   !.personal = TRUE, !.introduces = TRUE]
AnotherNotBrick == [Plainly EXCEPT !.denies = ("substrate" :> "brick"), !.short = TRUE,
                   !.introduces = TRUE, !.corrects = TRUE]
\* a price and, for a brick wall, a choice
HowMuchAndWhich == [Plainly EXCEPT !.policy = TRUE, !.choice = TRUE, !.asks = TRUE, !.parts = 2,
                   !.topic = "ultra", !.named = {"ultra"}, !.says = ("substrate" :> "brick")]
\* "How thick is Ultra?"
HowThick == [Plainly EXCEPT !.property = TRUE, !.asks = TRUE, !.topic = "ultra", !.named = {"ultra"}]

\* a photograph that cannot be read leaves the plain question
TheMessages == {WhichForStone, WhichForThis, WhichNotBrick, BrickOutside, AnotherWall,
                AnotherNotBrick, HowMuchAndWhich, HowThick}
TwoParts == {HowMuchAndWhich}
AskAndReply == {WhichForStone, WhichNotBrick, BrickOutside}

TheRequirement == [o \in {"plaster", NoObjective} |->
  [always |-> IF o = "plaster" THEN {"substrate", "location"} ELSE {"substrate"},
   external |-> {}, properties |-> {"substrate"}]]
TheWithin == {<<"ultra", "ultra">>, <<"solo", "solo">>}
TheCorpora ==
  {[passages |-> {[owner |-> "solo", claim |-> "stone", audience |-> "public"]},
    caveats |-> {}, rules |-> <<>>],
   [passages |-> {[owner |-> p, claim |-> s, audience |-> "public"] :
                    p \in {"ultra", "solo"}, s \in {"brick", "stone"}},
    caveats |-> {"ultra"},
    rules |-> <<[product |-> "ultra", substrate |-> "stone", interior |-> TRUE,
                 exterior |-> TRUE, recommended |-> FALSE]>>]}

----------------------------------------------------------------------------
(* Passages, questions and drafts.                                         *)

TheVocabulary ==
  [property_asked |-> [coverage |-> [terms |-> {"coverage"}, ask |-> {"far"}],
                       thickness |-> [terms |-> {"thickness"}, ask |-> {}],
                       compatibility |-> [terms |-> {"suitable"}, ask |-> {}]],
   substrate |-> [brick |-> [terms |-> {"brick"}, ask |-> {}],
                  lath |-> [terms |-> {"lath"}, ask |-> {}]],
   calculation |-> [bags |-> [terms |-> {"bags"}, ask |-> {}]],
   cause_asked |-> [why |-> [terms |-> {"why"}, ask |-> {}]]]
TheWeight == [t \in Terms |-> 1]
TheClassOf == "lath" :> "timber"
TheTopics == <<"legal", "price">>

Figure(f, q, n, on) == [figure |-> f, qualifiers |-> q, conditions |-> {}, coat |-> FALSE,
                        names |-> n, on |-> {on}, terms |-> {on}]
APassage == [url |-> "none", owner |-> NoProduct, states |-> {}, defers |-> FALSE,
             names |-> {}, facts |-> {}, claims |-> {}, relations |-> {}, audience |-> "public",
             sells |-> FALSE]
UltraSheet == [APassage EXCEPT !.url = "ultra", !.sells = TRUE, !.owner = "ultra", !.names = {"ultra"},
  !.states = {"coverage", "brick", "suitable"}, !.facts = {Figure("10", {"minimum"}, {}, "coverage")},
  !.relations = {"solo over ultra"}]
SoloSheet == [APassage EXCEPT !.url = "solo", !.owner = "solo", !.names = {"solo"},
  !.states = {"coverage", "suitable"}, !.facts = {Figure("5", {}, {}, "coverage")},
  !.claims = {<<"waterproof", "solo">>}]
DampGuide == [APassage EXCEPT !.url = "guide", !.names = {"ultra", "solo"}, !.defers = TRUE,
  !.states = {"damp", "thickness"}, !.facts = {Figure("20", {}, {"solo"}, "thickness")}]
StaffNote == [APassage EXCEPT !.url = "note", !.owner = "ultra", !.audience = "staff",
  !.states = {"damp", "thickness"}, !.facts = {Figure("30", {}, {}, "thickness")}]
TheLibrary == {UltraSheet, SoloSheet, DampGuide, StaffNote}

APart == [words |-> {}, named |-> {}, phrase |-> NoTerm, on |-> NoTerm,
  choice |-> FALSE, strong |-> FALSE, compares |-> FALSE, mine |-> FALSE, fields |-> {},
  spells |-> {}, purchase |-> FALSE, uses |-> FALSE, claims |-> {}, relations |-> {}]
TheParts ==
  {[APart EXCEPT !.words = {"coverage"}, !.named = {"ultra"}, !.fields = {"coverage"}],
   [APart EXCEPT !.words = {"bags"}, !.purchase = TRUE],
   [APart EXCEPT !.words = {"bags"}],
   [APart EXCEPT !.words = {"brick", "why"}],
   [APart EXCEPT !.words = {"damp", "thickness"}, !.named = {"ultra", "solo"}],
   [APart EXCEPT !.words = {"far", "damp"}, !.uses = TRUE, !.named = {"solo"}],
   [APart EXCEPT !.words = {"damp"}, !.choice = TRUE, !.mine = TRUE, !.strong = TRUE],
   [APart EXCEPT !.words = {"suitable", "lath"}],
   [APart EXCEPT !.words = {"suitable"}, !.on = "brick"],
   [APart EXCEPT !.words = {"damp"}, !.phrase = "thickness"],
   [APart EXCEPT !.words = {"suitable"}, !.named = {"solo"}, !.claims = {"waterproof"}],
   [APart EXCEPT !.words = {"suitable"}, !.named = {"ultra", "solo"}, !.relations = {"solo over ultra"}]}
Piece(t, i, l) == [topics |-> t, instruction |-> i, long |-> l]
TheSplits ==
  {<<Piece({}, FALSE, TRUE)>>,
   <<Piece({}, FALSE, TRUE), Piece({"price"}, FALSE, FALSE)>>,
   <<Piece({}, FALSE, TRUE), Piece({"price", "legal"}, FALSE, TRUE), Piece({}, TRUE, TRUE)>>,
   <<Piece({"legal"}, FALSE, TRUE), Piece({"price"}, FALSE, TRUE)>>}
TheContexts ==
  {[slots |-> Nothing, origins |-> Nothing],
   [slots |-> [product |-> "ultra", substrate |-> "brick"],
    origins |-> [product |-> Assumed, substrate |-> Observed]]}

Says(m, f, q, n) ==
  [Silent EXCEPT !.cites = {m}, !.figures = {f}, !.qualifiers = q, !.names = n,
                 !.leads = {[word |-> w, figure |-> f] : w \in q}]
TheDrafts ==
  {<<Says(1, "10", {"minimum"}, {"ultra"})>>,
   <<Says(2, "10", {"minimum"}, {"ultra"})>>,
   <<Says(2, "5", {}, {"solo"})>>,
   <<Says(2, "10", {}, {})>>,
   <<Says(1, "5", {}, {"ultra"})>>,
   <<Says(1, "10", {"minimum"}, {}), Says(2, "20", {}, {"solo"})>>,
   <<Says(1, "20", {}, {"solo"}), Says(2, "10", {"minimum"}, {"ultra"})>>,
   <<[Says(1, "5", {}, {"solo"}) EXCEPT !.claims = {"waterproof"}]>>,
   <<[Says(1, "10", {"minimum"}, {"ultra"}) EXCEPT !.clauses = {{"damp"}}, !.capitals = {"ghost"}]>>}

----------------------------------------------------------------------------
(* Photographs.                                                            *)

Sure(a, v) == [attribute |-> a, wording |-> v, matches |-> {v}, region |-> TRUE,
               confidence |-> [word |-> "HIGH", hundredths |-> 0]]
Rated(a, v, n) == [Sure(a, v) EXCEPT !.confidence = [word |-> "number", hundredths |-> n]]
Photo(saw) == [form |-> "json", saw |-> saw, cannot |-> {}]
ThePhotographs ==
  {Photo(<<Sure("substrate", "brick"), Sure("exposed_masonry", "yes")>>),
   Photo(<<Rated("substrate", "stone", 9500)>>),
   Photo(<<Rated("substrate", "stone", 150), Rated("existing_finish", "render", 70)>>),
   Photo(<<Sure("existing_finish", "paint"), Sure("cause", "damp"), Sure("substrate", "cob")>>),
   [Photo(<<[Sure("substrate", "brick") EXCEPT !.region = FALSE]>>) EXCEPT !.cannot = {"substrate"}],
   [Photo(<<Sure("substrate", "cob")>>) EXCEPT !.form = "cut"],
   [Photo(<<>>) EXCEPT !.form = "cut"],
   [Photo(<<>>) EXCEPT !.form = "failed"],
   Photo(<<[Sure("substrate", "brick") EXCEPT !.wording = "brick or stone", !.matches = {"brick", "stone"}]>>)}

----------------------------------------------------------------------------
(* The publisher's site: a page that links to a sheet until it changes, to *)
(* paint, or to paint in lines that end as they do in Windows.             *)

TheLinks == [b \in Bodies |-> IF b = "limewash" THEN {"sheet"} ELSE {}]
TheListings == {<<"page">>, <<"page", "page">>, <<>>}
TheGuides == <<>>
TheRobots == {{}, {"sheet"}}
TheText == [b \in Bodies |-> IF b = "paint, crlf" THEN "paint" ELSE b]
TheFiles == [page |-> "page.html", sheet |-> "sheet.pdf"]

----------------------------------------------------------------------------
(* The behaviours.                                                         *)

MCInit ==
  /\ part \in parts
  /\ entered = 0
  /\ GraphInit /\ AnsweringInit /\ PerceptionInit /\ ServerInit
  /\ SessionInit /\ (part # "sessions" => backend = "memory")
  /\ CrawlInit /\ serves = [u \in Urls |-> "limewash"]
  /\ \A u \in DOMAIN versions : versions[u].body = "paint"
  /\ part # "crawls" => versions = <<>>
  /\ befell = [begun |-> 0, mishaps |-> 0]

Talk ==
  /\ part = "talk"
  /\ \/ /\ entered < MaxTurnsEntered
        /\ entered' = entered + 1
        /\ \E t \in Threads, m \in Messages : EnterTurn(t, m)
     \/ ForgetThreads /\ UNCHANGED entered
  /\ UNCHANGED <<answeringVars, perceptions, serverVars, sessionVars, crawlVars, part, befell>>

TalkGoesOn ==
  /\ part = "talk"
  /\ Node \/ Fail
  /\ UNCHANGED <<answeringVars, perceptions, serverVars, sessionVars, crawlVars, part, entered, befell>>

Answers ==
  /\ part = "answering"
  /\ AnsweringNext
  /\ UNCHANGED <<graphVars, perceptions, serverVars, sessionVars, crawlVars, part, entered, befell>>

Photographed ==
  /\ part = "photographs"
  /\ ReadPhotograph
  /\ UNCHANGED <<graphVars, answeringVars, serverVars, sessionVars, crawlVars, part, entered, befell>>

Serves ==
  /\ part = "server"
  /\ PublishRelease \/ \E w \in Workers : Accept(w)
  /\ UNCHANGED <<graphVars, answeringVars, perceptions, sessionVars, crawlVars, part, entered, befell>>

ServerGoesOn(w) ==
  /\ part = "server"
  /\ Proceed(w)
  /\ UNCHANGED <<graphVars, answeringVars, perceptions, sessionVars, crawlVars, part, entered, befell>>

\* a turn says the substrate or leaves a question, and never the same text twice
MenuTurn(i, said) ==
  [slots |-> [s \in Slots |-> IF said THEN "brick" ELSE Unsaid],
   pending |-> IF said THEN Settled ELSE "which wall", text |-> 10 * i + Len(told[i]) + 1]
TurnsTold == FoldSet(LAMBDA i, n : n + Len(told[i]), 0, Ids)
Bearable(o) == faults + Refused(o) <= MaxFaults

Sessions ==
  /\ part = "sessions"
  /\ \/ \E presented \in minted \cup {NoSession}, i \in Ids, o \in Outcomes :
          /\ i \in minted \/ i = Cardinality(minted) + 1
          /\ Bearable(o)
          /\ Open(presented, i, o)
     \/ \E o \in Outcomes : Bearable(o) /\ Look(o)
     \/ \E i \in minted, said \in BOOLEAN, o \in Outcomes :
          Bearable(o) /\ TurnsTold < MaxTold /\ Remember(i, MenuTurn(i, said), o)
     \/ clock < MaxClock /\ Tick
     \/ memory # <<>> /\ Restart
     \/ reboots < MaxReboots /\ Reboot
  /\ UNCHANGED <<graphVars, answeringVars, perceptions, serverVars, crawlVars, part, entered, befell>>

\* bound: of what befalls crawls, whether a change of the site, a death, a page
\* listed twice, a refusal by robots.txt or a second crawl beside the first
Befalls(mishaps) ==
  /\ befell.mishaps + mishaps <= MaxMishaps
  /\ befell' = [befell EXCEPT !.mishaps = @ + mishaps]

Count(happened) == IF happened THEN 1 ELSE 0
Crawls ==
  /\ part = "crawls"
  /\ \/ SiteChanges /\ Befalls(1)
     \/ \E p \in Crawlers : Die(p) /\ Befalls(1)
     \/ \E p \in Crawlers : GoOn(p) /\ UNCHANGED befell
     \/ \E p \in Crawlers, mishaps \in 0 .. MaxMishaps :
          /\ befell.begun < MaxCrawls /\ befell.mishaps + mishaps <= MaxMishaps
          /\ Start(p)
          /\ mishaps = Count(\E q \in Crawlers : ~Crawling(q, "idle")) * 2
                       + Count(crawl'[p].refuses # {})
                       + Count(~IsInjective(crawl'[p].todo))
          /\ befell' = [begun |-> befell.begun + 1, mishaps |-> befell.mishaps + mishaps]
  /\ UNCHANGED <<graphVars, answeringVars, perceptions, serverVars, sessionVars, part, entered>>

MCNext ==
  \/ Talk \/ TalkGoesOn \/ Answers \/ Photographed \/ Sessions \/ Serves \/ Crawls
  \/ \E w \in Workers : ServerGoesOn(w)

MCSpec ==
  /\ MCInit /\ [][MCNext]_mcVars
  /\ WF_mcVars(TalkGoesOn)
  /\ \A w \in Workers : WF_mcVars(ServerGoesOn(w))
=============================================================================
