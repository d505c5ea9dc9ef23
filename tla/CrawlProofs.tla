---------------------------- MODULE CrawlProofs ----------------------------
(***************************************************************************)
(* Any number of crawls, of any site, that die anywhere: a release goes on *)
(* where the release it started from ended (CrawlsContinue).               *)
(*                                                                         *)
(* It is a property of one step, but everything it needs was settled while *)
(* the crawl walked.  Goes says what the ledger in the hands of a crawl    *)
(* owes to the one it was read from, as long as no other crawl became      *)
(* current; Told that it agrees with the log; Accounted that each URL the  *)
(* crawl was led to is still to be asked for, was recorded, was found gone *)
(* or is why the crawl fails, or that robots.txt refuses it.               *)
(***************************************************************************)
EXTENDS Crawl, FiniteSetTheorems, SequenceTheorems, TLAPS

Contents == Bodies \cup {Nowhere, Cut}
Record == [version : Int, body : Contents, etag : Contents, past : Seq(Contents),
           source : Contents, active : BOOLEAN]
Ledgers == UNION {[D -> Record] : D \in SUBSET Urls}
LogLine == [url : Urls, version : Int, body : Contents]
Release == [log : Seq(LogLine), ledger : Ledgers]

Walking == {"fetching", "writing"}
Stages == {"idle", "bundled", "pointed"} \cup Walking

CrawlOK(c, n) ==
  /\ DOMAIN c = DOMAIN NoCrawl
  /\ c.stage \in Stages
  /\ c.refuses \subseteq Urls
  /\ c.base \in 0 .. n
  /\ c.ledger \in Ledgers
  /\ c.todo \in Seq(Urls)
  /\ c.named \subseteq Urls
  /\ c.log \in Seq(LogLine)
  /\ c.failed \in BOOLEAN
  /\ c.got \in Contents
  /\ c.bundle \in 0 .. n
  /\ c.stage = "writing" => c.todo # <<>> /\ c.got \in Bodies

TypesOK ==
  /\ serves \in [Urls -> Bodies \cup {Gone}]
  /\ files \in [{FileOf[u] : u \in Urls} -> Contents]
  /\ bundles \in Seq(Release)
  /\ pointer \in 0 .. Len(bundles)
  /\ versions \in Ledgers
  /\ DOMAIN crawl = Crawlers
  /\ \A p \in Crawlers : CrawlOK(crawl[p], Len(bundles))

----------------------------------------------------------------------------
(* What a crawl has settled.                                               *)

\* a URL that was recorded
Logged(log, u) == \E i \in DOMAIN log : log[i].url = u

\* what is in the log is active in the ledger, as it was recorded last
Told(ledger, log) ==
  \A i \in DOMAIN log :
    LET u == log[i].url
    IN  /\ u \in DOMAIN ledger /\ ledger[u].active
        /\ (\A j \in DOMAIN log : log[j].url = u => j <= i) =>
             log[i].version = ledger[u].version /\ log[i].body = ledger[u].body

\* what a crawl was led to
Accounted(c) ==
  \A u \in c.named :
    u \in ToSet(c.todo) \/ Logged(c.log, u) \/ u \in c.gone \/ u \in c.refuses \/ c.failed

\* no document is lost, and none loses a body it had
Goes(new, old) ==
  \A u \in DOMAIN old : u \in DOMAIN new /\ Continues(new[u], old[u])

\* what was fetched last is active
Holds(ledger, u, body) == u \in DOMAIN ledger /\ ledger[u].active /\ ledger[u].body = body
Tells(ledger, line) ==
  /\ line.url \in DOMAIN ledger /\ ledger[line.url].active
  /\ ledger[line.url].version = line.version /\ ledger[line.url].body = line.body

\* one ledger is the other, but for a URL
Besides(new, old, u) == \A v \in DOMAIN old : v # u => v \in DOMAIN new /\ new[v] = old[v]

\* nothing is withdrawn that was named, not refused and not found gone
Withdraws(c, old) ==
  \A u \in DOMAIN old :
    old[u].active /\ ~c.ledger[u].active =>
      u \in c.gone \/ u \notin c.named \/ u \in c.refuses

Settled(p) ==
  LET c == crawl[p] IN
  /\ c.stage \in Walking => Told(c.ledger, c.log) /\ Accounted(c)
  /\ c.stage \in Walking \cup {"bundled"} /\ c.base = pointer => Goes(c.ledger, Ledger)
  /\ c.stage = "bundled" =>
       /\ c.bundle \in 1 .. Len(bundles)
       /\ bundles[c.bundle].ledger = c.ledger
       /\ Paired(bundles[c.bundle])
       /\ c.base = pointer => Withdraws(c, Ledger)
       /\ c.bundle # pointer
       /\ \A q \in Crawlers : crawl[q].base # c.bundle
       /\ \A q \in Crawlers : q # p /\ Crawling(q, "bundled") => crawl[q].bundle # c.bundle
  /\ c.stage = "pointed" => pointer # NoBundle

CrawlInv == TypesOK /\ \A p \in Crawlers : Settled(p)

----------------------------------------------------------------------------
(* Stories.                                                                *)

LEMMA PrefixDef ==
  ASSUME NEW S, NEW s \in Seq(S), NEW t \in Seq(S)
  PROVE  IsPrefix(s, t) <=> Len(s) <= Len(t) /\ \A i \in 1 .. Len(s) : s[i] = t[i]
  <1>1. CASE Len(s) <= Len(t)
    <2>1. /\ SubSeq(s, 1, Len(s)) = [i \in 1 .. Len(s) |-> s[i]]
          /\ SubSeq(t, 1, Len(s)) = [i \in 1 .. Len(s) |-> t[i]]
      BY <1>1
    <2> QED
      BY <1>1, <2>1 DEF IsPrefix
  <1> QED
    BY <1>1 DEF IsPrefix

\* a document's story goes on with its next body
LEMMA StoryFields ==
  ASSUME NEW r \in Record
  PROVE  /\ Story(r) \in Seq(Contents)
         /\ Len(Story(r)) = Len(r.past) + 1
         /\ \A i \in 1 .. Len(r.past) : Story(r)[i] = r.past[i]
         /\ Story(r)[Len(r.past) + 1] = r.body
         /\ Len(r.past) \in Nat
  BY DEF Story, Record

LEMMA ContinuesItself ==
  ASSUME NEW r \in Record, NEW s \in Record,
         s.version = r.version, s.past = r.past, s.body = r.body
  PROVE  Continues(s, r)
  <1>1. Story(s) = Story(r)
    BY DEF Story
  <1>2. IsPrefix(Story(r), Story(s))
    BY <1>1, StoryFields, PrefixDef
  <1> QED
    BY <1>2 DEF Continues, Record

LEMMA ContinuesOn ==
  ASSUME NEW r \in Record, NEW s \in Record,
         s.version = r.version + 1, s.past = Append(r.past, r.body)
  PROVE  Continues(s, r)
  <1>1. s.past = Story(r)
    BY DEF Story
  <1>2. Len(Story(s)) = Len(Story(r)) + 1
    BY <1>1, StoryFields
  <1>3. \A i \in 1 .. Len(Story(r)) : Story(s)[i] = Story(r)[i]
    BY <1>1, StoryFields
  <1>4. IsPrefix(Story(r), Story(s))
    BY <1>2, <1>3, StoryFields, PrefixDef
  <1>5. Len(s.past) = Len(r.past) + 1
    BY <1>1, StoryFields
  <1> QED
    BY <1>4, <1>5, StoryFields DEF Continues, Record

LEMMA ContinuesTwice ==
  ASSUME NEW r \in Record, NEW s \in Record, NEW t \in Record,
         Continues(s, r), Continues(t, s)
  PROVE  Continues(t, r)
  <1>1. IsPrefix(Story(r), Story(s)) /\ IsPrefix(Story(s), Story(t))
    BY DEF Continues
  <1>2. /\ Len(Story(r)) <= Len(Story(s)) /\ Len(Story(s)) <= Len(Story(t))
        /\ \A i \in 1 .. Len(Story(r)) : Story(r)[i] = Story(s)[i]
        /\ \A i \in 1 .. Len(Story(s)) : Story(s)[i] = Story(t)[i]
    BY <1>1, StoryFields, PrefixDef
  <1>3. IsPrefix(Story(r), Story(t))
    BY <1>2, StoryFields, PrefixDef
  <1> DEFINE a == r.version  b == s.version  c == t.version
             x == Len(r.past)  y == Len(s.past)  z == Len(t.past)
  <1>4. /\ a \in Int /\ b \in Int /\ c \in Int /\ x \in Int /\ y \in Int /\ z \in Int
        /\ b - a = y - x /\ c - b = z - y
    BY StoryFields DEF Continues, Record
  <1>5. c - a = z - x
    <2> HIDE DEF a, b, c, x, y, z
    <2> QED
      BY <1>4
  <1> QED
    BY <1>3, <1>5 DEF Continues

----------------------------------------------------------------------------
(* Ledgers.                                                                *)

LEMMA LedgerFields ==
  ASSUME NEW l \in Ledgers
  PROVE  /\ DOMAIN l \subseteq Urls
         /\ \A u \in DOMAIN l : l[u] \in Record
  BY DEF Ledgers

LEMMA GoesItself ==
  ASSUME NEW l \in Ledgers PROVE Goes(l, l)
  BY LedgerFields, ContinuesItself DEF Goes

LEMMA GoesTwice ==
  ASSUME NEW l \in Ledgers, NEW m \in Ledgers, NEW n \in Ledgers, Goes(m, l), Goes(n, m)
  PROVE  Goes(n, l)
  BY LedgerFields, ContinuesTwice DEF Goes

\* load_ledger fills in what is archived and nothing else
LEMMA ArchivedGood ==
  ASSUME NEW l \in Ledgers, files \in [{FileOf[u] : u \in Urls} -> Contents]
  PROVE  Archived(l) \in Ledgers /\ Goes(Archived(l), l)
  <1> DEFINE a == Archived(l)
  <1>1. DOMAIN a = DOMAIN l /\ a = [u \in DOMAIN l |-> a[u]]
    BY DEF Archived
  <1>2. ASSUME NEW u \in DOMAIN l
        PROVE  /\ a[u] \in Record
               /\ a[u].version = l[u].version /\ a[u].past = l[u].past /\ a[u].body = l[u].body
    <2>1. l[u] \in Record /\ files[FileOf[u]] \in Contents
      BY LedgerFields
    <2>2. a[u] = l[u] \/ a[u] = [l[u] EXCEPT !.source = files[FileOf[u]]]
      BY DEF Archived
    <2> QED
      BY <2>1, <2>2 DEF Record
  <1>3. a \in Ledgers
    BY <1>1, <1>2, LedgerFields DEF Ledgers
  <1> QED
    BY <1>1, <1>2, <1>3, LedgerFields, ContinuesItself DEF Goes

\* reconcile
LEMMA ReconciledGood ==
  ASSUME NEW l \in Ledgers, NEW u \in Urls, NEW body \in Contents, NEW etag \in Contents,
         NEW r, r = Reconciled(l, u, body, etag)
  PROVE  /\ r \in Ledgers /\ Holds(r, u, body)
         /\ Goes(r, l)
         /\ Besides(r, l, u)
  <1>1. DOMAIN r = DOMAIN l \cup {u} /\ r = [v \in DOMAIN l \cup {u} |-> r[v]]
    BY DEF Reconciled
  <1>2. \A v \in DOMAIN l \ {u} : r[v] = l[v]
    BY DEF Reconciled
  <1>3. /\ r[u] \in Record /\ r[u].active /\ r[u].body = body
        /\ u \in DOMAIN l => Continues(r[u], l[u])
    <2>1. CASE u \notin DOMAIN l
      <3>1. r[u] = Entry(1, body, etag, <<>>, body, TRUE)
        BY <2>1 DEF Reconciled
      <3> QED
        BY <2>1, <3>1 DEF Entry, Record
    <2>2. CASE u \in DOMAIN l /\ l[u].body = body
      <3>1. l[u] \in Record
        BY <2>2, LedgerFields
      <3>2. r[u] = Entry(l[u].version, body, IF etag = Nowhere THEN l[u].etag ELSE etag,
                         l[u].past, body, TRUE)
        BY <2>2 DEF Reconciled
      <3>3. r[u] \in Record /\ r[u].active /\ r[u].body = body
            /\ r[u].version = l[u].version /\ r[u].past = l[u].past
        BY <3>1, <3>2 DEF Entry, Record
      <3> QED
        BY <2>2, <3>1, <3>3, ContinuesItself
    <2>3. CASE u \in DOMAIN l /\ l[u].body # body
      <3>1. l[u] \in Record
        BY <2>3, LedgerFields
      <3>2. r[u] = Entry(l[u].version + 1, body, etag, Append(l[u].past, l[u].body), body, TRUE)
        BY <2>3 DEF Reconciled
      <3>3. r[u] \in Record /\ r[u].active /\ r[u].body = body
            /\ r[u].version = l[u].version + 1 /\ r[u].past = Append(l[u].past, l[u].body)
        BY <3>1, <3>2 DEF Entry, Record
      <3> QED
        BY <2>3, <3>1, <3>3, ContinuesOn
    <2> QED
      BY <2>1, <2>2, <2>3
  <1>4. r \in Ledgers
    BY <1>1, <1>2, <1>3, LedgerFields DEF Ledgers
  <1>5. Goes(r, l)
    BY <1>1, <1>2, <1>3, LedgerFields, ContinuesItself DEF Goes
  <1> QED
    BY <1>1, <1>2, <1>3, <1>4, <1>5 DEF Besides, Holds

\* withdraw_missing
LEMMA LeftOutGood ==
  ASSUME NEW l \in Ledgers, NEW log, NEW r, r = LeftOut(l, log)
  PROVE  /\ r \in Ledgers /\ DOMAIN r = DOMAIN l
         /\ Goes(r, l)
         /\ \A u \in DOMAIN l : IF Logged(log, u) THEN r[u] = l[u] ELSE ~r[u].active
  <1>1. DOMAIN r = DOMAIN l /\ r = [u \in DOMAIN l |-> r[u]]
    BY DEF LeftOut
  <1>2. ASSUME NEW u \in DOMAIN l
        PROVE  /\ r[u] \in Record
               /\ r[u].version = l[u].version /\ r[u].past = l[u].past /\ r[u].body = l[u].body
               /\ IF Logged(log, u) THEN r[u] = l[u] ELSE ~r[u].active
    <2>1. l[u] \in Record
      BY LedgerFields
    <2>2. r[u] = IF Logged(log, u) THEN l[u] ELSE [l[u] EXCEPT !.active = FALSE]
      BY DEF LeftOut, Logged
    <2> QED
      BY <2>1, <2>2 DEF Record
  <1>3. r \in Ledgers
    BY <1>1, <1>2, LedgerFields DEF Ledgers
  <1> QED
    BY <1>1, <1>2, <1>3, LedgerFields, ContinuesItself DEF Goes

----------------------------------------------------------------------------
(* One page is recorded.                                                   *)

\* the documents a page links to are asked for in any order, each once
LEMMA OrdersGood ==
  ASSUME NEW S, IsFiniteSet(S), S \subseteq Urls, NEW order \in SetToSeqs(S)
  PROVE  order \in Seq(Urls) /\ ToSet(order) = S
  <1>1. /\ order \in [1 .. Cardinality(S) -> S]
        /\ \A i, j \in 1 .. Cardinality(S) : i # j => order[i] # order[j]
    BY DEF SetToSeqs
  <1>2. Cardinality(S) \in Nat
    BY FS_CardinalityType
  <1>3. IsFiniteSet(1 .. Cardinality(S)) /\ Cardinality(1 .. Cardinality(S)) = Cardinality(S)
    BY <1>2, FS_Interval
  <1>4. order \in Injection(1 .. Cardinality(S), S)
    BY <1>1 DEF Injection, IsInjective
  <1>5. order \in Surjection(1 .. Cardinality(S), S)
    BY <1>3, <1>4, FS_Injection
  <1>6. \A u \in S : \E i \in 1 .. Cardinality(S) : order[i] = u
    BY <1>5 DEF Surjection
  <1>7. DOMAIN order = 1 .. Cardinality(S)
    BY <1>1
  <1>8. ToSet(order) = S
    BY <1>1, <1>6, <1>7 DEF ToSet
  <1> QED
    BY <1>1, <1>2, <1>8, IsASeq, SeqMonotonic

LEMMA ToSetConcat ==
  ASSUME NEW s \in Seq(Urls), NEW t \in Seq(Urls)
  PROVE  ToSet(s \o t) = ToSet(s) \cup ToSet(t)
  <1>1. /\ DOMAIN (s \o t) = 1 .. Len(s) + Len(t)
        /\ DOMAIN s = 1 .. Len(s) /\ DOMAIN t = 1 .. Len(t)
        /\ \A i \in 1 .. Len(s) : (s \o t)[i] = s[i]
        /\ \A i \in 1 .. Len(t) : (s \o t)[Len(s) + i] = t[i]
    BY ConcatProperties, LenProperties
  <1>2. ToSet(s \o t) \subseteq ToSet(s) \cup ToSet(t)
    <2> SUFFICES ASSUME NEW i \in 1 .. Len(s) + Len(t)
                 PROVE  (s \o t)[i] \in ToSet(s) \cup ToSet(t)
      BY <1>1 DEF ToSet
    <2>1. CASE i <= Len(s)
      BY <1>1, <2>1 DEF ToSet
    <2>2. CASE i > Len(s)
      <3>1. i - Len(s) \in 1 .. Len(t) /\ (s \o t)[Len(s) + (i - Len(s))] = t[i - Len(s)]
        BY <1>1, <2>2
      <3> QED
        BY <1>1, <3>1 DEF ToSet
    <2> QED
      BY <2>1, <2>2
  <1>3. ToSet(s) \subseteq ToSet(s \o t)
    BY <1>1 DEF ToSet
  <1>4. ToSet(t) \subseteq ToSet(s \o t)
    <2> SUFFICES ASSUME NEW i \in 1 .. Len(t) PROVE t[i] \in ToSet(s \o t)
      BY <1>1 DEF ToSet
    <2>1. Len(s) + i \in DOMAIN (s \o t)
      BY <1>1
    <2> QED
      BY <1>1, <2>1 DEF ToSet
  <1> QED
    BY <1>2, <1>3, <1>4

LEMMA ToSetHeadTail ==
  ASSUME NEW s \in Seq(Urls), s # <<>>
  PROVE  Head(s) \in Urls /\ Tail(s) \in Seq(Urls) /\ ToSet(s) = {Head(s)} \cup ToSet(Tail(s))
  <1>1. /\ Head(s) \in Urls /\ Tail(s) \in Seq(Urls) /\ Len(Tail(s)) = Len(s) - 1
        /\ Head(s) = s[1] /\ \A i \in 1 .. Len(Tail(s)) : Tail(s)[i] = s[i + 1]
        /\ Len(s) \in Nat \ {0}
    BY HeadTailProperties
  <1>2. DOMAIN s = 1 .. Len(s) /\ DOMAIN Tail(s) = 1 .. Len(s) - 1
    BY <1>1, LenProperties
  <1>3. ToSet(s) \subseteq {Head(s)} \cup ToSet(Tail(s))
    <2> SUFFICES ASSUME NEW i \in 1 .. Len(s), i # 1 PROVE s[i] \in ToSet(Tail(s))
      BY <1>1, <1>2 DEF ToSet
    <2>1. i - 1 \in DOMAIN Tail(s) /\ s[i] = Tail(s)[i - 1]
      BY <1>1, <1>2
    <2> QED
      BY <2>1 DEF ToSet
  <1>4. {Head(s)} \cup ToSet(Tail(s)) \subseteq ToSet(s)
    <2>1. ASSUME NEW i \in DOMAIN Tail(s) PROVE Tail(s)[i] \in ToSet(s)
      BY <1>1, <1>2 DEF ToSet
    <2>2. s[1] \in ToSet(s)
      BY <1>1, <1>2 DEF ToSet
    <2> QED
      BY <1>1, <2>1, <2>2 DEF ToSet
  <1> QED
    BY <1>1, <1>3, <1>4

\* the log and the ledger are extended together
LEMMA ToldOn ==
  ASSUME NEW l \in Ledgers, NEW log \in Seq(LogLine), Told(l, log),
         NEW r \in Ledgers, NEW line \in LogLine, Tells(r, line), Besides(r, l, line.url),
         NEW on, on = Append(log, line)
  PROVE  /\ on \in Seq(LogLine) /\ Told(r, on)
         /\ Logged(on, line.url)
         /\ \A v : Logged(log, v) => Logged(on, v)
  <1>2. /\ on \in Seq(LogLine) /\ DOMAIN on = 1 .. Len(log) + 1 /\ DOMAIN log = 1 .. Len(log)
        /\ on[Len(log) + 1] = line /\ \A i \in 1 .. Len(log) : on[i] = log[i]
        /\ Len(log) \in Nat
    BY AppendProperties, LenProperties
  <1>3. Logged(on, line.url)
    BY <1>2 DEF Logged
  <1>4. \A v : Logged(log, v) => Logged(on, v)
    BY <1>2 DEF Logged
  <1>5. ASSUME NEW i \in DOMAIN on
        PROVE  LET v == on[i].url
               IN  /\ v \in DOMAIN r /\ r[v].active
                   /\ (\A j \in DOMAIN on : on[j].url = v => j <= i) =>
                        on[i].version = r[v].version /\ on[i].body = r[v].body
    <2>1. CASE i = Len(log) + 1
      BY <1>2, <2>1 DEF Tells
    <2>2. CASE i \in 1 .. Len(log) /\ log[i].url = line.url
      <3>1. on[i].url = line.url /\ Len(log) + 1 \in DOMAIN on /\ on[Len(log) + 1].url = line.url
            /\ ~(Len(log) + 1 <= i)
        BY <1>2, <2>2
      <3> QED
        BY <3>1 DEF Tells
    <2>3. CASE i \in 1 .. Len(log) /\ log[i].url # line.url
      <3>1. on[i] = log[i] /\ i \in DOMAIN log
        BY <1>2, <2>3
      <3>2. log[i].url \in DOMAIN l /\ log[i].url \in DOMAIN r /\ r[log[i].url] = l[log[i].url]
        BY <2>3, <3>1 DEF Told, Besides
      <3>3. (\A j \in DOMAIN on : on[j].url = on[i].url => j <= i) =>
              \A j \in DOMAIN log : log[j].url = log[i].url => j <= i
        BY <1>2, <3>1
      <3> QED
        BY <3>1, <3>2, <3>3 DEF Told
    <2> QED
      BY <1>2, <2>1, <2>2, <2>3
  <1> QED
    BY <1>2, <1>3, <1>4, <1>5 DEF Told

LEMMA NoCrawlFields ==
  /\ DOMAIN NoCrawl = {"stage", "refresh", "refuses", "base", "ledger", "todo", "named", "gone", "log",
                       "failed", "got", "bundle"}
  /\ \A n \in Nat : CrawlOK(NoCrawl, n)
  /\ NoCrawl.stage = "idle" /\ NoCrawl.base = NoBundle
  <1>1. <<>> \in Ledgers
    <2>1. <<>> \in [{} -> Record]
      OBVIOUS
    <2> QED
      BY <2>1 DEF Ledgers
  <1>2. <<>> \in Seq(Urls) /\ <<>> \in Seq(LogLine)
    BY EmptySeq
  <1>3. /\ DOMAIN NoCrawl = {"stage", "refresh", "refuses", "base", "ledger", "todo", "named", "gone", "log",
                             "failed", "got", "bundle"}
        /\ NoCrawl.stage = "idle" /\ NoCrawl.refuses = {} /\ NoCrawl.base = 0 /\ NoCrawl.ledger = <<>>
        /\ NoCrawl.todo = <<>> /\ NoCrawl.named = {} /\ NoCrawl.log = <<>>
        /\ NoCrawl.failed = FALSE /\ NoCrawl.got = Nowhere /\ NoCrawl.bundle = 0
    BY DEF NoCrawl, NoBundle
  <1>4. ASSUME NEW n \in Nat PROVE CrawlOK(NoCrawl, n)
    <2>1. 0 \in 0 .. n
      OBVIOUS
    <2>2. NoCrawl.stage \in Stages /\ NoCrawl.stage # "writing"
      BY <1>3 DEF Stages, Walking
    <2>3. Nowhere \in Contents
      BY DEF Contents
    <2> QED
      BY <1>1, <1>2, <1>3, <2>1, <2>2, <2>3 DEF CrawlOK
  <1> QED
    BY <1>3, <1>4 DEF NoBundle

\* Recorded leaves a crawl that walks on and owes nothing more
LEMMA RecordedGood ==
  ASSUME TypesOK, NEW p \in Crawlers, Settled(p), crawl[p].stage \in Walking,
         crawl[p].todo # <<>>, NEW body \in Contents, NEW etag \in Contents,
         body \in Bodies \cup {Cut}, Recorded(p, body, etag)
  PROVE  \E c : /\ Becomes(p, c)
               /\ CrawlOK(c, Len(bundles))
               /\ c.stage = "fetching" /\ c.base = crawl[p].base
               /\ Told(c.ledger, c.log) /\ Accounted(c)
               /\ Goes(c.ledger, crawl[p].ledger)
  <1> DEFINE u == NextUrl(p)
             c == crawl[p]
             ledger == Reconciled(c.ledger, u, body, etag)
             linked == IF u \in Pages /\ body # Cut THEN Links[body] \ c.named ELSE {}
             line == [url |-> u, version |-> ledger[u].version, body |-> body]
             new(order) == [c EXCEPT !.stage = "fetching", !.ledger = ledger,
                                     !.todo = Tail(c.todo) \o order,
                                     !.named = c.named \cup linked,
                                     !.log = Append(c.log, line), !.got = Nowhere]
  <1>1. PICK order \in SetToSeqs(linked) : Becomes(p, new(order))
    BY DEF Recorded
  <1>2. CrawlOK(c, Len(bundles))
    BY DEF TypesOK
  <1>3. u \in Urls /\ Tail(c.todo) \in Seq(Urls) /\ ToSet(c.todo) = {u} \cup ToSet(Tail(c.todo))
    BY <1>2, ToSetHeadTail DEF CrawlOK, NextUrl
  <1>4. IsFiniteSet(linked) /\ linked \subseteq Urls
    <2>1. CASE u \in Pages /\ body # Cut
      <3>1. Links[body] \subseteq Sheets /\ IsFiniteSet(Links[body])
        BY <2>1, CrawlConstants
      <3> QED
        BY <2>1, <3>1, FS_Subset DEF Urls
    <2> QED
      BY <2>1, FS_EmptySet
  <1>5. order \in Seq(Urls) /\ ToSet(order) = linked
    BY <1>1, <1>4, OrdersGood
  <1>6. /\ ledger \in Ledgers /\ Holds(ledger, u, body)
        /\ Goes(ledger, c.ledger)
        /\ Besides(ledger, c.ledger, u)
    <2>1. c.ledger \in Ledgers
      BY <1>2 DEF CrawlOK
    <2>2. u \in Urls
      BY <1>3
    <2>3. ledger = Reconciled(c.ledger, u, body, etag)
      OBVIOUS
    <2> HIDE DEF u, c, ledger
    <2> QED
      BY <2>1, <2>2, <2>3, ReconciledGood
  <1>7. Told(c.ledger, c.log) /\ Accounted(c)
    BY DEF Settled
  <1> DEFINE on == Append(c.log, line)
  <1>8. on \in Seq(LogLine) /\ Told(ledger, on) /\ Logged(on, u)
        /\ \A v : Logged(c.log, v) => Logged(on, v)
    <2>1. c.ledger \in Ledgers /\ c.log \in Seq(LogLine) /\ u \in Urls
      BY <1>2, <1>3 DEF CrawlOK
    <2>2. line \in LogLine /\ line.url = u /\ Tells(ledger, line)
      BY <1>3, <1>6, LedgerFields DEF LogLine, Record, Tells, Holds
    <2>3. Told(c.ledger, c.log) /\ on = Append(c.log, line)
      BY <1>7
    <2> DEFINE l == c.ledger  log == c.log
    <2> HIDE DEF u, ledger, on, l, log, line
    <2>4. /\ l \in Ledgers /\ log \in Seq(LogLine) /\ Told(l, log)
          /\ ledger \in Ledgers /\ line \in LogLine /\ line.url = u
          /\ Tells(ledger, line) /\ Besides(ledger, l, line.url)
          /\ on = Append(log, line)
      BY <1>6, <2>1, <2>2, <2>3 DEF l, log
    <2>5. on \in Seq(LogLine) /\ Told(ledger, on) /\ Logged(on, line.url)
          /\ \A v : Logged(log, v) => Logged(on, v)
      BY <2>4, ToldOn
    <2> QED
      BY <2>4, <2>5 DEF log
  <1> DEFINE d == new(order)
  <1>9. /\ DOMAIN d = DOMAIN c
        /\ d.stage = "fetching" /\ d.ledger = ledger /\ d.todo = Tail(c.todo) \o order
        /\ d.named = c.named \cup linked /\ d.log = on
        /\ d.got = Nowhere /\ d.base = c.base /\ d.gone = c.gone /\ d.failed = c.failed
        /\ d.bundle = c.bundle /\ d.refuses = c.refuses
    BY <1>2, NoCrawlFields DEF CrawlOK
  <1>10. Tail(c.todo) \o order \in Seq(Urls)
         /\ ToSet(Tail(c.todo) \o order) = ToSet(Tail(c.todo)) \cup linked
    <2>1. ToSet(Tail(c.todo) \o order) = ToSet(Tail(c.todo)) \cup ToSet(order)
      BY <1>3, <1>5, ToSetConcat
    <2> QED
      BY <1>3, <1>5, <2>1, ConcatProperties
  <1>11. CrawlOK(d, Len(bundles))
    BY <1>2, <1>4, <1>6, <1>8, <1>9, <1>10 DEF CrawlOK, Stages, Walking, Contents
  <1>12. Accounted(d)
    <2> SUFFICES ASSUME NEW v \in d.named
                 PROVE  \/ v \in ToSet(d.todo) \/ Logged(d.log, v) \/ v \in d.gone
                        \/ v \in d.refuses \/ d.failed
      BY DEF Accounted
    <2>1. CASE v \in linked
      BY <1>9, <1>10, <2>1
    <2>2. CASE v \in c.named
      BY <1>3, <1>7, <1>8, <1>9, <1>10, <2>2 DEF Accounted
    <2> QED
      BY <1>9, <2>1, <2>2
  <1>13. Becomes(p, d) /\ Told(d.ledger, d.log) /\ Goes(d.ledger, c.ledger)
    BY <1>1, <1>6, <1>8, <1>9
  <1> HIDE DEF d
  <1> QED
    BY <1>9, <1>11, <1>12, <1>13

----------------------------------------------------------------------------
(* Every step.                                                             *)

LEMMA LedgerTyped ==
  ASSUME TypesOK PROVE Ledger \in Ledgers
  <1>1. CASE pointer = NoBundle
    BY <1>1 DEF TypesOK, Ledger
  <1>2. CASE pointer # NoBundle
    <2>1. pointer \in 1 .. Len(bundles)
      BY <1>2 DEF TypesOK, NoBundle
    <2>2. bundles[pointer] \in Release
      BY <2>1, ElementOfSeq DEF TypesOK
    <2> QED
      BY <1>2, <2>2 DEF Ledger, Release
  <1> QED
    BY <1>1, <1>2

\* one crawl walks, or stops, and what is published stays
LEMMA WalkGood ==
  ASSUME CrawlInv, NEW p \in Crawlers, NEW c, Becomes(p, c), CrawlOK(c, Len(bundles)),
         serves' \in [Urls -> Bodies \cup {Gone}],
         files' \in [{FileOf[u] : u \in Urls} -> Contents],
         bundles' = bundles, pointer' = pointer, versions' \in Ledgers, Ledger' = Ledger,
         c.stage \in Walking \cup {"idle"},
         c.base \in {pointer, crawl[p].base, NoBundle},
         c.stage \in Walking => Told(c.ledger, c.log) /\ Accounted(c),
         c.stage \in Walking /\ c.base = pointer => Goes(c.ledger, Ledger)
  PROVE  CrawlInv'
  <1>1. /\ DOMAIN crawl' = Crawlers /\ crawl'[p] = c
        /\ \A q \in Crawlers : q # p => crawl'[q] = crawl[q]
    BY DEF CrawlInv, TypesOK, Becomes
  <1>2. TypesOK'
    BY <1>1 DEF CrawlInv, TypesOK
  <1>3. Settled(p)'
    <2>1. c.stage # "bundled" /\ c.stage # "pointed"
      BY DEF Walking
    <2> QED
      BY <1>1, <2>1 DEF Settled
  <1>4. ASSUME NEW q \in Crawlers, q # p PROVE Settled(q)'
    <2>1. crawl'[q] = crawl[q] /\ Settled(q)
      BY <1>1, <1>4 DEF CrawlInv
    <2>2. ASSUME crawl[q].stage = "bundled"
          PROVE  /\ \A o \in Crawlers : crawl'[o].base # crawl[q].bundle
                 /\ \A o \in Crawlers : o # q /\ crawl'[o].stage = "bundled" =>
                                          crawl'[o].bundle # crawl[q].bundle
      <3>1. /\ crawl[q].bundle \in 1 .. Len(bundles) /\ crawl[q].bundle # pointer
            /\ \A o \in Crawlers : crawl[o].base # crawl[q].bundle
            /\ \A o \in Crawlers : o # q /\ crawl[o].stage = "bundled" =>
                                     crawl[o].bundle # crawl[q].bundle
        BY <2>1, <2>2 DEF Settled, Crawling
      <3>2. c.base # crawl[q].bundle
        BY <3>1 DEF NoBundle
      <3>3. c.stage # "bundled"
        BY DEF Walking
      <3> QED
        BY <1>1, <3>1, <3>2, <3>3
    <2> QED
      BY <2>1, <2>2 DEF Settled, Crawling
  <1> QED
    BY <1>2, <1>3, <1>4 DEF CrawlInv

LEMMA StopGood ==
  ASSUME CrawlInv, NEW p \in Crawlers, Becomes(p, NoCrawl),
         serves' = serves, files' = files, bundles' = bundles, pointer' = pointer,
         versions' \in Ledgers, Ledger' = Ledger
  PROVE  CrawlInv'
  <1>1. /\ Len(bundles) \in Nat
        /\ serves' \in [Urls -> Bodies \cup {Gone}]
        /\ files' \in [{FileOf[u] : u \in Urls} -> Contents]
    BY LenProperties DEF CrawlInv, TypesOK
  <1>2. /\ CrawlOK(NoCrawl, Len(bundles)) /\ NoCrawl.base = NoBundle
        /\ NoCrawl.stage = "idle" /\ NoCrawl.stage \notin Walking
    BY <1>1, NoCrawlFields DEF Walking
  <1> QED
    BY <1>1, <1>2, WalkGood

LEMMA StartGood ==
  ASSUME CrawlInv, NEW p \in Crawlers, Start(p) PROVE CrawlInv'
  <1> DEFINE new(refresh, refuses, all) ==
               [NoCrawl EXCEPT !.stage = "fetching", !.refresh = refresh,
                               !.refuses = refuses, !.base = pointer, !.ledger = Archived(Ledger),
                               !.todo = all, !.named = ToSet(all)]
  <1>1. PICK refresh \in BOOLEAN, pages \in Listings, refuses \in Robots \cup {Urls} :
          Becomes(p, new(refresh, refuses, pages \o Guides))
    BY DEF Start
  <1> DEFINE all == pages \o Guides
             c == new(refresh, refuses, all)
  <1>2. all \in Seq(Urls)
    <2>1. pages \in Seq(Urls) /\ Guides \in Seq(Urls)
      BY CrawlConstants, SeqMonotonic DEF Urls
    <2> QED
      BY <2>1, ConcatProperties
  <1>3. ToSet(all) \subseteq Urls /\ refuses \subseteq Urls
    BY <1>2, CrawlConstants, LenProperties, ElementOfSeq DEF ToSet, Urls
  <1>4. /\ DOMAIN c = DOMAIN NoCrawl
        /\ c.stage = "fetching" /\ c.base = pointer /\ c.ledger = Archived(Ledger)
        /\ c.refuses = refuses /\ c.todo = all /\ c.named = ToSet(all)
        /\ c.log = <<>> /\ c.failed = FALSE /\ c.got = Nowhere /\ c.bundle = NoBundle
    BY DEF NoCrawl
  <1>5. Archived(Ledger) \in Ledgers /\ Goes(Archived(Ledger), Ledger)
    BY LedgerTyped, ArchivedGood DEF CrawlInv, TypesOK
  <1>6. /\ serves' = serves /\ files' = files /\ bundles' = bundles /\ pointer' = pointer
        /\ versions' = versions /\ Len(bundles) \in Nat
    BY LenProperties DEF Start, CrawlInv, TypesOK
  <1>7. CrawlOK(c, Len(bundles))
    <2>1. <<>> \in Seq(LogLine) /\ Nowhere \in Contents /\ "fetching" \in Stages
          /\ pointer \in 0 .. Len(bundles) /\ NoBundle \in 0 .. Len(bundles)
      BY <1>6, EmptySeq DEF Contents, Stages, Walking, CrawlInv, TypesOK, NoBundle
    <2> HIDE DEF c, all
    <2> QED
      BY <1>2, <1>3, <1>4, <1>5, <2>1 DEF CrawlOK
  <1>8. Told(c.ledger, c.log) /\ Accounted(c)
    <2> HIDE DEF c, all
    <2>1. DOMAIN c.log = {}
      BY <1>4
    <2> QED
      BY <1>4, <2>1 DEF Told, Accounted
  <1>9. Becomes(p, c) /\ Ledger' = Ledger
        /\ serves' \in [Urls -> Bodies \cup {Gone}]
        /\ files' \in [{FileOf[u] : u \in Urls} -> Contents] /\ versions' \in Ledgers
    BY <1>1, <1>6 DEF CrawlInv, TypesOK, Ledger
  <1>10. c.stage \in Walking /\ Goes(c.ledger, Ledger)
    BY <1>4, <1>5 DEF Walking
  <1> HIDE DEF c
  <1> QED
    BY <1>4, <1>6, <1>7, <1>8, <1>9, <1>10, WalkGood

\* a page is recorded, whatever became of the files
LEMMA RecordGood ==
  ASSUME CrawlInv, NEW p \in Crawlers, crawl[p].stage \in Walking, crawl[p].todo # <<>>,
         NEW body \in Bodies \cup {Cut}, NEW etag \in Contents, Recorded(p, body, etag),
         files' \in [{FileOf[u] : u \in Urls} -> Contents],
         serves' = serves, bundles' = bundles, pointer' = pointer, versions' = versions
  PROVE  CrawlInv'
  <1>1. TypesOK /\ Settled(p) /\ body \in Contents
    BY DEF CrawlInv, Contents
  <1>2. PICK c : /\ Becomes(p, c)
                 /\ CrawlOK(c, Len(bundles))
                 /\ c.stage = "fetching" /\ c.base = crawl[p].base
                 /\ Told(c.ledger, c.log) /\ Accounted(c)
                 /\ Goes(c.ledger, crawl[p].ledger)
    BY <1>1, RecordedGood
  <1>3. c.base = pointer => Goes(c.ledger, Ledger)
    <2> SUFFICES ASSUME c.base = pointer PROVE Goes(c.ledger, Ledger)
      OBVIOUS
    <2>1. Goes(crawl[p].ledger, Ledger)
      BY <1>1, <1>2 DEF Settled
    <2>2. c.ledger \in Ledgers /\ crawl[p].ledger \in Ledgers /\ Ledger \in Ledgers
      BY <1>1, <1>2, LedgerTyped DEF CrawlOK, TypesOK
    <2> QED
      BY <1>2, <2>1, <2>2, GoesTwice
  <1>4. Ledger' = Ledger /\ serves' \in [Urls -> Bodies \cup {Gone}] /\ versions' \in Ledgers
    BY <1>1 DEF Ledger, TypesOK
  <1>5. c.stage \in Walking
    BY <1>2 DEF Walking
  <1> QED
    BY <1>2, <1>3, <1>4, <1>5, WalkGood

LEMMA NextUrlTyped ==
  ASSUME TypesOK, NEW p \in Crawlers, crawl[p].todo # <<>>
  PROVE  /\ NextUrl(p) \in Urls /\ Held(p) \in Contents
         /\ \A b \in Contents : [files EXCEPT ![FileOf[NextUrl(p)]] = b]
                                  \in [{FileOf[u] : u \in Urls} -> Contents]
  <1>1. NextUrl(p) \in Urls
    BY ToSetHeadTail DEF TypesOK, CrawlOK, NextUrl
  <1>2. files[FileOf[NextUrl(p)]] \in Contents
    BY <1>1 DEF TypesOK
  <1>3. NextUrl(p) \in DOMAIN crawl[p].ledger => crawl[p].ledger[NextUrl(p)].source \in Contents
    <2>1. crawl[p].ledger \in Ledgers
      BY DEF TypesOK, CrawlOK
    <2> QED
      BY <2>1, LedgerFields DEF Record
  <1>4. Held(p) \in Contents
    BY <1>2, <1>3, CrawlConstants DEF Held, Contents
  <1> QED
    BY <1>1, <1>4 DEF TypesOK

LEMMA TakeHeldGood ==
  ASSUME CrawlInv, NEW p \in Crawlers, TakeHeld(p) PROVE CrawlInv'
  <1>1. Held(p) # Nowhere /\ crawl[p].todo # <<>> /\ crawl[p].stage \in Walking
    BY DEF TakeHeld, MustAsk, Validates, AsksFor, Walks, Crawling, Walking
  <1>2. Held(p) \in Bodies \cup {Cut} /\ Nowhere \in Contents
    BY <1>1, NextUrlTyped DEF CrawlInv, Contents
  <1>3. PICK etag \in {Nowhere} \cup (IF MustAsk(p) THEN {serves[NextUrl(p)]} ELSE {}) :
          Recorded(p, Held(p), etag)
    BY DEF TakeHeld
  <1>4. etag \in Contents
    <2> SUFFICES ASSUME MustAsk(p) PROVE serves[NextUrl(p)] \in Contents
      BY <1>2, <1>3
    <2>1. /\ NextUrl(p) \in DOMAIN crawl[p].ledger
          /\ crawl[p].ledger[NextUrl(p)].etag = serves[NextUrl(p)]
      BY DEF TakeHeld, Validates
    <2>2. crawl[p].ledger \in Ledgers
      BY DEF CrawlInv, TypesOK, CrawlOK
    <2>3. crawl[p].ledger[NextUrl(p)] \in Record
      BY <2>1, <2>2, LedgerFields
    <2> QED
      BY <2>1, <2>3 DEF Record
  <1>5. /\ serves' = serves /\ bundles' = bundles /\ pointer' = pointer /\ versions' = versions
        /\ files' \in [{FileOf[u] : u \in Urls} -> Contents]
    BY DEF TakeHeld, CrawlInv, TypesOK
  <1> QED
    BY <1>1, <1>2, <1>3, <1>4, <1>5, RecordGood

LEMMA StoreGood ==
  ASSUME CrawlInv, NEW p \in Crawlers, Store(p) PROVE CrawlInv'
  <1>1. PICK etag \in {crawl[p].got, Nowhere} : Recorded(p, crawl[p].got, etag)
    BY DEF Store
  <1>2. crawl[p].todo # <<>> /\ crawl[p].got \in Bodies /\ crawl[p].stage \in Walking
    BY DEF Store, CrawlInv, TypesOK, CrawlOK, Crawling, Walking
  <1>3. etag \in Contents /\ crawl[p].got \in Contents /\ crawl[p].got \in Bodies \cup {Cut}
    BY <1>2 DEF Contents
  <1>4. files' \in [{FileOf[u] : u \in Urls} -> Contents]
    BY <1>2, <1>3, NextUrlTyped DEF Store, CrawlInv
  <1>5. serves' = serves /\ bundles' = bundles /\ pointer' = pointer /\ versions' = versions
    BY DEF Store
  <1> QED
    BY <1>1, <1>2, <1>3, <1>4, <1>5, RecordGood

\* a step of a walk that records nothing
LEMMA OnlyGood ==
  ASSUME CrawlInv, NEW p \in Crawlers, crawl[p].stage = "fetching", NEW c, Becomes(p, c),
         CrawlOK(c, Len(bundles)), c.stage \in Walking,
         c.base = crawl[p].base, c.ledger = crawl[p].ledger, c.log = crawl[p].log,
         Accounted(c),
         files' \in [{FileOf[u] : u \in Urls} -> Contents],
         serves' = serves, bundles' = bundles, pointer' = pointer, versions' = versions
  PROVE  CrawlInv'
  <1>1. TypesOK /\ Settled(p)
    BY DEF CrawlInv
  <1>2. /\ Told(c.ledger, c.log)
        /\ c.base = pointer => Goes(c.ledger, Ledger)
    BY <1>1 DEF Settled, Walking
  <1>3. Ledger' = Ledger /\ serves' \in [Urls -> Bodies \cup {Gone}] /\ versions' \in Ledgers
    BY <1>1 DEF Ledger, TypesOK
  <1> QED
    BY <1>2, <1>3, WalkGood

LEMMA DownloadGood ==
  ASSUME CrawlInv, NEW p \in Crawlers, Download(p) PROVE CrawlInv'
  <1> DEFINE c == [crawl[p] EXCEPT !.stage = "writing", !.got = serves[NextUrl(p)]]
  <1>1. Becomes(p, c) /\ crawl[p].stage = "fetching" /\ crawl[p].todo # <<>>
    BY DEF Download, AsksFor, Walks, Crawling
  <1>2. TypesOK /\ CrawlOK(crawl[p], Len(bundles)) /\ Settled(p)
    BY DEF CrawlInv, TypesOK
  <1>3. serves[NextUrl(p)] \in Bodies
    BY <1>1, <1>2, NextUrlTyped DEF Download, TypesOK
  <1>4. /\ DOMAIN c = DOMAIN crawl[p]
        /\ c.stage = "writing" /\ c.got \in Bodies
        /\ c.base = crawl[p].base /\ c.ledger = crawl[p].ledger /\ c.todo = crawl[p].todo
        /\ c.named = crawl[p].named /\ c.gone = crawl[p].gone /\ c.log = crawl[p].log
        /\ c.failed = crawl[p].failed /\ c.bundle = crawl[p].bundle
        /\ c.refuses = crawl[p].refuses
    BY <1>2, <1>3, NoCrawlFields DEF CrawlOK
  <1>5. c.stage \in Walking
    BY <1>4 DEF Walking
  <1>6. CrawlOK(c, Len(bundles)) /\ Accounted(c)
    <2>1. Accounted(crawl[p])
      BY <1>1, <1>2 DEF Settled, Walking
    <2> HIDE DEF c
    <2>2. Accounted(c)
      BY <1>4, <2>1 DEF Accounted
    <2>3. CrawlOK(c, Len(bundles))
      BY <1>1, <1>2, <1>4, <1>5 DEF CrawlOK, Stages, Contents
    <2> QED
      BY <2>2, <2>3
  <1>7. files' \in [{FileOf[u] : u \in Urls} -> Contents]
    BY <1>1, <1>2, NextUrlTyped DEF Download, Contents
  <1>8. serves' = serves /\ bundles' = bundles /\ pointer' = pointer /\ versions' = versions
    BY DEF Download
  <1> HIDE DEF c
  <1> QED
    BY <1>1, <1>4, <1>5, <1>6, <1>7, <1>8, OnlyGood

\* it is given up, with the reason, or passed over
LEMMA GivenUpGood ==
  ASSUME CrawlInv, NEW p \in Crawlers, Skip(p) \/ NotFound(p) \/ NoReply(p) PROVE CrawlInv'
  <1> DEFINE g == [crawl[p] EXCEPT !.todo = Tail(@), !.gone = @ \cup {NextUrl(p)}]
             f == [crawl[p] EXCEPT !.todo = Tail(@), !.failed = TRUE]
             s == [crawl[p] EXCEPT !.todo = Tail(@)]
  <1>1. PICK c \in {f, g, s} :
          Becomes(p, c) /\ (c = s => NextUrl(p) \in crawl[p].refuses \/ c \in {f, g})
    BY DEF Skip, NotFound, NoReply
  <1>2. /\ crawl[p].stage = "fetching" /\ crawl[p].todo # <<>>
        /\ serves' = serves /\ files' = files
        /\ bundles' = bundles /\ pointer' = pointer /\ versions' = versions
    BY DEF Skip, NotFound, NoReply, AsksFor, Walks, Crawling
  <1>3. TypesOK /\ CrawlOK(crawl[p], Len(bundles)) /\ Settled(p)
    BY DEF CrawlInv, TypesOK
  <1>4. /\ DOMAIN c = DOMAIN crawl[p]
        /\ c.stage = "fetching" /\ c.todo = Tail(crawl[p].todo)
        /\ c.base = crawl[p].base /\ c.ledger = crawl[p].ledger
        /\ c.named = crawl[p].named /\ c.log = crawl[p].log
        /\ c.got = crawl[p].got /\ c.bundle = crawl[p].bundle
        /\ c.failed \in BOOLEAN /\ crawl[p].failed \in BOOLEAN /\ (crawl[p].failed => c.failed)
        /\ crawl[p].gone \subseteq c.gone
        /\ c.refuses = crawl[p].refuses
        /\ NextUrl(p) \in c.gone \/ c.failed \/ NextUrl(p) \in c.refuses
    BY <1>1, <1>2, <1>3, NoCrawlFields DEF CrawlOK
  <1>5. /\ Tail(crawl[p].todo) \in Seq(Urls)
        /\ ToSet(crawl[p].todo) = {NextUrl(p)} \cup ToSet(Tail(crawl[p].todo))
    BY <1>2, <1>3, ToSetHeadTail DEF CrawlOK, NextUrl
  <1>6. Accounted(crawl[p])
    BY <1>2, <1>3 DEF Settled, Walking
  <1>7. Accounted(c)
    <2> HIDE DEF f, g, s
    <2> QED
      BY <1>4, <1>5, <1>6 DEF Accounted
  <1>8. CrawlOK(c, Len(bundles)) /\ c.stage \in Walking
    <2>1. c.stage # "writing" /\ c.stage \in Walking /\ c.stage \in Stages
      BY <1>4 DEF Walking, Stages
    <2>2. c.failed \in BOOLEAN
      BY <1>4
    <2> HIDE DEF f, g, s
    <2> QED
      BY <1>3, <1>4, <1>5, <2>1, <2>2 DEF CrawlOK
  <1>9. files' \in [{FileOf[u] : u \in Urls} -> Contents]
    BY <1>2, <1>3 DEF TypesOK
  <1> HIDE DEF f, g, s
  <1> QED
    BY <1>1, <1>2, <1>4, <1>7, <1>8, <1>9, OnlyGood

LEMMA BundleGood ==
  ASSUME CrawlInv, NEW p \in Crawlers, Bundle(p) PROVE CrawlInv'
  <1> DEFINE l == LeftOut(crawl[p].ledger, crawl[p].log)
             n == Len(bundles) + 1
             c == [crawl[p] EXCEPT !.stage = "bundled", !.ledger = l, !.bundle = n]
             release == [log |-> crawl[p].log, ledger |-> l]
  <1>1. TypesOK /\ CrawlOK(crawl[p], Len(bundles)) /\ Settled(p)
    BY DEF CrawlInv, TypesOK
  <1>2. /\ crawl[p].stage = "fetching" /\ crawl[p].todo = <<>>
        /\ serves' = serves /\ files' = files /\ pointer' = pointer /\ versions' = versions
    BY DEF Bundle, Crawling
  <1>3. CASE crawl[p].failed
    <2>1. Becomes(p, NoCrawl) /\ bundles' = bundles
      BY <1>3 DEF Bundle
    <2>2. versions' \in Ledgers /\ Ledger' = Ledger
      BY <1>1, <1>2, <2>1 DEF TypesOK, Ledger
    <2> QED
      BY <1>2, <2>1, <2>2, StopGood
  <1>4. CASE ~crawl[p].failed
    <2>1. Becomes(p, c) /\ bundles' = Append(bundles, release)
      BY <1>4 DEF Bundle
    <2>2. l \in Ledgers /\ DOMAIN l = DOMAIN crawl[p].ledger
          /\ Goes(l, crawl[p].ledger)
          /\ \A u \in DOMAIN l : IF Logged(crawl[p].log, u) THEN l[u] = crawl[p].ledger[u]
                                                            ELSE ~l[u].active
      <3>1. crawl[p].ledger \in Ledgers
        BY <1>1 DEF CrawlOK
      <3> DEFINE m == crawl[p].ledger  log == crawl[p].log
      <3>2. m \in Ledgers /\ l = LeftOut(m, log)
        BY <3>1
      <3> HIDE DEF l, m, log
      <3>3. l \in Ledgers /\ DOMAIN l = DOMAIN m /\ Goes(l, m)
            /\ \A u \in DOMAIN m : IF Logged(log, u) THEN l[u] = m[u] ELSE ~l[u].active
        BY <3>2, LeftOutGood
      <3> QED
        BY <3>3 DEF m, log
    <2>3. Told(crawl[p].ledger, crawl[p].log) /\ Accounted(crawl[p])
      BY <1>1, <1>2 DEF Settled, Walking
    <2>4. Paired(release)
      <3> DEFINE m == crawl[p].ledger  log == crawl[p].log
      <3>1. ASSUME NEW u \in DOMAIN l
            PROVE  LET times == {i \in DOMAIN log : log[i].url = u}
                   IN  /\ l[u].active <=> times # {}
                       /\ \A i \in times : (\A j \in times : j <= i) =>
                            log[i].version = l[u].version /\ log[i].body = l[u].body
        <4>1. CASE Logged(log, u)
          <5>1. l[u] = m[u] /\ Told(m, log)
            BY <2>2, <2>3, <4>1
          <5>2. l[u].active
            BY <4>1, <5>1 DEF Logged, Told
          <5>3. {i \in DOMAIN log : log[i].url = u} # {}
            BY <4>1 DEF Logged
          <5>4. ASSUME NEW i \in DOMAIN log, log[i].url = u,
                       \A j \in {k \in DOMAIN log : log[k].url = u} : j <= i
                PROVE  log[i].version = l[u].version /\ log[i].body = l[u].body
            <6>1. \A j \in DOMAIN log : log[j].url = log[i].url => j <= i
              BY <5>4
            <6> HIDE DEF l, m, log
            <6> QED
              BY <5>1, <5>4, <6>1 DEF Told
          <5> QED
            BY <5>2, <5>3, <5>4
        <4>2. CASE ~Logged(log, u)
          BY <2>2, <4>2 DEF Logged
        <4> QED
          BY <4>1, <4>2
      <3>2. release.log = log /\ release.ledger = l
        OBVIOUS
      <3> HIDE DEF l, log, release
      <3> QED
        BY <3>1, <3>2 DEF Paired
    <2>5. release \in Release
      BY <1>1, <2>2 DEF Release, CrawlOK
    <2>6. /\ bundles' \in Seq(Release) /\ Len(bundles') = n /\ bundles'[n] = release
          /\ \A i \in 1 .. Len(bundles) : bundles'[i] = bundles[i]
          /\ Len(bundles) \in Nat
      BY <1>1, <2>1, <2>5, AppendProperties, LenProperties DEF TypesOK
    <2>7. /\ DOMAIN c = DOMAIN crawl[p]
          /\ c.stage = "bundled" /\ c.ledger = l /\ c.bundle = n
          /\ c.base = crawl[p].base /\ c.todo = crawl[p].todo /\ c.named = crawl[p].named
          /\ c.gone = crawl[p].gone /\ c.log = crawl[p].log /\ c.got = crawl[p].got
          /\ c.failed = crawl[p].failed /\ c.refuses = crawl[p].refuses
      BY <1>1, NoCrawlFields DEF CrawlOK
    <2>8. Ledger' = Ledger
      <3>1. pointer \in 0 .. Len(bundles)
        BY <1>1 DEF TypesOK
      <3> QED
        BY <1>2, <2>6, <3>1 DEF Ledger, NoBundle
    <2>9. /\ DOMAIN crawl' = Crawlers /\ crawl'[p] = c
          /\ \A q \in Crawlers : q # p => crawl'[q] = crawl[q]
      BY <1>1, <2>1 DEF TypesOK, Becomes
    <2>10. TypesOK'
      <3>1. CrawlOK(c, n)
        <4>1. "bundled" \in Stages
          BY DEF Stages
        <4> HIDE DEF c, l
        <4> QED
          BY <1>1, <2>2, <2>6, <2>7, <4>1 DEF CrawlOK
      <3>2. \A q \in Crawlers : CrawlOK(crawl[q], n)
        <4>1. \A q \in Crawlers : CrawlOK(crawl[q], Len(bundles))
          BY <1>1 DEF TypesOK
        <4> QED
          BY <2>6, <4>1 DEF CrawlOK
      <3> HIDE DEF c, l, n, release
      <3>3. pointer \in 0 .. n
        BY <1>1, <2>6 DEF TypesOK, n
      <3> QED
        BY <1>1, <1>2, <2>6, <2>9, <3>1, <3>2, <3>3 DEF TypesOK
    <2>11. /\ \A q \in Crawlers : crawl'[q].base = crawl[q].base /\ crawl[q].base # n
           /\ pointer # n
           /\ \A q \in Crawlers : crawl[q].bundle # n
      <3>1. \A q \in Crawlers : crawl'[q].base = crawl[q].base
        <4>1. crawl'[p].base = crawl[p].base
          BY <2>7, <2>9
        <4> HIDE DEF c
        <4> QED
          BY <2>9, <4>1
      <3>2. pointer # n
        BY <1>1, <2>6 DEF TypesOK
      <3>3. ASSUME NEW q \in Crawlers PROVE crawl[q].base # n /\ crawl[q].bundle # n
        <4>1. crawl[q].base \in 0 .. Len(bundles) /\ crawl[q].bundle \in 0 .. Len(bundles)
          BY <1>1 DEF TypesOK, CrawlOK
        <4> QED
          BY <2>6, <4>1
      <3> QED
        BY <3>1, <3>2, <3>3
    <2>12. c.base = pointer => Goes(c.ledger, Ledger) /\ Withdraws(c, Ledger)
      <3> SUFFICES ASSUME c.base = pointer
                   PROVE  Goes(c.ledger, Ledger) /\ Withdraws(c, Ledger)
        OBVIOUS
      <3> DEFINE m == crawl[p].ledger
      <3>1. Goes(m, Ledger)
        BY <1>1, <1>2, <2>7 DEF Settled, Walking
      <3>2. m \in Ledgers /\ Ledger \in Ledgers
        BY <1>1, LedgerTyped DEF CrawlOK
      <3>3. Goes(l, Ledger)
        BY <2>2, <3>1, <3>2, GoesTwice
      <3>4. ASSUME NEW u \in DOMAIN Ledger, ~l[u].active, u \in c.named
            PROVE  u \in c.gone \/ u \in c.refuses
        <4>1. u \in DOMAIN l
          BY <2>2, <3>1 DEF Goes
        <4>2. ~Logged(c.log, u)
          <5> SUFFICES ASSUME Logged(c.log, u) PROVE FALSE
            OBVIOUS
          <5>1. l[u] = m[u]
            BY <2>2, <2>7, <4>1
          <5>2. m[u].active
            BY <2>3, <2>7 DEF Logged, Told
          <5> QED
            BY <3>4, <5>1, <5>2
        <4>3. u \notin ToSet(crawl[p].todo)
          BY <1>2 DEF ToSet
        <4> QED
          BY <1>4, <2>3, <2>7, <3>4, <4>2, <4>3 DEF Accounted
      <3> HIDE DEF c, l
      <3> QED
        BY <2>7, <3>3, <3>4 DEF Withdraws
    <2>13. Settled(p)'
      <3> HIDE DEF c, l, release
      <3>1. n \in 1 .. n
        BY <2>6
      <3> HIDE DEF n
      <3>2. \A q \in Crawlers : q # p /\ crawl'[q].stage = "bundled" => crawl'[q].bundle # n
        BY <2>9, <2>11
      <3>3. c.stage \notin Walking /\ c.stage # "pointed"
        BY <2>7 DEF Walking
      <3>4. bundles'[c.bundle].ledger = c.ledger /\ Paired(bundles'[c.bundle])
        BY <2>4, <2>6, <2>7 DEF release
      <3>5. (c.base = pointer') => Withdraws(c, Ledger') /\ Goes(c.ledger, Ledger')
        BY <1>2, <2>8, <2>12
      <3>6. \A q \in Crawlers : crawl'[q].base # n
        BY <2>11
      <3> QED
        BY <1>2, <2>6, <2>7, <2>9, <2>11, <3>1, <3>2, <3>3, <3>4, <3>5, <3>6
           DEF Settled, Crawling
    <2>14. ASSUME NEW q \in Crawlers, q # p PROVE Settled(q)'
      <3>1. Settled(q) /\ crawl'[q] = crawl[q]
        BY <2>9, <2>14 DEF CrawlInv
      <3>2. ASSUME crawl[q].stage = "bundled"
            PROVE  /\ crawl[q].bundle \in 1 .. Len(bundles')
                   /\ bundles'[crawl[q].bundle] = bundles[crawl[q].bundle]
                   /\ \A o \in Crawlers : crawl'[o].base # crawl[q].bundle
                   /\ \A o \in Crawlers : o # q /\ crawl'[o].stage = "bundled" =>
                                            crawl'[o].bundle # crawl[q].bundle
        <4>1. /\ crawl[q].bundle \in 1 .. Len(bundles)
              /\ \A o \in Crawlers : crawl[o].base # crawl[q].bundle
              /\ \A o \in Crawlers : o # q /\ crawl[o].stage = "bundled" =>
                                       crawl[o].bundle # crawl[q].bundle
          BY <3>1, <3>2 DEF Settled, Crawling
        <4>2. crawl[q].bundle \in 1 .. Len(bundles') /\ c.bundle # crawl[q].bundle
              /\ bundles'[crawl[q].bundle] = bundles[crawl[q].bundle]
          BY <2>6, <2>7, <2>11, <4>1
        <4> HIDE DEF c
        <4> QED
          BY <2>9, <2>11, <4>1, <4>2
      <3> QED
        BY <1>2, <2>8, <3>1, <3>2 DEF Settled, Crawling
    <2> QED
      BY <2>10, <2>13, <2>14 DEF CrawlInv
  <1> QED
    BY <1>1, <1>3, <1>4

LEMMA PointGood ==
  ASSUME CrawlInv, NEW p \in Crawlers, Point(p) PROVE CrawlInv'
  <1> DEFINE c == [crawl[p] EXCEPT !.stage = "pointed"]
             k == crawl[p].bundle
  <1>1. TypesOK /\ Settled(p) /\ CrawlOK(crawl[p], Len(bundles)) /\ Len(bundles) \in Nat
    BY LenProperties DEF CrawlInv, TypesOK
  <1>2. /\ crawl[p].stage = "bundled" /\ pointer' = k /\ Becomes(p, c)
        /\ serves' = serves /\ files' = files /\ bundles' = bundles /\ versions' = versions
    BY DEF Point, Crawling
  <1>3. /\ k \in 1 .. Len(bundles)
        /\ \A q \in Crawlers : crawl[q].base # k
        /\ \A q \in Crawlers : q # p /\ crawl[q].stage = "bundled" => crawl[q].bundle # k
    BY <1>1, <1>2 DEF Settled, Crawling
  <1>4. /\ DOMAIN c = DOMAIN crawl[p] /\ c.stage = "pointed"
        /\ c.base = crawl[p].base /\ c.ledger = crawl[p].ledger /\ c.bundle = crawl[p].bundle
        /\ c.todo = crawl[p].todo /\ c.named = crawl[p].named
        /\ c.gone = crawl[p].gone /\ c.log = crawl[p].log /\ c.got = crawl[p].got
        /\ c.failed = crawl[p].failed /\ c.refuses = crawl[p].refuses
    BY <1>1, NoCrawlFields DEF CrawlOK
  <1>5. /\ DOMAIN crawl' = Crawlers /\ crawl'[p] = c
        /\ \A q \in Crawlers : q # p => crawl'[q] = crawl[q]
    BY <1>1, <1>2 DEF TypesOK, Becomes
  <1>6. TypesOK'
    <2>1. CrawlOK(c, Len(bundles))
      <3>1. "pointed" \in Stages
        BY DEF Stages
      <3> HIDE DEF c
      <3> QED
        BY <1>1, <1>4, <3>1 DEF CrawlOK
    <2>2. pointer' \in 0 .. Len(bundles)
      BY <1>1, <1>2, <1>3
    <2> HIDE DEF c
    <2> QED
      BY <1>1, <1>2, <1>5, <2>1, <2>2 DEF TypesOK
  <1>7. Settled(p)'
    <2>1. c.stage \notin Walking \cup {"bundled"} /\ pointer' # NoBundle
      BY <1>1, <1>2, <1>3, <1>4 DEF Walking, NoBundle
    <2> HIDE DEF c, k
    <2> QED
      BY <1>5, <2>1 DEF Settled
  <1>8. ASSUME NEW q \in Crawlers, q # p PROVE Settled(q)'
    <2>1. Settled(q) /\ crawl'[q] = crawl[q]
      BY <1>5, <1>8 DEF CrawlInv
    <2>2. crawl[q].base # pointer'
      BY <1>2, <1>3
    <2>3. ASSUME crawl[q].stage = "bundled"
          PROVE  /\ crawl[q].bundle # pointer'
                 /\ \A o \in Crawlers : crawl'[o].base # crawl[q].bundle
                 /\ \A o \in Crawlers : o # q /\ crawl'[o].stage = "bundled" =>
                                          crawl'[o].bundle # crawl[q].bundle
      <3>1. /\ \A o \in Crawlers : crawl[o].base # crawl[q].bundle
            /\ \A o \in Crawlers : o # q /\ crawl[o].stage = "bundled" =>
                                     crawl[o].bundle # crawl[q].bundle
        BY <2>1, <2>3 DEF Settled, Crawling
      <3> HIDE DEF c
      <3> QED
        BY <1>2, <1>3, <1>4, <1>5, <1>8, <2>3, <3>1
    <2> HIDE DEF c, k
    <2> QED
      BY <1>1, <1>2, <1>3, <2>1, <2>2, <2>3 DEF Settled, Crawling, NoBundle, k
  <1> QED
    BY <1>6, <1>7, <1>8 DEF CrawlInv

LEMMA ReportGood ==
  ASSUME CrawlInv, NEW p \in Crawlers, Report(p) PROVE CrawlInv'
  <1>1. pointer # NoBundle /\ crawl[p].ledger \in Ledgers
    BY DEF Report, CrawlInv, TypesOK, CrawlOK, Settled, Crawling
  <1>2. /\ Becomes(p, NoCrawl) /\ serves' = serves /\ files' = files
        /\ bundles' = bundles /\ pointer' = pointer /\ versions' = crawl[p].ledger
    BY DEF Report
  <1>3. Ledger' = Ledger
    BY <1>1, <1>2 DEF Ledger
  <1> QED
    BY <1>1, <1>2, <1>3, StopGood

LEMMA DieGood ==
  ASSUME CrawlInv, NEW p \in Crawlers, Die(p) PROVE CrawlInv'
  <1>1. Becomes(p, NoCrawl) /\ UNCHANGED <<serves, files, bundles, pointer, versions>>
    BY DEF Die
  <1>2. versions' \in Ledgers /\ Ledger' = Ledger
    BY <1>1 DEF CrawlInv, TypesOK, Ledger
  <1> QED
    BY <1>1, <1>2, StopGood

\* the publisher, and a step of something else
LEMMA ElsewhereGood ==
  ASSUME CrawlInv, SiteChanges \/ UNCHANGED crawlVars PROVE CrawlInv'
  <1>1. UNCHANGED <<files, bundles, pointer, versions, crawl>>
    BY DEF SiteChanges, crawlVars
  <1>2. serves' \in [Urls -> Bodies \cup {Gone}]
    BY DEF CrawlInv, TypesOK, SiteChanges, crawlVars
  <1>3. TypesOK'
    BY <1>1, <1>2 DEF CrawlInv, TypesOK
  <1>4. Ledger' = Ledger
    BY <1>1 DEF Ledger
  <1>5. ASSUME NEW p \in Crawlers PROVE Settled(p)'
    BY <1>1, <1>4 DEF CrawlInv, Settled, Crawling
  <1> QED
    BY <1>3, <1>5 DEF CrawlInv

LEMMA CrawlInitGood == CrawlInit => CrawlInv
  <1> SUFFICES ASSUME CrawlInit PROVE CrawlInv
    OBVIOUS
  <1>1. versions \in Ledgers
    <2>1. PICK old \in SUBSET Pages, b \in Bodies :
            versions = [u \in old |-> Entry(2, b, Nowhere, <<>>, Nowhere, TRUE)]
      BY DEF CrawlInit
    <2>2. Entry(2, b, Nowhere, <<>>, Nowhere, TRUE) \in Record
      BY EmptySeq DEF Entry, Record, Contents
    <2>3. old \in SUBSET Urls
      BY DEF Urls
    <2>4. versions \in [old -> Record]
      BY <2>1, <2>2
    <2> QED
      BY <2>3, <2>4 DEF Ledgers
  <1>2. bundles \in Seq(Release) /\ pointer \in 0 .. Len(bundles) /\ Len(bundles) = 0
    BY EmptySeq DEF CrawlInit, NoBundle
  <1>3. /\ serves \in [Urls -> Bodies \cup {Gone}]
        /\ files \in [{FileOf[u] : u \in Urls} -> Contents]
    BY DEF CrawlInit, Contents
  <1>4. DOMAIN crawl = Crawlers /\ \A p \in Crawlers : crawl[p] = NoCrawl
    BY DEF CrawlInit
  <1>5. CrawlOK(NoCrawl, Len(bundles)) /\ NoCrawl.stage = "idle"
    BY <1>2, NoCrawlFields
  <1>6. TypesOK
    BY <1>1, <1>2, <1>3, <1>4, <1>5 DEF TypesOK
  <1>7. ASSUME NEW p \in Crawlers PROVE Settled(p)
    BY <1>4, <1>5 DEF Settled, Walking
  <1> QED
    BY <1>6, <1>7 DEF CrawlInv

\* What every crawl has settled, wherever the others are and whatever died: what
\* the ledger in its hands owes the current one and the log, that whatever it was
\* led to was recorded, gone, refused or is why it fails, and that no other crawl
\* names or started from its bundle.
THEOREM CrawlInvariant == CrawlSpec => []CrawlInv
  <1>1. CrawlInv /\ [CrawlNext]_crawlVars => CrawlInv'
    <2> SUFFICES ASSUME CrawlInv, [CrawlNext]_crawlVars PROVE CrawlInv'
      OBVIOUS
    <2>1. CASE SiteChanges \/ UNCHANGED crawlVars
      BY <2>1, ElsewhereGood
    <2>2. CASE \E p \in Crawlers : Start(p) \/ GoOn(p) \/ Die(p)
      <3>1. PICK p \in Crawlers : Start(p) \/ GoOn(p) \/ Die(p)
        BY <2>2
      <3>2. CASE Start(p)
        BY <3>2, StartGood
      <3>3. CASE Die(p)
        BY <3>3, DieGood
      <3>4. CASE TakeHeld(p)
        BY <3>4, TakeHeldGood
      <3>5. CASE Download(p)
        BY <3>5, DownloadGood
      <3>6. CASE Store(p)
        BY <3>6, StoreGood
      <3>7. CASE Skip(p) \/ NotFound(p) \/ NoReply(p)
        BY <3>7, GivenUpGood
      <3>8. CASE Bundle(p)
        BY <3>8, BundleGood
      <3>9. CASE Point(p)
        BY <3>9, PointGood
      <3>10. CASE Report(p)
        BY <3>10, ReportGood
      <3> QED
        BY <3>1, <3>2, <3>3, <3>4, <3>5, <3>6, <3>7, <3>8, <3>9, <3>10 DEF GoOn
    <2> QED
      BY <2>1, <2>2 DEF CrawlNext
  <1> QED
    BY CrawlInitGood, <1>1, PTL DEF CrawlSpec

\* A crawl that becomes current replaces the release it started from by one that
\* goes on, for any number of crawls over any site: no version, no body and no
\* document is lost on the way, and none is withdrawn that was
\* named, unless it was gone or robots.txt, read anew, was silent or refused it.
THEOREM ReleasesContinue == CrawlSpec => CrawlsContinue
  <1>1. ASSUME CrawlInv, NEW p \in Crawlers, Point(p)
        PROVE  LET new == bundles[crawl[p].bundle]
                   old == IF pointer = NoBundle THEN versions ELSE bundles[pointer].ledger
               IN  /\ Paired(new)
                   /\ crawl[p].base = pointer =>
                        \A u \in DOMAIN old :
                          /\ u \in DOMAIN new.ledger /\ Continues(new.ledger[u], old[u])
                          /\ old[u].active /\ ~new.ledger[u].active =>
                               \/ u \in crawl[p].gone \/ u \notin crawl[p].named
                               \/ u \in crawl[p].refuses
    <2>1. Settled(p) /\ crawl[p].stage = "bundled"
      BY <1>1 DEF CrawlInv, Point, Crawling
    <2>2. /\ bundles[crawl[p].bundle].ledger = crawl[p].ledger
          /\ Paired(bundles[crawl[p].bundle])
          /\ crawl[p].base = pointer => Goes(crawl[p].ledger, Ledger) /\ Withdraws(crawl[p], Ledger)
      BY <2>1 DEF Settled
    <2> QED
      BY <2>2 DEF Ledger, Goes, Withdraws
  <1>2. CrawlInv /\ [CrawlNext]_crawlVars =>
          [\A p \in Crawlers : Point(p) =>
             LET new == bundles[crawl[p].bundle]
                 old == IF pointer = NoBundle THEN versions ELSE bundles[pointer].ledger
             IN  /\ Paired(new)
                 /\ crawl[p].base = pointer =>
                      \A u \in DOMAIN old :
                        /\ u \in DOMAIN new.ledger /\ Continues(new.ledger[u], old[u])
                        /\ old[u].active /\ ~new.ledger[u].active =>
                             \/ u \in crawl[p].gone \/ u \notin crawl[p].named
                             \/ u \in crawl[p].refuses]_crawlVars
    BY <1>1
  <1> QED
    BY CrawlInvariant, <1>2, PTL DEF CrawlSpec, CrawlsContinue

=============================================================================
