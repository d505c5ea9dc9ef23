-------------------------------- MODULE Crawl --------------------------------
(***************************************************************************)
(* crawl.py: one crawl reads the ledger of the crawl before it, walks the  *)
(* pages of the sitemap and the documents they link to, and publishes what *)
(* it saw with the ledger it leaves, in one bundle that one pointer names. *)
(*                                                                         *)
(* Nothing keeps two crawls apart but the queue that starts them, and a    *)
(* crawl may die anywhere: its ledger is lost, the files of the cache that *)
(* it wrote are not.                                                       *)
(***************************************************************************)
EXTENDS Integers, Sequences, FiniteSets, SequencesExt

CONSTANTS Crawlers,   \* processes that crawl
          Pages,      \* URLs a sitemap may list
          Sheets,     \* URLs of documents
          Bodies,     \* what a URL may serve
          Links,      \* Links[b]: the documents a page linked to when it serves b
          AsText,     \* AsText[b]: what a page archived as b is read back as
          Guides,     \* the documents every crawl asks for
          Listings,   \* the sitemaps, as the pages they leave to be asked for
          Robots,     \* the robots.txt that can be read, as the URLs they refuse
          FileOf      \* cache_path: the file of the cache a URL is written to

\* a sitemap and a page lead to finitely many pages and documents
ASSUME CrawlConstants ==
  /\ Listings \subseteq Seq(Pages)
  /\ Guides \in Seq(Sheets)
  /\ \A b \in Bodies : Links[b] \subseteq Sheets /\ IsFiniteSet(Links[b])
  /\ AsText \in [Bodies -> Bodies]
  /\ Robots \subseteq SUBSET (Pages \cup Sheets)

Urls == Pages \cup Sheets
\* no file, no header; a page that answers 404 or 410; a file half written
Nowhere == "nowhere"
Gone == "gone"
Cut == "cut"
NoBundle == 0

VARIABLES serves,   \* serves[u]: what the publisher serves
          files,    \* files[f]: cache/pages and cache/documents
          bundles,  \* cache/releases
          pointer,  \* crawl-current.json
          versions, \* versions.json, the ledger from before there were bundles
          crawl     \* crawl[p]: what one process knows

crawlVars == <<serves, files, bundles, pointer, versions, crawl>>

(* A record of the ledger.  source is the body archived for it, named by its *)
(* content, and etag the body its validator stands for.                    *)
Entry(version, body, etag, past, source, active) ==
  [version |-> version, body |-> body, etag |-> etag, past |-> past,
   source |-> source, active |-> active]

NoCrawl == [stage |-> "idle", refresh |-> FALSE, refuses |-> {}, base |-> NoBundle, ledger |-> <<>>,
            todo |-> <<>>, named |-> {}, gone |-> {}, log |-> <<>>, failed |-> FALSE,
            got |-> Nowhere, bundle |-> NoBundle]
Crawling(p, stage) == crawl[p].stage = stage
Becomes(p, c) == crawl' = [crawl EXCEPT ![p] = c]

----------------------------------------------------------------------------
(* The ledger.                                                             *)

(* Mutant: the file is believed before the pointer.                         *)
Ledger_FileFirst ==
  IF versions # <<>> THEN versions
  ELSE IF pointer = NoBundle THEN <<>> ELSE bundles[pointer].ledger

\* load_ledger: the pointer decides, and the file only where there is none
Ledger == IF pointer = NoBundle THEN versions ELSE bundles[pointer].ledger

\* a record from before the archive is given what the cache holds of it
Archived(ledger) ==
  [u \in DOMAIN ledger |->
     IF ledger[u].source = Nowhere /\ files[FileOf[u]] # Nowhere
     THEN [ledger[u] EXCEPT !.source = files[FileOf[u]]] ELSE ledger[u]]

\* reconcile: a new body is a new version, and the one before it is kept
Reconciled(ledger, u, body, etag) ==
  LET prior == ledger[u]
      entry ==
        IF u \notin DOMAIN ledger THEN Entry(1, body, etag, <<>>, body, TRUE)
        ELSE IF prior.body = body
        THEN Entry(prior.version, body, IF etag = Nowhere THEN prior.etag ELSE etag,
                   prior.past, body, TRUE)
        ELSE Entry(prior.version + 1, body, etag, Append(prior.past, prior.body), body, TRUE)
  IN  [v \in DOMAIN ledger \cup {u} |-> IF v = u THEN entry ELSE ledger[v]]

\* what was not fetched is withdrawn, with its history
LeftOut(ledger, log) ==
  [u \in DOMAIN ledger |->
     IF \E i \in DOMAIN log : log[i].url = u THEN ledger[u]
     ELSE [ledger[u] EXCEPT !.active = FALSE]]

----------------------------------------------------------------------------
(* One crawl.                                                              *)

\* the ledger is read, then robots.txt, then the sitemap, less what is excluded;
\* a robots.txt that cannot be read refuses everything, and the crawl goes on
Start(p) ==
  /\ Crawling(p, "idle")
  /\ \E refresh \in BOOLEAN, pages \in Listings, refuses \in Robots \cup {Urls} :
       LET all == pages \o Guides
       IN  Becomes(p, [NoCrawl EXCEPT !.stage = "fetching", !.refresh = refresh,
                         !.refuses = refuses, !.base = pointer, !.ledger = Archived(Ledger),
                         !.todo = all, !.named = ToSet(all)])
  /\ UNCHANGED <<serves, files, bundles, pointer, versions>>

NextUrl(p) == Head(crawl[p].todo)
Walks(p) == Crawling(p, "fetching") /\ crawl[p].todo # <<>>
AsksFor(p) == Walks(p) /\ NextUrl(p) \notin crawl[p].refuses

\* load_or_fetch reads the archived body, or the file of the cache
Held(p) ==
  LET u == NextUrl(p)
      found == IF u \in DOMAIN crawl[p].ledger /\ crawl[p].ledger[u].source # Nowhere
               THEN crawl[p].ledger[u].source ELSE files[FileOf[u]]
  IN  IF u \in Pages /\ found \in Bodies THEN AsText[found] ELSE found
Validates(p) ==
  LET u == NextUrl(p) IN
  /\ Held(p) # Nowhere
  /\ u \in DOMAIN crawl[p].ledger
  /\ crawl[p].ledger[u].etag = serves[u]
MustAsk(p) == Held(p) = Nowhere \/ crawl[p].refresh

\* the page is recorded, and the documents it links to are asked for once
Recorded(p, body, etag) ==
  LET u == NextUrl(p)
      c == crawl[p]
      ledger == Reconciled(c.ledger, u, body, etag)
      linked == IF u \in Pages /\ body # Cut THEN Links[body] \ c.named ELSE {}
  IN  \E order \in SetToSeqs(linked) :
        Becomes(p, [c EXCEPT !.stage = "fetching",
                             !.ledger = ledger,
                             !.todo = Tail(c.todo) \o order,
                             !.named = c.named \cup linked,
                             !.log = Append(c.log, [url |-> u, version |-> ledger[u].version,
                                                    body |-> body]),
                             !.got = Nowhere])

\* what robots.txt refuses is passed over: no error, nothing fetched
Skip(p) ==
  /\ Walks(p) /\ NextUrl(p) \in crawl[p].refuses
  /\ Becomes(p, [crawl[p] EXCEPT !.todo = Tail(@)])
  /\ UNCHANGED <<serves, files, bundles, pointer, versions>>

\* it is held and not to be refreshed, or the site says that it is unchanged
TakeHeld(p) ==
  /\ AsksFor(p)
  /\ ~MustAsk(p) \/ Validates(p)
  /\ \E etag \in {Nowhere} \cup (IF MustAsk(p) THEN {serves[NextUrl(p)]} ELSE {}) :
       Recorded(p, Held(p), etag)
  /\ UNCHANGED <<serves, files, bundles, pointer, versions>>

\* a new body is written over the file of the cache, and not in one step: the file
\* is emptied, which is as if there were none, then cut
Download(p) ==
  /\ AsksFor(p)
  /\ MustAsk(p) /\ ~Validates(p) /\ serves[NextUrl(p)] # Gone
  /\ \E left \in {Nowhere, Cut} : files' = [files EXCEPT ![FileOf[NextUrl(p)]] = left]
  /\ Becomes(p, [crawl[p] EXCEPT !.stage = "writing", !.got = serves[NextUrl(p)]])
  /\ UNCHANGED <<serves, bundles, pointer, versions>>

Store(p) ==
  /\ Crawling(p, "writing")
  /\ files' = [files EXCEPT ![FileOf[NextUrl(p)]] = crawl[p].got]
  /\ \E etag \in {crawl[p].got, Nowhere} : Recorded(p, crawl[p].got, etag)
  /\ UNCHANGED <<serves, bundles, pointer, versions>>

\* 404 and 410 are an answer
NotFound(p) ==
  /\ AsksFor(p)
  /\ MustAsk(p) /\ serves[NextUrl(p)] = Gone
  /\ Becomes(p, [crawl[p] EXCEPT !.todo = Tail(@), !.gone = @ \cup {NextUrl(p)}])
  /\ UNCHANGED <<serves, files, bundles, pointer, versions>>

\* another status, or no answer after the third attempt, is an error
NoReply(p) ==
  /\ AsksFor(p)
  /\ MustAsk(p)
  /\ Becomes(p, [crawl[p] EXCEPT !.todo = Tail(@), !.failed = TRUE])
  /\ UNCHANGED <<serves, files, bundles, pointer, versions>>

\* with an error the release before stays; without one the bundle is written
Bundle(p) ==
  /\ Crawling(p, "fetching") /\ crawl[p].todo = <<>>
  /\ LET c == crawl[p]
         ledger == LeftOut(c.ledger, c.log)
     IN  IF c.failed THEN Becomes(p, NoCrawl) /\ UNCHANGED bundles
         ELSE /\ bundles' = Append(bundles, [log |-> c.log, ledger |-> ledger])
              /\ Becomes(p, [c EXCEPT !.stage = "bundled", !.ledger = ledger,
                                      !.bundle = Len(bundles) + 1])
  /\ UNCHANGED <<serves, files, pointer, versions>>

\* the publication boundary
Point(p) ==
  /\ Crawling(p, "bundled")
  /\ pointer' = crawl[p].bundle
  /\ Becomes(p, [crawl[p] EXCEPT !.stage = "pointed"])
  /\ UNCHANGED <<serves, files, bundles, versions>>

\* the two files of old are written after it
Report(p) ==
  /\ Crawling(p, "pointed")
  /\ versions' = crawl[p].ledger
  /\ Becomes(p, NoCrawl)
  /\ UNCHANGED <<serves, files, bundles, pointer>>

\* an exception leaves crawl-failure.json, a killed process nothing
Die(p) ==
  /\ ~Crawling(p, "idle")
  /\ Becomes(p, NoCrawl)
  /\ UNCHANGED <<serves, files, bundles, pointer, versions>>

SiteChanges ==
  /\ \E u \in Urls, b \in Bodies \cup {Gone} : serves' = [serves EXCEPT ![u] = b]
  /\ UNCHANGED <<files, bundles, pointer, versions, crawl>>

CrawlInit ==
  /\ serves \in [Urls -> Bodies \cup {Gone}]
  /\ files = [f \in {FileOf[u] : u \in Urls} |-> Nowhere]
  /\ bundles = <<>>
  /\ pointer = NoBundle
  /\ \E old \in SUBSET Pages, b \in Bodies :
       versions = [u \in old |-> Entry(2, b, Nowhere, <<>>, Nowhere, TRUE)]
  /\ crawl = [p \in Crawlers |-> NoCrawl]

GoOn(p) ==
  \/ Skip(p) \/ TakeHeld(p) \/ Download(p) \/ Store(p) \/ NotFound(p) \/ NoReply(p)
  \/ Bundle(p) \/ Point(p) \/ Report(p)

CrawlNext == SiteChanges \/ \E p \in Crawlers : Start(p) \/ GoOn(p) \/ Die(p)

CrawlSpec == CrawlInit /\ [][CrawlNext]_crawlVars

----------------------------------------------------------------------------
(* Properties.                                                             *)

\* every body a URL had, the one it has last
Story(entry) == Append(entry.past, entry.body)
Continues(new, old) ==
  /\ IsPrefix(Story(old), Story(new))
  /\ new.version - old.version = Len(new.past) - Len(old.past)

\* The log and the ledger of a bundle tell the same: what is active is what was
\* fetched, in the version and with the body it was fetched in last.
Paired(bundle) ==
  \A u \in DOMAIN bundle.ledger :
    LET times == {i \in DOMAIN bundle.log : bundle.log[i].url = u}
        entry == bundle.ledger[u]
    IN  /\ entry.active <=> times # {}
        /\ \A i \in times : (\A j \in times : j <= i) =>
             bundle.log[i].version = entry.version /\ bundle.log[i].body = entry.body

\* A crawl that becomes current replaces the release it started from by one
\* that goes on: no document loses a version it had, none gets a number for
\* a second body, whatever died between the pointer and the files, and none is
\* withdrawn but by a sitemap that no longer leads to it, an answer that it is
\* gone or a robots.txt, one that could not be read included.  And its log and
\* its ledger are of one crawl.
CrawlsContinue ==
  [][\A p \in Crawlers : Point(p) =>
       LET new == bundles[crawl[p].bundle]
           old == IF pointer = NoBundle THEN versions ELSE bundles[pointer].ledger
       IN  /\ Paired(new)
           /\ crawl[p].base = pointer =>
                \A u \in DOMAIN old :
                  /\ u \in DOMAIN new.ledger /\ Continues(new.ledger[u], old[u])
                  /\ old[u].active /\ ~new.ledger[u].active =>
                       \/ u \in crawl[p].gone \/ u \notin crawl[p].named
                       \/ u \in crawl[p].refuses]_crawlVars

\* What run promises: a crawl that broke is not read as a site that withdrew its
\* documents.  Whoever loses its place in the release was found gone, or nothing
\* led to it.
WithdrawnIsGone ==
  \A p \in Crawlers : Crawling(p, "bundled") /\ crawl[p].base = pointer =>
    \A u \in DOMAIN Ledger : Ledger[u].active /\ ~crawl[p].ledger[u].active =>
      u \in crawl[p].gone \/ u \notin crawl[p].named
=============================================================================
