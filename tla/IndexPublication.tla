-------------------------- MODULE IndexPublication --------------------------
(***************************************************************************)
(* Indexers, crawls and answers around one knowledge store.                *)
(*                                                                         *)
(* index.build is a long read-compute-publish: it loads the current crawl  *)
(* release, waits for the model service, reads the live release and then,  *)
(* in a second statement, its hashes, classifies and extracts for minutes, *)
(* and at last hands one delta to apply_delta.  Nothing is locked before   *)
(* that.  Crawls complete, staff files change, other indexers publish and  *)
(* answers are composed between any two of those steps; any of them may    *)
(* raise, and the process may die.                                         *)
(*                                                                         *)
(* ingestion-failure.json and the report file are written and read by      *)
(* people; a build that raises is here a build that is idle again.         *)
(***************************************************************************)
EXTENDS KnowledgeStore, Sequences

CONSTANTS
    Builders,         \* processes running index.build
    WebUrls,          \* URLs a crawl may fetch
    StaffUrls,        \* canonical URLs an authored JSON source may claim
    PageHashes,       \* sha256:... of fetched bytes
    StaffHashes,      \* fixture:... of an authored file
    StaffAudience,    \* the audience an authored file declares
    Caveated,         \* contents in which find_caveats finds something
    RebuildFlags,     \* whether --rebuild may be passed
    MaxCrawls,        \* bound: crawl releases, the first included
    MaxListed,        \* bound: pages one crawl log lists
    public, Absent

Fetch == [url : WebUrls, hash : PageHashes]

(* One bundle under releases/.  fetched is its log: one entry for every     *)
(* time the walk read a page, so two for a page the sitemap lists twice.    *)
(* pages is its ledger, which holds what the last of them read.  errors is  *)
(* empty in a bundle a crawl writes now; a crawl-log.json from before there *)
(* were bundles may hold some.                                              *)
CrawlReleases ==
    {c \in [fetched : UNION {[1..n -> Fetch] : n \in 0..MaxListed},
            pages : [WebUrls -> PageHashes \cup {Absent}],
            errors : SUBSET WebUrls, skipped : ExclusionLists] :
        \A u \in WebUrls :
            LET listed == {i \in DOMAIN c.fetched : c.fetched[i].url = u} IN
            /\ u \in c.errors => c.pages[u] = Absent
            /\ \/ listed = {} /\ c.pages[u] = Absent
               \/ \E i \in listed : /\ \A j \in listed : j <= i
                                    /\ c.pages[u] = c.fetched[i].hash}

ASSUME SourcesAssumption ==
    /\ WebUrls \cup StaffUrls \subseteq Urls
    /\ PageHashes \cup StaffHashes \subseteq Hashes
    /\ PageHashes \cap StaffHashes = {}
    /\ Absent \notin Hashes \cup Configs
    /\ StaffAudience \in [StaffHashes -> Audiences]
    /\ Caveated \subseteq Hashes
    /\ public \in Audiences
    /\ RebuildFlags \subseteq BOOLEAN
    /\ MaxCrawls \in Nat \ {0}
    /\ MaxListed \in Nat

(* Whatever an indexer makes of a page or of an authored source, the store  *)
(* accepts.                                                                 *)
ASSUME UpdatesAssumption ==
    /\ [url : WebUrls, hash : PageHashes, audience : {public}, vectors : Configs,
        caveats : BOOLEAN, entry : 1..MaxListed] \subseteq Updates
    /\ [url : StaffUrls, hash : StaffHashes, audience : Audiences,
        vectors : Configs, caveats : BOOLEAN, entry : {0}] \subseteq Updates

VARIABLES
    crawls,      \* the crawl releases so far; crawl-current.json names the last
    staff,       \* the staff directory: each URL's authored content or Absent
    build,       \* where each builder is, and what it holds
    basis        \* history: which crawl each published release was built from

indexVars == <<vars, crawls, staff, build, basis>>

Stages == {"idle", "sourced", "parented", "compared", "ready", "publishing",
           "committed", "reported"}

(* delta is what the builder will hand to apply_delta, report the release   *)
(* its report and its job row name.                                         *)
BuildState ==
    [pc : Stages, rebuild : BOOLEAN, config : Configs \cup {Absent},
     crawl : 0..MaxCrawls, parent : SnapshotIds \cup {NoSnapshot},
     incompatible : BOOLEAN, known : [Urls -> Hashes \cup {Absent}],
     delta : Delta \cup {NoDelta}, report : SnapshotIds \cup {NoSnapshot}]

Idle == [pc |-> "idle", rebuild |-> FALSE, config |-> Absent, crawl |-> 0,
         parent |-> NoSnapshot, incompatible |-> FALSE,
         known |-> [u \in Urls |-> Absent], delta |-> NoDelta,
         report |-> NoSnapshot]

-----------------------------------------------------------------------------
(* Classification                                                           *)

Fetched(crawl) == {u \in WebUrls : crawl.pages[u] # Absent}

Staffed == {u \in StaffUrls : staff[u] # Absent}

(* active_content_hashes                                                    *)
active_content_hashes(t) ==
    [u \in Urls |-> LET live == {r \in LiveByPointer(t) : r.url = u}
                    IN  IF live = {} THEN Absent
                        ELSE (CHOOSE r \in live : TRUE).hash]

(* Mutants: a change of configuration overlooked; everything always new.    *)
Comparison_SameModel(b) == IF b.rebuild THEN [u \in Urls |-> Absent] ELSE b.known

Comparison_Nothing(b) == [u \in Urls |-> Absent]

(* A rebuild, or a change of configuration, compares with nothing.          *)
Comparison(b) == IF b.rebuild \/ b.incompatible
                 THEN [u \in Urls |-> Absent] ELSE b.known

(* The entries whose file has the digest the ledger holds of their page; an *)
(* earlier reading of a page that has changed since counts as failed.       *)
Matching(crawl) ==
    {i \in DOMAIN crawl.fetched : crawl.fetched[i].hash = crawl.pages[crawl.fetched[i].url]}

PageUpdate(b, u, hash, i) ==
    [url |-> u, hash |-> hash, audience |-> public, vectors |-> b.config,
     caveats |-> hash \in Caveated, entry |-> i]

StaffUpdate(b, u, hash) ==
    [url |-> u, hash |-> hash, audience |-> StaffAudience[hash],
     vectors |-> b.config, caveats |-> hash \in Caveated, entry |-> 0]

(* new + changed: one update for each entry, not for each page.             *)
PageUpdates(b, crawl, failed) ==
    {PageUpdate(b, crawl.fetched[i].url, crawl.fetched[i].hash, i) :
        i \in {j \in Matching(crawl) :
                  LET e == crawl.fetched[j]
                  IN  e.url \notin failed /\ Comparison(b)[e.url] # e.hash}}

(* new + changed, less what failed; then the authored sources that changed. *)
UpdatesFor(b, crawl, failed) ==
    PageUpdates(b, crawl, failed)
    \cup
    {StaffUpdate(b, u, staff[u]) :
        u \in {v \in Staffed : Comparison(b)[v] # staff[v]}}

(* Mutant: a page that was not reached is taken to be gone.                 *)
RemovedFor_DespiteErrors(b, crawl) ==
    {u \in Urls : b.known[u] # Absent /\ u \notin Fetched(crawl) \cup Staffed}

(* Served now and in no source; incomplete discovery withdraws nothing.     *)
RemovedFor(b, crawl) ==
    IF crawl.errors # {} THEN {}
    ELSE {u \in Urls : b.known[u] # Absent /\ u \notin Fetched(crawl) \cup Staffed}

-----------------------------------------------------------------------------
IndexInit ==
    /\ Init
    /\ \E c \in CrawlReleases : crawls = <<c>>
    /\ staff \in [StaffUrls -> StaffHashes \cup {Absent}]
    /\ build = [b \in Builders |-> Idle]
    /\ basis = [s \in SnapshotIds |-> 0]

(* Mutant: the pointer is one bundle ahead of the files.                    *)
LoadRelease_Dangling(b) ==
    /\ build[b].pc = "idle"
    /\ \E rebuild \in RebuildFlags, config \in Configs :
           build' = [build EXCEPT ![b] =
               [Idle EXCEPT !.pc = "sourced", !.rebuild = rebuild,
                            !.config = config, !.crawl = Len(crawls) + 1]]
    /\ UNCHANGED <<vars, crawls, staff, basis>>

(* build() is called and loads the bundle the pointer names.                *)
LoadRelease(b) ==
    /\ build[b].pc = "idle"
    /\ \E rebuild \in RebuildFlags, config \in Configs :
           build' = [build EXCEPT ![b] =
               [Idle EXCEPT !.pc = "sourced", !.rebuild = rebuild,
                            !.config = config, !.crawl = Len(crawls)]]
    /\ UNCHANGED <<vars, crawls, staff, basis>>

(* The model service answered; previous = repo.snapshot().                  *)
ReadParent(b) ==
    /\ build[b].pc = "sourced"
    /\ build' = [build EXCEPT ![b].pc = "parented",
                     ![b].parent = snapshot(db),
                     ![b].incompatible =
                         \E s \in ActiveSnapshots(db) : s.config # build[b].config]
    /\ UNCHANGED <<vars, crawls, staff, basis>>

(* known = repo.active_content_hashes(), a read of its own.                 *)
ReadKnown(b) ==
    /\ build[b].pc = "parented"
    /\ build' = [build EXCEPT ![b].pc = "compared",
                              ![b].known = active_content_hashes(db)]
    /\ UNCHANGED <<vars, crawls, staff, basis>>

(* Classify, extract, embed, and put the delta together.  Any fetched page  *)
(* may turn out missing, altered or unusable; then it is not updated,       *)
(* unless the configuration changes, which raises.  An authored URL that is *)
(* also a page raises.  The id is a uuid: no release or builder has it.     *)
Held == {build[b].delta.id : b \in {x \in Builders : build[x].delta # NoDelta}}

Prepare(b) ==
    LET crawl == crawls[build[b].crawl] IN
    /\ build[b].pc = "compared"
    /\ Staffed \cap Fetched(crawl) = {}
    /\ \E unusable \in SUBSET Fetched(crawl), id \in Fresh \ Held :
        LET failed == unusable \cup crawl.errors IN
        /\ build[b].incompatible => failed = {} /\ Matching(crawl) = DOMAIN crawl.fetched
        /\ build' = [build EXCEPT
               ![b].pc = "ready",
               ![b].delta = [updates  |-> UpdatesFor(build[b], crawl, failed),
                             removed  |-> RemovedFor(build[b], crawl),
                             id       |-> id,
                             parent   |-> build[b].parent,
                             config   |-> build[b].config,
                             excluded |-> crawl.skipped,
                             run      |-> TRUE]]
    /\ UNCHANGED <<vars, crawls, staff, basis>>

(* apply_delta is called and gets past its parent check.                    *)
BeginPublish(b) ==
    /\ build[b].pc = "ready"
    /\ BeginDelta(build[b].delta)
    /\ build' = [build EXCEPT ![b].pc = "publishing"]
    /\ UNCHANGED <<crawls, staff, basis>>

StageOne(b) ==
    /\ build[b].pc = "publishing"
    /\ StageUpdate
    /\ UNCHANGED <<crawls, staff, build, basis>>

CommitPublish(b) ==
    /\ build[b].pc = "publishing"
    /\ CommitDelta
    /\ build' = [build EXCEPT ![b].pc = "committed"]
    /\ basis' = [basis EXCEPT ![build[b].delta.id] = build[b].crawl]
    /\ UNCHANGED <<crawls, staff>>

(* live = repo.snapshot(), after the commit and outside it: the release     *)
(* the report and the job row will name.                                    *)
ReadReport(b) ==
    /\ build[b].pc = "committed"
    /\ build' = [build EXCEPT ![b].pc = "reported", ![b].report = snapshot(db)]
    /\ UNCHANGED <<vars, crawls, staff, basis>>

Return(b) ==
    /\ build[b].pc = "reported"
    /\ build' = [build EXCEPT ![b] = Idle]
    /\ UNCHANGED <<vars, crawls, staff, basis>>

(* Anything raises outside the transaction: the model service is down, a    *)
(* staff file is not approved, another indexer published first, the lock    *)
(* is not to be had; or the process is killed.                              *)
Raise(b) ==
    /\ build[b].pc \in {"sourced", "parented", "compared", "ready", "committed"}
    /\ build' = [build EXCEPT ![b] = Idle]
    /\ UNCHANGED <<vars, crawls, staff, basis>>

(* The same inside the transaction.                                         *)
AbortPublish(b) ==
    /\ build[b].pc = "publishing"
    /\ Rollback
    /\ build' = [build EXCEPT ![b] = Idle]
    /\ UNCHANGED <<crawls, staff, basis>>

BuildNext(b) ==
    \/ LoadRelease(b) \/ ReadParent(b) \/ ReadKnown(b) \/ Prepare(b)
    \/ BeginPublish(b) \/ StageOne(b) \/ CommitPublish(b)
    \/ ReadReport(b) \/ Return(b) \/ Raise(b) \/ AbortPublish(b)

(* A crawl completes without errors: bundle, then pointer.  One with errors *)
(* changes neither.                                                         *)
PublishCrawl ==
    /\ Len(crawls) < MaxCrawls
    /\ \E c \in CrawlReleases : c.errors = {} /\ crawls' = Append(crawls, c)
    /\ UNCHANGED <<vars, staff, build, basis>>

(* An operator writes, edits or deletes an authored source.                 *)
EditStaff ==
    /\ \E u \in StaffUrls, c \in StaffHashes \cup {Absent} :
           staff' = [staff EXCEPT ![u] = c]
    /\ UNCHANGED <<vars, crawls, build, basis>>

Answer(r) ==
    /\ ReadNext(r)
    /\ UNCHANGED <<crawls, staff, build, basis>>

IndexNext ==
    \/ \E b \in Builders : BuildNext(b)
    \/ PublishCrawl
    \/ EditStaff
    \/ \E r \in Readers : Answer(r)

IndexSpec == IndexInit /\ [][IndexNext]_indexVars

-----------------------------------------------------------------------------
IndexTypeOK ==
    /\ TypeOK
    /\ crawls \in Seq(CrawlReleases) /\ Len(crawls) \in 1..MaxCrawls
    /\ staff \in [StaffUrls -> StaffHashes \cup {Absent}]
    /\ build \in [Builders -> BuildState]
    /\ basis \in [SnapshotIds -> 0..MaxCrawls]

(* No release is lost: two releases never share a parent, one has none, and *)
(* the live one is nobody's parent.  An indexer that worked against a       *)
(* release that is no longer live published nothing.                        *)
NoLostRelease ==
    /\ \A s, q \in db.snapshots : s.parent = q.parent => s = q
    /\ \A s \in db.snapshots, q \in ActiveSnapshots(db) : s.parent # q.id

(* Every release ever published stays explicable: each version it served    *)
(* is still stored with the content it had, and its crawl run is on file.   *)
ReleasesExplicable ==
    \A s \in db.snapshots :
        /\ \A m \in s.members : \E r \in db.versions : AsMember(r) = m
        /\ s.id \in db.crawl_runs

(* A logged answer names a release that served everything the answer cites, *)
(* whatever was published while it was composed or before it was logged.    *)
AnswersExplicable ==
    \A e \in answer_log :
        IF e.release = NoSnapshot THEN e.cited = {}
        ELSE \E s \in db.snapshots : s.id = e.release /\ e.cited \subseteq s.members

(* Everything retrievable was embedded under the configuration the live     *)
(* release declares, and which the engine compares with its own: a query    *)
(* vector never meets passages of another model or another chunking.        *)
OneConfiguration ==
    \A s \in ActiveSnapshots(db) : \A r \in LiveByFlag(db) : r.vectors = s.config

(* Some crawl log lists a page twice with this content.                     *)
ListedTwice(u, hash) ==
    \E c \in 1..Len(crawls) : \E i, j \in DOMAIN crawls[c].fetched :
        /\ i # j
        /\ crawls[c].fetched[i] = [url |-> u, hash |-> hash]
        /\ crawls[c].fetched[j] = [url |-> u, hash |-> hash]

(* Unchanged content makes no new version: a version differs from the one   *)
(* it supersedes in content, or was made for another configuration, or came *)
(* out of the same delta, from a page its crawl log lists twice; then the   *)
(* superseded one was never part of a release.  Nothing that was ever       *)
(* served is repeated, whatever is published between the read of the hashes *)
(* and the commit.  Only --rebuild is allowed to.                           *)
NoDuplicateVersions ==
    \A r, q \in db.versions :
        r.url = q.url /\ r.supersedes = q.number =>
            \/ r.hash # q.hash \/ r.vectors # q.vectors
            \/ /\ ListedTwice(q.url, q.hash)
               /\ \A s \in db.snapshots : AsMember(q) \notin s.members

(* History is never rewritten: a stored version keeps its number, content,  *)
(* ancestry and audience in every later state, and once superseded or       *)
(* withdrawn it is never live again.                                        *)
HistoryKept ==
    [][\A r \in db.versions : \E q \in db'.versions :
            q = r \/ (r.is_active /\ q = [r EXCEPT !.is_active = FALSE])]_indexVars

Live == [u \in Urls |->
            LET rows == {r \in LiveByPointer(db) : r.url = u}
            IN  IF rows = {} THEN Absent
                ELSE LET r == CHOOSE x \in rows : TRUE
                     IN  [hash |-> r.hash, audience |-> r.audience,
                          vectors |-> r.vectors]]

Chain == INSTANCE ReleaseChain WITH
             offered <- crawls,
             live <- Live,
             current <- snapshot(db),
             source <- IF ActiveSnapshots(db) = {} THEN 0 ELSE basis[snapshot(db)]

(* The whole of it implements the release chain: although sources, parent,  *)
(* hashes and tables are read and written minutes apart, every publication  *)
(* is one merge of one crawl onto the release it replaces.                  *)
MergesInOrder == Chain!Spec

(* What a reader of the documentation expects of two indexers: content of   *)
(* an older crawl never replaces a release built from a newer one.          *)
CrawlsAdvance ==
    \A s, q \in db.snapshots : s.parent = q.id => basis[q.id] <= basis[s.id]

(* The release a build reports, and its job row keeps, is the one it        *)
(* published.                                                               *)
ReportsOwnRelease ==
    \A b \in Builders :
        build[b].pc = "reported" => build[b].report = build[b].delta.id
=============================================================================
