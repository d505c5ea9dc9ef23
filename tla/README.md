# A verification project for the technical knowledge assistant

The assistant answers questions about building products from an index of the
manufacturer's pages, datasheets and authored staff notes. This directory
holds TLA+ models of the parts of it whose correctness depends on what happens
between steps, or on rules that meet in more ways than a test enumerates, the
TLC configurations that check them on small instances, and TLAPS proofs of the
properties that matter most for every instance.

Each module is translated from the code under `src/assistant/`; `PROJECT.json`
maps every definition to its lines.

## 1. Inventory

| Component | Source | State it keeps | Operations | Modules |
|---|---|---|---|---|
| Knowledge store | `knowledge/store/embedded.py` (SQLite), `postgres.py` | documents with an active version, versions with chunks and caveats, snapshots (releases), exclusions, crawl runs, answer log | `apply_delta`, `publish`, `read_snapshot`, retrieval, `log_answer` | `KnowledgeStore` |
| Index builds | `indexing/index.py`, `staff_knowledge.py` | none between runs; a build holds a crawl release, a parent release, a diff | `build` | `IndexPublication`, `ReleaseChain` |
| Crawler | `indexing/crawl.py` | the cache of files, release bundles, a pointer to the current one, the ledger of versions | `run`, `reconcile`, `load_or_fetch` | `Crawl` |
| Job queue | `indexing/pipeline.py` | one row for each schedule period | `enqueue`, `claim`, `finish`, `work` | `JobQueue`, `AttemptLedger` |
| Sessions | `turn/session.py`, `session_storage.py` | carried facts, pending question, turns; in memory and in a table | `open`, `carried`, `remember`, sweeps | `SessionStore` |
| Conversation facts | `turn/conversation.py` | a history of facts for each slot | `merge_facts`, denials, new cases | `Conversation` |
| Understanding | `answering/understanding.py` | none | reading a message, resolving it over the conversation | `Understanding` |
| Turn graph | `turn/graph.py`, `answering/engine.py` (`ask_turn`) | one checkpointed thread for each session | the nodes, pause, resume, abandon | `TurnGraph` |
| Router | `answering/router.py` | none | policy gate, split of a message, slot detector, route | `Routing` |
| Composition and checks | `answering/answer.py`, `phrasing.py` | none | the answering paths, eight checks, sources, rewording | `Checks`, `Answering` |
| Answering engine | `answering/engine.py`, `cache.py` | cached answers | `ask_turn`, `_answer_part` | `Answering`, `TurnGraph`, `Server` |
| Retrieval | `retrieval/*.py` | none | search, candidates, compatibility | `Evidence`, `Answering` |
| Vision | `answering/vision.py` | none | decoding a reply, resolving several photographs | `Perception` |
| Web interface | `interfaces/ui.py`, `knowledge/store/locking.py` | one engine, one lock, an upload budget, sessions | request handlers | `Server` |
| Infrastructure | `infrastructure/*.py`, `logging/`, command line | counters, spans | health, export | none, section 7 |

How they interact:

* The **scheduler** starts a process a minute. It claims one period from the
  **job queue**, may run a **crawl**, and calls `index.build`.
* A **crawl** leaves a new release bundle and moves the pointer to it, or
  leaves everything as it was but for the files of its cache.
* A **build** reads the pointer's bundle, the staff directory and the live
  release, works for minutes, and hands one delta to the **store**, which
  refuses it unless the release it was built against is still the live one.
* The **server** serves each request on a thread. It opens the visitor's
  **session**, waits for the repository's lock, runs one turn through the
  **graph**, and remembers it in the session.
* A **turn** reads the message (**understanding**), meets it with the facts of
  the **conversation** and what the photographs show (**vision**), and either
  chooses a product from an assessment of published evidence (**retrieval**)
  or hands each part of the message to the **engine**.
* The **engine** pins one state of the store for the whole turn, searches,
  routes, composes, checks, and writes an audit row afterwards on another
  connection. Finished answers are shared through the **cache**.

The behaviours that are hard here, and what correct means:

1. Long read-compute-publish builds without a lock, next to crawls, other
   builds and answers. Releases form a chain, each is one merge onto the one
   before, nothing is lost or rewritten, nothing that was served is repeated,
   and an answer's audit row names the release that served it.
2. What is live is stored in two places and summarised in a third. They agree
   after any sequence of deltas, aborts and bootstraps.
3. Processes that die, overlap and outlive their leases. One at a time, at
   most three attempts, outcomes written by their owner, every period ends.
4. Sessions kept in memory and in a table, under eviction, expiry, restart and
   failed statements. A visitor reads only what was told under that cookie, in
   the order it was told, and finds it as long as it is fresh.
5. Turns that pause for an answer and are resumed, abandoned or fail half-way.
   No testimony is lost or overruled, nothing is asked twice, and a choice
   rests on the facts the conversation holds when it is made.
6. An answer is checked, then renumbered, then reworded. What is shown still
   says what its sources say, and only to those who may read them.
7. Threads that share a cache and a pinned release. An answer is given only in
   the release, for the audiences and in the history it was made for.
8. Crawls that overlap or die between their files. Each release goes on from
   the one before and withdraws only what is gone, what nothing leads to any
   more, and what robots.txt refuses.

`PROJECT.json` lists each hazard at its line with the property that covers it.

## 2. Modules

The modules fall into five groups that meet through values only:

    KnowledgeStore <- IndexPublication  (implements ReleaseChain)     Crawl
    JobQueue  (implements AttemptLedger)                              SessionStore
    Conversation <- Understanding <- Evidence <- TurnGraph            Server
                                     Evidence <- Routing <- Checks <- Answering
    Perception

(`A <- B`: B extends A.) A module ending in `Proofs` holds the theorems about
the module it is named after (`AnsweringProofs` also those about `Perception`);
a module starting with `MC` is an instance.

### KnowledgeStore

`db` is the committed database: a record of the tables. `staged` is what the
writing transaction sees, `delta` what it still has to apply. SQLite admits
one writer (`BEGIN IMMEDIATE`) and shows its work to nobody before `COMMIT`;
PostgreSQL's adapter gets the same from an advisory lock.

| Action | Code (`embedded.py`) |
|---|---|
| `BeginDelta` | `apply_delta` up to the parent check (292-299) |
| `StageUpdate` | one `_apply_one` (354-415) |
| `CommitDelta` | withdrawals, exclusions, crawl run, snapshot row, `COMMIT` (304-352) |
| `Rollback` | any exception in the transaction, or the death of its process |
| `Publish` | `publish` (164-273): the bootstrap replacement |
| `BeginRead`, `Retrieve`, `EndRead` | `read_snapshot` and the reads inside it |
| `LogAnswer`, `LoseLog` | `log_answer` after the turn, or its failure |

A version row carries what its chunks and caveats carry, because they are
inserted with it and never change. Passages of one version are one row.
`publish` is called by tests and tools with rows of the caller's choice: the
instances give it any single row or pair of rows, with numbers and flags that
the UNIQUE constraints may refuse.

### IndexPublication

Extends `KnowledgeStore` with the indexers, the crawl releases, the staff
directory and the answers. One action is one uninterrupted step of `_build`:

| Action | Code (`index.py`) |
|---|---|
| `LoadRelease` | the pointer and its bundle (478-485) |
| `ReadParent` | `repo.snapshot()`, after the model service was waited for (488-495) |
| `ReadKnown` | `repo.active_content_hashes()`, a second read (496) |
| `Prepare` | classify, extract, embed, build the delta (497-642) |
| `BeginPublish`, `StageOne`, `CommitPublish` | `repo.apply_delta` (643) |
| `ReadReport`, `Return` | the live release read back, and the report (645-687) |
| `Raise`, `AbortPublish` | an exception or a kill, outside and inside the transaction |
| `PublishCrawl` | a crawl that completes (`crawl.py` 570-586) |
| `EditStaff` | an operator edits the staff directory |

A crawl release has its log, `fetched`, and its ledger, `pages`. The log is a
sequence: the walk does not deduplicate the sitemap (`crawl.py` 405-412), so a
page it lists twice is read twice, and `_classify` makes one update of each
entry (`PageUpdates`; `entry` tells the two apart). Where the page changed
between the two readings, the first entry no longer has the digest of the
ledger and counts as failed (`Matching`).

`Prepare` takes any subset of the fetched pages to be unusable (an archive
that is missing, an altered file, a failed extraction), which is what the code
may find. Evaluation fixtures, which come with the release of the program
(`index.py` 505), are not told apart from the authored sources, so the one
check for colliding URLs stands for both. `basis` is a history variable: the
crawl each release was made from.

`NoDuplicateVersions` says how far the promise of `pipeline.py` 25-29 (a
repeated job finds its work done and "reprocesses nothing") is kept. It is
not kept to the letter: a page listed twice is stored as versions n and n + 1
with one content, in one delta, without `--rebuild`. The property excepts
exactly that, and says that the first of the two was never part of a release,
so nothing that was served is repeated.

### ReleaseChain

The abstract specification: the live index moves from release to release, and
each release is one set of sources merged onto exactly the release before it.
It has no builders, transactions or tables. `IndexPublication` implements it
under the mapping `Chain` (property `MergesInOrder`): `live` is what the
pointers name, `current` the active snapshot, `source` its crawl.

### JobQueue

`jobs` is the table, `workers` the processes, `live` and `published` what
their builds have published. Time is relative: `due` counts minutes ahead of
now, `Tick` brings every due time closer. The lease token is a fresh uuid for
each claim; it is represented by the attempt number which the same statement
increments.

| Action | Code (`pipeline.py`) |
|---|---|
| `Enqueue` | `INSERT OR IGNORE` (103-107) |
| `Claim` | dead-lettering, interlock, selection and lease in one transaction (147-165) |
| `Crawl`, `Build`, `Report`, `Fail` | the two stages of `work` and their failures (224-232) |
| `Finish` | the conditional update, or the exception that refuses it (184-191) |
| `Crash` | the process is killed between any two steps |
| `Tick` | a minute passes |

`AttemptLedger` is what the queue promises, with no process, clock, lease token
or row order in it: a period is accepted once, an attempt begins only while
none is in force, a lapsed attempt may still conclude until the next one of its
period begins, a last attempt that lapsed is given up when somebody next looks
for work, and what is done or dead stays. `JobQueue` implements it
(`AttemptsAreAccounted`): the ledger is the four columns `status`, `attempts`,
`error` and `snapshot`, and the attempt in force is the row whose lease has not
run out. `Claim` is a `GiveUp` or a `Begin`, `Finish` a `Conclude` or, when the
claim no longer holds the row, nothing; `Tick` may be a `Lapse`; the two stages
of work and the death of a process are not in the ledger at all.

`JobQueue` and `IndexPublication` meet in `Build`: what is one step here is
`BuildNext` there, and two processes that overlap after a lease has run out
are its two builders.

### Crawl

One action is one step of a crawl between two effects another process can see.

| Action | Code (`crawl.py`) |
|---|---|
| `Start` | the ledger, robots.txt and the sitemap are read (367-430) |
| `Skip` | robots.txt refuses the URL: nothing is asked, logged or failed (434-436, 510-512) |
| `TakeHeld` | the held body is used, or the site says that it is unchanged (300-326) |
| `Download`, `Store` | a new body is written over the file of the cache, then recorded |
| `NotFound`, `NoReply` | 404 and 410; anything else after three attempts |
| `Bundle`, `Point`, `Report` | the bundle, the pointer, the two files of old (560-586) |
| `Die` | an exception or a kill, anywhere |
| `SiteChanges` | the publisher, external |

`serves` is what the publisher serves, `files` the cache, `crawl[p]` what one
process knows. The write of a cache file is not atomic in the code, so between
`Download` and `Store` the file is empty, which the next crawl takes for none,
or `Cut`, and a crawl that dies there leaves it so. A page is archived as bytes
and read back as text, in which every line ends alike (`AsText`).

robots.txt is read anew in each crawl: `Start` chooses what it refuses from
`Robots`, or everything, because a file that could not be read leaves a parser
that refuses every URL (384-389) while the crawl goes on. The header of a 304
renews the validator or does not (`TakeHeld`). What a sitemap lists, less the
excluded pages (`Listings`, which may hold a page twice), what a body links to
and which file a URL is written to are constants.

`CrawlsContinue` says what may leave a release: what was answered to be gone,
what nothing led to, and what robots.txt refused. The last is not what `run`
says of itself; `WithdrawnIsGone` states that, and is violated (section 6).

`IndexPublication` takes a whole crawl as one step, `PublishCrawl`: what a
build reads is a bundle, which is written before the pointer names it and never
changed, so the steps before `Point` cannot be seen by a build.

### Conversation, Understanding and Evidence

These have no variables. They are the rules the graph applies.

* `Conversation`: a slot holds a `FactHistory`, the current fact and the
  superseded ones. `MergeFacts` is `merge_facts`: `Spoken`, `Seen` and `Filled`
  are what happens when a person, a photograph or an assumption meets a slot
  that is taken. `Retract` is a denial, `MergeNewCase` another wall, `Inherit`
  an abandoned pause, `OpensANewCase` the decision that it is another wall.
* `Understanding`: a `Message` is the outcome of the detectors on a text.
  `Readings` are what `understand` may return: the deterministic reading or,
  when it is `Ambiguous`, a model's merged into it. A choice that sets two
  products side by side is verified (`weighs`), one that asks for either of them
  stays a selection. `Resolve` puts the message over the conversation:
  only the `BuildingSlots` are carried, and of what photographs show only the
  `VisibleSlots`. `FactsFrom` is what becomes a fact, `StateOnlyAnswer` what is
  answered without a search.
* `Evidence`: `MissingFacts` is the contract of an objective, `Assess` one
  candidate against the passages, the caveats and `IsCompatible` (the matrix),
  `Decide` the outcome, `Unapproved` and `Intruders` the outer check.

### TurnGraph

`threads` is the checkpointer: for each session the channels and `next`, the
node to run. Every node's writes are checkpointed before the next node starts,
so one node is one action, and a node that raises leaves the thread before it.

| Action | Code (`graph.py`; `ask_turn` is in `engine.py`) |
|---|---|
| `EnterTurn` | `ask_turn` up to the invocation: resume, abandon or begin (670-733) |
| `UnderstandTurn`, `CaseBoundary`, `ResolveState` | 315-419 |
| `AnswerState`, `AnalyseImages`, `DetermineMissing` | 421-532 |
| `AskBack` | the reply to an ask-back (534-568) |
| `RetrieveCandidates`, `AssessEvidence` | 570-604 |
| `Delegate` | everything that is not a selection, one answer for each part (606-643) |
| `Recommend`, `NeedMoreInformation`, `NoSupportedRecommendation` | the three outcomes, `answer.py` 2124-2251 |
| `Verify` | the outer check (690-818) |
| `Finish`, `Pause`, `Fail` | a turn returns, stops in `ask_back`, or raises |
| `ForgetThreads` | the process restarts |

`granted` is no channel of the code: it keeps what this turn's assessment
approved, for the properties. What the model composes in `Delegate` and
`Recommend` is any set of products, because nothing constrains it before
`Verify` does.

### Routing, Checks and Answering

`Routing` models a text as a set of terms: `SplitByTopic` and `TopicOf` the
policy gate, `DetectedSlots` and `PrimaryProperties` the slot detector with its
weights and bands, `Step` the precedence of `Router.route`, `Route` the
decision. `Checks` models a draft as a sequence of sentences, each with its
citations, figures, qualifiers, conditions, names, claims and layer orders,
and with the qualifier that leads it (`leads`: the code looks at the first of a
sentence and the figure after it). `RunChecks` is `run_checks` check by check,
what the question itself claims and the orders it asks for included;
`EvidenceBinding` and `ScopedEvidence` choose what a draft is checked against,
`Finished` and `Sources` renumber it, `Preserves` compares a rewording.

`Answering` runs one part of a message through them:

| Action | Code (`engine.py`, `answer.py`, `phrasing.py`) |
|---|---|
| `AskPart` | the split and the policy gate, then `_answer_part` |
| `Search` | the search and the six searches that add to it (1123-1256) |
| `ChooseRoute` | `Router.route`, and the named product in its slots |
| `Produce` | one of the deterministic paths, or a draft and its checks |
| `Polish` | the rewording, which has no passages at hand (`phrasing.py` 245-320) |
| `ModelFails` | any call of a model |

A similarity search is any ranking of the readable passages, a lexical one
exactly those that hold the term. A draft is any of `Drafts`. A factual answer
prints what a passage says of a field of a product, all its sentences checked
together, and the layer orders that were asked for, each checked by itself. A
refusal shows the nearest passage under its text (`disclosure`), unnumbered and
held out of the rewording; its figures are shown too, so
`ServedFiguresArePublished` speaks of them. Two things are coarser than the
code: the search repeated for each product (`engine.py` 1180-1193) is one
ranking of as many passages, and `SameProduct`, one name beginning the other,
stands for the store's lookup of a product by a part of its name.

### Perception

`ReadPhotograph` is one turn of `observe_many`. `Decode` is `_decode` with
`salvage` (a reply cut off keeps its complete observations), `DecodedConfidence`
the three scales a model uses, `Resolved1` the resolution of one attribute over
all photographs, `RoutedSlots` what of it is used as a fact. Of observations
with one attribute and one wording the first counts. Among equally confident
ones the code takes the first and the model a fixed one: that can only be seen
in `Covered`, when unconfirmed readings of a finish or of the masonry disagree,
and the theorem holds for either choice.

### Server

`workers` are the request threads, `lock` and `pinned` the locked repository,
`cache` and `budget` the two shared dictionaries, `turns` what the sessions
remember. The stages of a thread cut a request where another thread can come
between:

| Action | Code |
|---|---|
| `Accept` | the session is opened, the photographs are counted (`ui.py` 1221-1371) |
| `ReadSession` | the history and the turn number are read (1558-1583) |
| `BeginTurn` | the lock is taken and the active release pinned (`locking.py` 65-107) |
| `LookUp`, `MakeAnswer` | `answer_part`: the key, the cache, the answer (`engine.py` 379-426) |
| `EndTurn` | the lock is given back, the answer is told what was perceived (738-768) |
| `FailTurn` | a model or the store fails |
| `Respond` | `_remember`, and the page (`ui.py` 1585-1649) |
| `PublishRelease` | an indexer in another process |

### SessionStore

`memory` and `order` are the ordered dictionary, `table` the rows behind it,
`backend` which of the three stores `open_persisted_session_store` returned.
`told` and `heard` are history variables: what was remembered for each id and
when. A statement of the database may be refused (`Outcomes`), which the code
passes over.

| Action | Code (`session.py`, `session_storage.py`) |
|---|---|
| `Open` | `OpenInMemory` (116-136), `OpenPersisted` (79-93) with `Mint` in both |
| `Look` | `carried`, `pending`, `turns`: they sweep the table (97-113) |
| `Remember` | a finished turn is folded in and saved (160-180; 117-131) |
| `Tick`, `Restart`, `Reboot` | time; the process; the machine, whose monotonic clock starts over |

### MCAssistant

The instance of the modules that answer people, and of the crawls. These parts
share no variable and meet only through values: an answer, a cookie, a
release. Each of those values is universally chosen where it is consumed, so a
step of one part enables nothing in another. The module therefore has a
variable `part`: a behaviour follows one part, from every start, and the
others stay as they began. That is the sum of their state spaces and not the
product, and leaves out nothing a property could tell apart, because every
property speaks of one part.

## 3. Runs

| Run | Instance | What it shows |
|---|---|---|
| `store` | 2 URLs, 2 audiences, 2 releases, 2 updates in a delta, 2 rows in a bootstrap | tables agree, the release describes what is live |
| `concurrent_builds` | 2 crawls, 3 releases, 1 page with 2 contents; 2 builders, the last crawl may list the page twice; or builders one at a time and a reader | nothing lost, nothing that was served repeated, audit rows name the release that served them, releases are merges in order |
| `sources` | 1 builder, 2 configurations, `--rebuild`, a page and authored notes that may claim its URL, failing pages, legacy crawl errors | history kept, releases explicable, one configuration live, releases are merges in order |
| `queue` | 2 periods with a crawl, 2 processes, leases of 2 minutes | one indexer, three attempts, the ledger of attempts implemented, every period ends |
| `assistant` | below | the conversation, the answer, the photographs, the threads, the sessions and the crawls |
| `bootstrap_caveats`, `crawls_advance`, `reports_own`, `done_means_published`, `only_approved_advice`, `replies_are_heeded`, `withdrawn_is_gone` | as above | disagreements, section 6 |

What `assistant` checks, part by part (432,149 distinct states):

| Part | Instance | Properties |
|---|---|---|
| talk | one thread, eight messages, three turns, restarts | `GraphTypeOK`, `TestimonyStands`, `NothingForgotten`, `AdviceRestsOnTheConversation`, `NeverReasks`, `ApprovedInThisTurn`, `CaseOpensClean`, `TurnEnds` |
| answering | 4 passages, 12 questions, 4 splits of a message, 2 contexts, 3 audiences, 9 drafts | `FiguresStandWhereTheyAreCited`, `ServedFiguresArePublished`, `AudienceKept`, `GuessesAreNotRemembered` |
| photographs | three photographs of nine kinds | `NoSlotChangesHands` |
| server | 2 threads, 2 visitors, 2 requests, 2 releases, a cache of one entry, a budget for one session | `AnswersAreTheTurnsOwn`, `EveryRequestEnds` |
| sessions | 2 ids, one session in memory, idle after one tick, 2 turns, one refused statement, one reboot | `SessionTypeOK`, `OnlyMinted`, `RecallsItsOwn`, `LayersInStep`, `MintingBounds`, `HonouredWhileFresh` |
| crawls | 2 crawls of a page and a sheet, and among them two of: a change of the site, a death, a page listed twice, a refusal by robots.txt; or an overlap | `CrawlsContinue` |

Bounds, and why they are enough:

* `SnapshotIds` bounds the releases. A lost update needs a parent and two
  children, an ABA needs three; the properties relate at most two releases.
  `concurrent_builds` has two halves, chosen by the initial state, because the
  two questions need no state in common: `NoDuplicateVersions` needs two
  builders and a page listed twice (`MaxListed = 2`, the last crawl only),
  `AnswersExplicable` needs a reader and releases that come one after another.
* `MaxCrawls = 2` in the builds: an older and a newer crawl. `MaxUpdates = 2`:
  a URL twice. `MaxBootstrap = 2`: two versions of a document, one of which may
  be inactive, so that the delta after it revives the document.
* One page with two contents is enough for changed, unchanged and reverted;
  the second URL is there when a note and a page may differ in their fate.
* `LeaseLength = 2` is the smallest for which a lease ends neither at once nor
  with the first backoff. With `MaxOverdue = 0` any row that is due may be
  taken first, which is more than the code does. A period without a crawl
  skips one step of its process and nothing else. The safety properties are
  proved for every lease, flag and horizon; this bound is for `EveryJobEnds`.
* Three turns (`MaxTurnsEntered`): one that pauses or fails, one that resumes
  or abandons it, one that finds what it left. The eight messages are a choice
  that says what the wall is, one that leaves it to a photograph, a choice that
  says what it is not, facts in a short message, two that introduce another
  wall, one of two parts and a plain question: each guard of the graph is taken
  both ways by some of them. `MaxIndex = 2` is reached, so the cap is exercised.
* The passages hold one that may not be read by everybody, one that belongs to
  no product, one that defers, and figures bound to qualifiers and names, so
  that each check fails for some draft. Two questions claim something
  themselves: that a product is waterproof, and that one goes over another.
* Two threads and a cache of one entry: one evicts what the other is about to
  read, or the second finds what the first left. Two requests, by the same
  visitor or by two. Two releases: before and after.
* One session in memory and two ids: every second one is evicted. A clock of
  two ticks with an idle period of one: fresh, at the limit, expired.
* Two crawls: `MaxMishaps = 2` pays for two of the four things that may befall
  them one by one (a change, a death, a page listed twice, a robots.txt that
  refuses the sheet or everything), or for one overlap, which costs both.

Symmetry is used in invariant runs only, over model values that no definition
orders; the refinement and liveness runs have none. The store's runs and `assistant` turn deadlock off because release ids, turns,
requests and crawls run out.

Every property of a passing run has a mutant beside the definition it changes
(`..._Unchecked`, `..._KeepsPointer`), which the property rejects.

## 4. Fairness

* `JobQueue`: `QueueFairness` assumes that time passes, that the scheduler
  keeps starting processes (cron, once a minute), and that a started process
  sooner or later takes its next step or dies. It does not assume that a step
  succeeds or that a process finishes within its lease. The first two are the
  operating system's; the third holds because every network call has a timeout
  and bounded retries. `EveryJobEnds` then rests on the lease (a dead process's
  row becomes claimable), the attempt limit and the interlock, which blocks
  only while a lease runs.
* `TurnGraph`: weak fairness of `Node \/ Fail`. A turn runs inside the request
  that asked for it, which does not return before the graph does; model calls
  have timeouts, and a call that times out is `Fail`. Nothing is assumed of
  what a person sends next. `TurnEnds` then says that the graph has no loop.
* `Server`: weak fairness of each thread's `Proceed`. A thread that waits for
  the lock is not promised to get it: `BeginTurn` is only weakly fair, so
  `EveryRequestEnds` holds because requests are finite in number and each
  holder gives the lock back. With an endless stream of requests Python's lock
  makes no promise, and neither does the model.
* Builds and crawls have no fairness: nothing in the code makes one succeed,
  and no property claims it.

## 5. Proofs

All theorems hold for any values of the constants that satisfy the named
assumptions of the module, which the runs evaluate too.

`KnowledgeStoreProofs`, from `ConstantsAssumption` alone: `TypeCorrect`
(`TypeOK`), `StoreConsistent` (`Consistent`), `ReleaseTold`
(`ReleaseRecordsLive`). `Consistent` is not inductive by itself. `Sound(t)`
adds what the transactions rely on: finitely many versions (so that the largest
number exists and `NextNumber` is new), and pointers that name stored versions
of their own document. It is kept for `db` and for `staged`, because a commit
makes the one the other; `ReadersCollect` says that a pinned state is a state
of that type. The argument goes statement by statement (`ApplyOneSound`,
`WithdrawSound`, `ActivateSound`, `FinishDeltaSound`, `ReplacementSound`), then
action by action.

`IndexPublicationProofs`, for any number of builders, crawls, notes and
releases, in four rounds:

* `IndexInv` says what a build may rely on at each of its steps and that the
  releases are chained, each with one child at most, and explained by the rows
  under them. It gives `IndexTypes`, `NoReleaseLost`, `ReleasesStayExplicable`,
  `AnswersStayExplicable`, and, as a property of each step, `HistoryStays`.
* `Views` relates what a build read (its view of the live index, taken in two
  reads) to what is live when it commits: if the parent it read is still the
  live release, then so is everything it read (`Viewed`), and every source of
  the release it writes is either reprocessed or untouched (`Covered`,
  `Untouched`). That is what `OneConfiguration` needs (`ServedAsEmbedded`).
* `NothingRepeats`, under the assumption that nobody asks for `--rebuild`,
  which repeats by intent. A new version is compared with what it supersedes:
  with what was served, from which it differs because the hashes that were read
  are those of the live release (`Views`), or with an update done before it in
  the same delta, and then both came from entries of one log with one content
  (`AskedFields`, `StageOneNoDups`). The earlier of these was new, so no release
  had it (`NewUnserved`), and it is off when the next one is written.
* `ImplementsReleaseChain`: the builds, the store and the crawls implement
  `ReleaseChain`. `Plans` says that the delta of a build is the merge of one
  crawl and the notes it read onto the release it read, and that what is staged
  is that plan half applied (`Done`, `Staging`). `FinishLive` and
  `CommitMerges` then turn the commit into one step of the chain; every other
  step is `Offer` or a stutter.

`JobQueueProofs`, for any set of periods, processes and any lease:
`QueueTypeCorrect`, `OneIndexerAtATime`, `DeadLettersTold`, and the action
properties `OwnVerdicts` and `OutcomesKept`. The strengthening is
`LeaseIsLatest` (a row under way holds the lease of its latest attempt),
`ClaimsWereMade` (no process holds an attempt later than its row's) and
`AbsentIsNew`; together they make each new claim different from every claim a
process still holds.
`ImplementsLedger`: the queue implements `AttemptLedger`.
`LapsedMeansExpired` and `GivenUpAlike` say that the ledger gives up the periods
the first statement of `claim` does; `ClaimBegins` and `FinishConcludes` match
the two updates, the second through `LeaseIsLatest`, and `TickLapses` needs that
one lease runs at most.

`SessionStoreProofs`, from `StoreBounds`: every property of the module.
`Base` adds to the type that the order of the dictionary is a strict linear
one, without which "keep the newest" bounds nothing (`MintingIsBounded`).
`Followed` adds that, as long as no statement was refused, a row carries what
was last written and a missing one was too old (`OneStory`,
`FreshSessionsAreHonoured`). `Recall` is kept turn by turn: folding a turn into
a session that shows some of what was told shows that and the turn
(`SessionsRecallTheirOwn`).

`ServerProofs`, from `ServerConstants`: `AnswersOwned`. The key of the cache is
built from a release all threads share, so the invariant is that whoever is
between `BeginTurn` and `EndTurn` holds the lock and reads what is pinned
(`HoldsTheTurn`), and that what is filed under a key was made for it.

`TurnGraphProofs`, from `ConversationConstants`, `UnderstandingConstants`,
`EvidenceConstants` and `GraphConstants`, for any slots, products, messages,
threads and number of turns: every safety property of `TurnGraph` that its run
checks (`ConversationTypes`, `AdviceRests`, `RepliesAreKnown`, `AdviceApproved`,
`CasesOpenClean`, `TestimonyIsKept`, `NothingIsForgotten`). Each speaks of one
moment, and what makes it true happened several nodes, or a pause and a reply,
earlier. The invariant (`GraphInv`, theorem `Conversing`) carries it there:

* `Fit` is what holds of a thread wherever it stands. `Settled` says, by the
  node that comes next, that the request is the one resolved from the present
  facts and that the person's own words are held as facts; `Approved` who
  approved what is advised.
* `InTurn` relates the thread of a running turn to the message: the message is
  the question unless the turn resumes, and of a resumed pause what the reply
  said is known (`Heard`); after another wall only that wall is (`Clean`).
* `Parked` is where a thread nobody runs may stand, so that what is entered
  again stands where a pause or a failure left it.

The argument goes node by node (`NodeStep`, one lemma per node), over lemmas on
how facts meet (`MergeGood`, `MergeSeen`, `RetractGood`, ...). The two action
properties follow from `Steady`, which the same lemmas give for each step.

`CrawlProofs`, from `CrawlConstants`, for any site, any number of crawls and any
deaths and overlaps among them: `ReleasesContinue` (`CrawlsContinue`). It is a
property of one step, the one that moves the pointer, but what it needs was
settled while the crawl walked. `CrawlInv` (`CrawlInvariant`) keeps it: `Goes`
says what the ledger in the hands of a crawl owes to the one it was read from,
as long as no other crawl became current; `Told` that the ledger agrees with
the log, so that the archive and the ledger of a release are `Paired`;
`Accounted` that each URL the crawl was led to is still to be asked for, was
recorded, was found gone, was refused by robots.txt, or is why the crawl fails,
so that what is withdrawn was not named, is gone or was refused.

`AnsweringProofs`, from `AnsweringConstants` and `PerceptionConstants`, for any
passages, questions, audiences, drafts of the model, conversations and
photographs. `AnsweringInv` (`AnsweringInvariant`) gives, path by path:

* `OnlyForItsAudience`: each of the searches that add to the hits returns
  readable passages (`SearchesGood`, `FindPropertyGood`, `AddedGood`, up to
  `RecoveredGood`), and what is scoped, promoted, partitioned, cut or renumbered
  is a part of them (`ElementsGood`, `PromotedGood`, `SourcesGood`).
* `FiguresArePublished` and `FiguresStand`: a draft without failures backs each
  of its figures (`CheckedIsBacked`, `CheckedStands`), what the engine prints
  itself cites what it prints (`FactualGood`, `ExtractGood`, `DeferGood`,
  `DiagnosisGood`), and a marker that is renumbered leads to the passage it
  cited (`RankGood`, `StillCites`): the rank of a marker is its place among the
  sources that are left. A rewording cannot add a figure (`RewordedGood`), and
  what a refusal discloses is printed from a passage the reader may read
  (`RefusalGood`).
* `NoGuessIsKept`: the decision's slots are those the part states over those
  that were carried (`Routed`), so a slot the part does not state still has the
  origin it was carried with (`KeptGood`). It rests on the assumption that
  nothing but a product is ever carried as assumed: `engine.py` 624 and
  `understanding.py` 1131-1134 are the only places that make an origin so.

`PhotographsDoNotOverrule` needs only that the photographs were decoded
(`PerceptionInvariant`): a slot is routed only when all that may be acted on
reads one value (`RoutedIsSettled`), and one more photograph only adds to that
(`MoreIsAccepted`).

Only model-checked: `EveryJobEnds`, `TurnEnds` and `EveryRequestEnds`, because
liveness and `ENABLED` are out of the prover's reach. Every other property of a
passing run is stated by a theorem. What a recursive definition computes for
every input (the score of a term, a sum over a set) is not proved either; where
a proof meets one, it uses only what holds whatever it computes.

## 6. Where code and documentation disagree

Each of these is a run that ends in a counterexample.

* `CaveatsReachLive`: a bootstrap attaches a document's caveats to the version
  passed first, not to the live one.
* `CrawlsAdvance`: an indexer that loaded an older crawl and then waited for
  the model service reads the newer release as its parent, passes the check,
  and replaces newer content by older.
* `ReportsOwnRelease`: the release a build reports, and its job row keeps, is
  read after the commit and may be another indexer's.
* `DoneMeansPublished`: a failure whose exception has no text is recorded as
  done with no release.
* `OnlyApprovedAdvice`: of a message of several parts only the first answer is
  held to the rule that advice must have been approved in this turn.
* `RepliesAreHeeded`: a reply to an ask-back is kept as a fact, but the
  candidates are retrieved for the paused question resolved again, and what
  that question said or denied wins over the reply. Asked "What should I use on
  my stone wall?", told "it is brick", the assistant assesses stone; asked
  "Which plaster? My wall is not brick", told "stone", it asks again.
  `AdviceRestsOnTheConversation` and `NeverReasks` therefore except exactly the
  slots the paused question stated and denied.
* `WithdrawnIsGone`: what robots.txt refuses is passed over without an error and
  then loses its place in the release, although the site serves it and pages
  link to it; a robots.txt that could not be read refuses everything, and the
  crawl that broke publishes an empty release. `run` says that its failure
  marker keeps a crawl that broke from being read as pages that are gone.
  `CrawlsContinue` therefore excepts what was refused.

What the modules show beside these, by modelling it as it is:

* Turns. "I have another wall. It is not brick." is sent to `answer_state` by
  the boundary read before the facts changed, and has no answer there any more:
  the node raises (`graph.py` 421-437, `Raises`). A node that raises leaves
  `next` behind, which the next turn takes for a pause, so a short reply
  is taken as an answer to a question nobody asked (`Paused`, `engine.py`
  530-543). A resumed turn drops the photographs and the number of the new
  message. The number stops at `MAX_TURNS + 1` (`IndexOf`).
* Facts. A denial leaves the denied value in the history; a person who returns
  to it later is in conflict with their own denial (`Met`). "I have another
  wall, it is ..." opens no case, because the pattern wants a full stop
  (`conversation.py` 441-447).
* Answers. A cached answer is the very object that is later told what was seen
  in a photograph, so another visitor may be shown it (`EndTurn`). A delegated
  answer is reworded with no passages at hand (`engine.py` 500-528): only the
  comparison of texts stands between the model and the page. Short pieces of a
  message that name one topic each are not split (`router.py` 219-221).
* Photographs. Two photographs that disagree about a finish open the gate that
  one alone would close (`vision.py` 1249-1251, `Covered`).
* Sessions. `open` does not renew a persisted session; a row older than the
  memory replaces it after a refused save; the sweep of the dictionary stops at
  the first live session although `remember` renews without moving; the lookup
  is written with SQLite's placeholder, which PostgreSQL refuses, so there no
  session survives a restart (`Loads`); a session evicted between `open` and
  `remember` loses its turn. The properties are stated so that they hold with
  these: what is shown is always the visitor's own, though not always all of it.
* Crawls. A cache file half written when a crawl dies is taken by the next one
  without `--refresh` as the page (`Cut`). `cache_path` gives documents of one
  base name, and slugs such as `/a/b` and `/a-b`, one file. The pages of a
  sitemap are not deduplicated, so a page listed twice is asked for twice and,
  when it is new, stored twice (`NoDuplicateVersions`). Two overlapping crawls may give one version
  number two bodies: `CrawlsContinue` judges a crawl that replaces another than
  the release it started from only by its own log and ledger.

## 7. Not modelled

* `engine.ask` and `_ask`, the path of the command line and the evaluation: it
  runs the parts of `Answering` without the graph. The evaluation itself
  (`src/eval/`) is a program about the assistant and not part of it.
* Scores: similarity, fusion of rankings, and the caps on how much evidence is
  bound. A search is any ranking; what follows holds for every one.
* Wording: prompts, the texts of the answers, caveat lines, reports of what is
  missing. A text is the outcome of what is matched in it.
* The embedding cache is a table from a digest to a vector and cannot disagree
  with what it caches; turn traces and their pruning are read by nobody but
  operators.
* PostgreSQL's SQL: the contract is the same as SQLite's by other means, an
  advisory lock and a repeatable read. Where the adapter differs in behaviour,
  in the lookup of a session, it is modelled.
* Extraction of text from HTML and PDF: its failure is an outcome of
  `Prepare`, its content is data.
* How robots.txt and the pages are parsed: what it refuses and which documents
  a page leads to are constants of `Crawl`. Multipart parsing and pages of the web interface, audience
  resolution from start-up options, health checks, metrics and exporters keep
  no state a decision reads.
