--------------------------- MODULE KnowledgeStore ---------------------------
(***************************************************************************)
(* The knowledge store: the tables behind one KnowledgeRepository, the     *)
(* two transactions that write them and the pinned reads of the answers.   *)
(*                                                                         *)
(* The tables are a record, so that the transaction in progress (staged)   *)
(* and the committed state (db) are values of the same kind.  SQLite lets  *)
(* one writer in at a time and shows its work to nobody before COMMIT; a   *)
(* reader keeps the state it began on (WAL).  The PostgreSQL adapter gets  *)
(* the same from an advisory lock and REPEATABLE READ.                     *)
(*                                                                         *)
(* A version row carries what its chunks and caveats carry: they are       *)
(* inserted with the row and never change after it.  A row's identity is   *)
(* <<url, number>>, which is what a chunk id prints.                       *)
(***************************************************************************)
EXTENDS Integers, FiniteSets, FiniteSetsExt

CONSTANTS
    Urls,             \* canonical URLs
    Hashes,           \* content hashes
    Audiences,        \* audience tags: public, trade, staff
    Configs,          \* embedding model, dimensions and chunking version
    SnapshotIds,      \* one per publication; bounds the number of releases
    ExclusionLists,   \* what excluded_documents may hold, opaque
    Readers,          \* answers being composed
    Updates,          \* the DocumentUpdates a caller may pass
    BootstrapRows,    \* the version rows a caller may pass to publish
    MaxUpdates,       \* bound: updates in one delta
    MaxBootstrap,     \* bound: version rows in one publish
    NoDocument,       \* no row in documents
    NoSnapshot,       \* no active snapshot
    Unchecked,        \* a snapshot whose notes name no parent
    NoDelta,          \* no writing transaction
    NoRead            \* no answer being composed

NoVersion == 0        \* NULL in active_version_id and supersedes_id

Document == [audience : Audiences, active_version_id : Nat]

VersionRow == [url : Urls, number : Nat \ {0}, hash : Hashes,
               is_active : BOOLEAN, supersedes : Nat,
               audience : Audiences, vectors : Configs, caveats : BOOLEAN]

(* entry: which entry of a crawl log the update was made from, 0 for none.  *)
(* The store does not look at it; it keeps two equal updates apart.         *)
Update == [url : Urls, hash : Hashes, audience : Audiences,
           vectors : Configs, caveats : BOOLEAN, entry : Nat]

Member == [url : Urls, number : Nat \ {0}, hash : Hashes]

Parents == SnapshotIds \cup {NoSnapshot, Unchecked}

(* origin: an apply_delta adds active_versions to the notes, publish does   *)
(* not, and publish stores the caller's counts.                             *)
SnapshotRow == [id : SnapshotIds, parent : Parents, config : Configs,
                is_active : BOOLEAN, origin : {"publish", "delta"},
                members : SUBSET Member,
                document_count : Nat, chunk_count : Nat]

Tables == [documents  : [Urls -> Document \cup {NoDocument}],
           versions   : SUBSET VersionRow,
           snapshots  : SUBSET SnapshotRow,
           excluded   : ExclusionLists,
           crawl_runs : SUBSET SnapshotIds]

Delta == [updates : SUBSET Updates, removed : SUBSET Urls,
          id : SnapshotIds, parent : Parents, config : Configs,
          excluded : ExclusionLists, run : BOOLEAN]

(* One answer_log row: the release it names and the chunks it cites.        *)
LogEntry == [release : SnapshotIds \cup {NoSnapshot}, cited : SUBSET Member]

ASSUME ConstantsAssumption ==
    /\ Updates \subseteq Update
    /\ BootstrapRows \subseteq VersionRow
    /\ IsFiniteSet(Urls) /\ IsFiniteSet(BootstrapRows)
    /\ NoDocument \notin Document
    /\ NoSnapshot \notin SnapshotIds
    /\ Unchecked \notin SnapshotIds \cup {NoSnapshot}
    /\ NoDelta \notin Delta
    /\ NoRead \notin Tables \cup LogEntry

VARIABLES
    db,          \* what is committed
    staged,      \* the tables as the open transaction sees them
    delta,       \* what that transaction still has to apply, or NoDelta
    pinned,      \* the state each answer's read transaction sees, or NoRead
    reply,       \* the audit entry each answer is collecting, or NoRead
    answer_log   \* answer_log rows, committed on a connection of their own

readVars == <<pinned, reply, answer_log>>

vars == <<db, staged, delta, readVars>>

-----------------------------------------------------------------------------
(* Reads                                                                    *)

RowsOf(t, u) == {r \in t.versions : r.url = u}

AsMember(r) == [url |-> r.url, number |-> r.number, hash |-> r.hash]

(* The join through documents.active_version_id: manifest, the hashes the   *)
(* indexer diffs against, and a snapshot's membership.                      *)
LiveByPointer(t) ==
    {r \in t.versions : /\ t.documents[r.url] # NoDocument
                        /\ t.documents[r.url].active_version_id = r.number}

(* The filter on is_active: retrieval, find_passages, caveats and           *)
(* active_version.                                                          *)
LiveByFlag(t) == {r \in t.versions : r.is_active}

ActiveSnapshots(t) == {s \in t.snapshots : s.is_active}

snapshot(t) == IF ActiveSnapshots(t) = {} THEN NoSnapshot
               ELSE (CHOOSE s \in ActiveSnapshots(t) : TRUE).id

-----------------------------------------------------------------------------
(* Statements of the writing transactions                                   *)

Deactivated(t, us) ==
    {IF r.url \in us THEN [r EXCEPT !.is_active = FALSE] ELSE r : r \in t.versions}

(* Mutant: the + 1 forgotten.                                               *)
NextNumber_NotNext(t, u) == Max({0} \cup {r.number : r \in RowsOf(t, u)})

(* SELECT COALESCE(MAX(version_number), 0) + 1                              *)
NextNumber(t, u) == 1 + Max({0} \cup {r.number : r \in RowsOf(t, u)})

(* Mutant: the live row edited in place.                                    *)
ApplyOne_InPlace(t, up) ==
    LET old    == t.documents[up.url]
        number == IF old = NoDocument \/ old.active_version_id = NoVersion
                  THEN NextNumber(t, up.url) ELSE old.active_version_id
        row    == [url |-> up.url, number |-> number, hash |-> up.hash,
                   is_active |-> TRUE, supersedes |-> NoVersion,
                   audience |-> up.audience, vectors |-> up.vectors,
                   caveats |-> up.caveats]
    IN  [t EXCEPT !.documents[up.url] = [audience |-> up.audience,
                                         active_version_id |-> number],
                  !.versions = {r \in @ : r.url # up.url \/ r.number # number}
                                   \cup {row}]

(* One DocumentUpdate: deactivate what is live, insert the next version     *)
(* active with its chunks and caveats, point the document at it.            *)
ApplyOne(t, up) ==
    LET old    == t.documents[up.url]
        number == NextNumber(t, up.url)
        row    == [url |-> up.url, number |-> number, hash |-> up.hash,
                   is_active |-> TRUE,
                   supersedes |-> IF old = NoDocument THEN NoVersion
                                  ELSE old.active_version_id,
                   audience |-> up.audience, vectors |-> up.vectors,
                   caveats |-> up.caveats]
    IN  [t EXCEPT !.documents[up.url] = [audience |-> up.audience,
                                         active_version_id |-> number],
                  !.versions = Deactivated(t, {up.url}) \cup {row}]

(* Mutants: the pointer kept; the rows deleted.                             *)
Withdraw_KeepsPointer(t, removed) ==
    [t EXCEPT !.versions = Deactivated(t, removed)]

Withdraw_Deletes(t, removed) ==
    [t EXCEPT !.documents = [u \in Urls |-> IF u \in removed THEN NoDocument ELSE @[u]],
              !.versions = {r \in @ : r.url \notin removed}]

(* The removed URLs: deactivate every version, forget the pointer, delete   *)
(* nothing; a URL never stored is skipped.                                  *)
Withdraw(t, removed) ==
    LET stored == {u \in removed : t.documents[u] # NoDocument}
    IN  [t EXCEPT !.documents = [u \in Urls |->
                        IF u \in stored
                        THEN [t.documents[u] EXCEPT !.active_version_id = NoVersion]
                        ELSE t.documents[u]],
                  !.versions = Deactivated(t, stored)]

(* UPDATE index_snapshots SET is_active = 0; INSERT OR REPLACE.             *)
Activate(t, s) ==
    [t EXCEPT !.snapshots =
        {[r EXCEPT !.is_active = FALSE] : r \in {x \in t.snapshots : x.id # s.id}}
            \cup {s}]

(* The release row: membership and counts are read back from the tables,    *)
(* documents through the pointer and chunks through the flag.               *)
InsertSnapshot(t, d) ==
    Activate(t, [id |-> d.id, parent |-> d.parent, config |-> d.config,
                 is_active |-> TRUE, origin |-> "delta",
                 members |-> {AsMember(r) : r \in LiveByPointer(t)},
                 document_count |-> Cardinality(LiveByPointer(t)),
                 chunk_count |-> Cardinality(LiveByFlag(t))])

(* Mutant: the release row written before the withdrawals.                  *)
FinishDelta_CountsFirst(t, d) ==
    Withdraw([InsertSnapshot(t, d) EXCEPT
                 !.excluded = d.excluded,
                 !.crawl_runs = IF d.run THEN @ \cup {d.id} ELSE @], d.removed)

(* What follows the updates in apply_delta: withdrawals, the exclusion      *)
(* list, the crawl run and the new snapshot.                                *)
FinishDelta(t, d) ==
    LET withdrawn == [Withdraw(t, d.removed) EXCEPT
                        !.excluded = d.excluded,
                        !.crawl_runs = IF d.run THEN @ \cup {d.id} ELSE @]
    IN  InsertSnapshot(withdrawn, d)

-----------------------------------------------------------------------------
Init ==
    /\ \E x \in ExclusionLists :
           db = [documents |-> [u \in Urls |-> NoDocument], versions |-> {},
                 snapshots |-> {}, excluded |-> x, crawl_runs |-> {}]
    /\ staged = db
    /\ delta = NoDelta
    /\ pinned = [r \in Readers |-> NoRead]
    /\ reply = [r \in Readers |-> NoRead]
    /\ answer_log = {}

(* Mutant: the parent never looked at.                                      *)
ParentHolds_Unchecked(t, d) == TRUE

(* BEGIN IMMEDIATE, and the parent check that raises IndexMismatch: the     *)
(* transaction goes on only when the release it was built against is still  *)
(* the one being served.                                                    *)
ParentHolds(t, d) == d.parent = Unchecked \/ d.parent = snapshot(t)

BeginDelta(d) ==
    /\ delta = NoDelta
    /\ ParentHolds(db, d)
    /\ delta' = d
    /\ UNCHANGED <<db, staged, readVars>>

(* One iteration of the loop over updates.                                  *)
StageUpdate ==
    /\ delta # NoDelta
    /\ \E up \in delta.updates :
           /\ staged' = ApplyOne(staged, up)
           /\ delta' = [delta EXCEPT !.updates = @ \ {up}]
    /\ UNCHANGED <<db, readVars>>

(* The rest of the transaction and its COMMIT.                              *)
CommitDelta ==
    /\ delta # NoDelta
    /\ delta.updates = {}
    /\ staged' = FinishDelta(staged, delta)
    /\ db' = staged'
    /\ delta' = NoDelta
    /\ UNCHANGED readVars

(* Any exception inside the transaction, or the death of its process.       *)
Rollback ==
    /\ delta # NoDelta
    /\ staged' = db
    /\ delta' = NoDelta
    /\ UNCHANGED <<db, readVars>>

(* publish: the bootstrap replacement.  Every row goes, what the caller     *)
(* passes comes in; a version of a document that was not passed is skipped, *)
(* and the caveats of a URL go to the first of its versions inserted.  The  *)
(* UNIQUE constraints refuse two versions with one number or two active     *)
(* versions of a document, and then nothing happens at all.                 *)
Replacement(t, docs, rows, first, caveated, s) ==
    LET active(u) == {r \in rows : r.url = u /\ r.is_active}
    IN  Activate([t EXCEPT
          !.documents = [u \in Urls |->
              IF docs[u] = NoDocument THEN NoDocument
              ELSE [audience |-> docs[u],
                    active_version_id |-> IF active(u) = {} THEN NoVersion
                                          ELSE (CHOOSE r \in active(u) : TRUE).number]],
          !.versions = {[r EXCEPT !.supersedes = NoVersion,
                                  !.caveats = /\ r.url \in caveated
                                              /\ first[r.url] = r.number] : r \in rows}],
          s)

Insertable(rows) ==
    \A r, q \in rows : /\ r.url = q.url
                       /\ r.number = q.number \/ (r.is_active /\ q.is_active)
                       => r = q

Publish(docs, passed, first, caveated, id, config) ==
    LET rows == {r \in passed : docs[r.url] # NoDocument}
    IN  /\ delta = NoDelta
        /\ Insertable(rows)
        /\ \A r \in rows : \E q \in rows : q.url = r.url /\ q.number = first[r.url]
        /\ \E x \in ExclusionLists :
               db' = [Replacement(db, docs, rows, first, caveated,
                        [id |-> id, parent |-> Unchecked, config |-> config,
                         is_active |-> TRUE, origin |-> "publish", members |-> {},
                         document_count |->
                             Cardinality({u \in Urls : docs[u] # NoDocument}),
                         chunk_count |-> Cardinality(passed)])
                      EXCEPT !.excluded = x]
        /\ staged' = db'
        /\ UNCHANGED <<delta, readVars>>

-----------------------------------------------------------------------------
(* One answer: read_snapshot, the reads inside it, and the audit row that   *)
(* log_answer writes afterwards on its own connection.                      *)

BeginRead(r) ==
    /\ reply[r] = NoRead
    /\ pinned' = [pinned EXCEPT ![r] = db]
    /\ reply' = [reply EXCEPT ![r] = [release |-> snapshot(db), cited |-> {}]]
    /\ UNCHANGED <<db, staged, delta, answer_log>>

Retrieve(r) ==
    /\ pinned[r] # NoRead
    /\ \E row \in LiveByFlag(pinned[r]) :
           reply' = [reply EXCEPT ![r].cited = @ \cup {AsMember(row)}]
    /\ UNCHANGED <<db, staged, delta, pinned, answer_log>>

EndRead(r) ==
    /\ pinned[r] # NoRead
    /\ pinned' = [pinned EXCEPT ![r] = NoRead]
    /\ UNCHANGED <<db, staged, delta, reply, answer_log>>

(* Mutant: the release looked up when the row is written.                   *)
LogAnswer_CurrentRelease(r) ==
    /\ pinned[r] = NoRead
    /\ reply[r] # NoRead
    /\ delta = NoDelta
    /\ answer_log' = answer_log \cup {[reply[r] EXCEPT !.release = snapshot(db)]}
    /\ reply' = [reply EXCEPT ![r] = NoRead]
    /\ UNCHANGED <<db, staged, delta, pinned>>

(* The insert waits for the writer's lock, and the foreign key needs the    *)
(* snapshot row to exist.                                                   *)
LogAnswer(r) ==
    /\ pinned[r] = NoRead
    /\ reply[r] # NoRead
    /\ delta = NoDelta
    /\ reply[r].release \in {s.id : s \in db.snapshots} \cup {NoSnapshot}
    /\ answer_log' = answer_log \cup {reply[r]}
    /\ reply' = [reply EXCEPT ![r] = NoRead]
    /\ UNCHANGED <<db, staged, delta, pinned>>

(* The insert failed; the answer is given all the same.                     *)
LoseLog(r) ==
    /\ pinned[r] = NoRead
    /\ reply[r] # NoRead
    /\ reply' = [reply EXCEPT ![r] = NoRead]
    /\ UNCHANGED <<db, staged, delta, pinned, answer_log>>

ReadNext(r) == BeginRead(r) \/ Retrieve(r) \/ EndRead(r) \/ LogAnswer(r) \/ LoseLog(r)

-----------------------------------------------------------------------------
Fresh == SnapshotIds \ {s.id : s \in db.snapshots}

UpTo(n, S) == UNION {kSubset(k, S) : k \in 0..n}

(* The indexer names a parent and records a crawl run; other callers do     *)
(* neither.                                                                 *)
BeginAnyDelta ==
    \E ups \in UpTo(MaxUpdates, Updates), removed \in SUBSET Urls, id \in Fresh,
       parent \in Parents, config \in Configs, x \in ExclusionLists :
        BeginDelta([updates |-> ups, removed |-> removed, id |-> id,
                    parent |-> parent, config |-> config, excluded |-> x,
                    run |-> parent # Unchecked])

(* A caller tags the chunks of a document with the document's audience.     *)
PublishAny ==
    \E rows \in UpTo(MaxBootstrap, BootstrapRows),
       docs \in [Urls -> Audiences \cup {NoDocument}] :
        /\ \A r \in rows : docs[r.url] \in {r.audience, NoDocument}
        /\ \E caveated \in SUBSET {r.url : r \in rows}, id \in Fresh, config \in Configs,
              first \in [Urls -> {r.number : r \in BootstrapRows}] :
               Publish(docs, rows, first, caveated, id, config)

Next ==
    \/ BeginAnyDelta
    \/ StageUpdate
    \/ CommitDelta
    \/ Rollback
    \/ PublishAny
    \/ \E r \in Readers : ReadNext(r)

Spec == Init /\ [][Next]_vars

-----------------------------------------------------------------------------
TypeOK ==
    /\ db \in Tables
    /\ staged \in Tables
    /\ delta \in Delta \cup {NoDelta}
    /\ pinned \in [Readers -> Tables \cup {NoRead}]
    /\ reply \in [Readers -> LogEntry \cup {NoRead}]
    /\ answer_log \subseteq LogEntry

(* The two columns that say which version is live, documents'               *)
(* active_version_id and document_versions' is_active, never disagree:      *)
(* retrieval follows the one, the manifest and the indexer's diff the       *)
(* other.                                                                   *)
LiveAgrees(t) == LiveByFlag(t) = LiveByPointer(t)

(* The UNIQUE constraints hold of the tables without having to refuse       *)
(* anything apply_delta does.                                               *)
ConstraintsHold(t) ==
    /\ \A r, q \in t.versions :
           r.url = q.url /\ (r.number = q.number \/ (r.is_active /\ q.is_active)) => r = q
    /\ \A s, q \in ActiveSnapshots(t) : s = q
    /\ \A s, q \in t.snapshots : s.id = q.id => s = q

(* A chunk's audience, which filters retrieval, is the audience of its      *)
(* document, which filters the manifest.                                    *)
AudienceAgrees(t) ==
    \A r \in LiveByFlag(t) : /\ t.documents[r.url] # NoDocument
                             /\ t.documents[r.url].audience = r.audience

(* supersedes_id names an earlier version of the same document that is no   *)
(* longer live: the chain behind "why did it say that" has no cycle.        *)
SupersedesEarlier(t) ==
    \A r \in t.versions : r.supersedes # NoVersion =>
        \E q \in RowsOf(t, r.url) : /\ q.number = r.supersedes
                                    /\ q.number < r.number
                                    /\ ~q.is_active

(* Readers of the committed state and the statements of an open transaction *)
(* both see tables whose parts agree, whatever deltas and bootstraps came   *)
(* before, in whatever order.                                               *)
Consistent ==
    \A t \in {db, staged} :
        LiveAgrees(t) /\ ConstraintsHold(t) /\ AudienceAgrees(t) /\ SupersedesEarlier(t)

(* Caveats belong to a document: while any of its versions carries them,    *)
(* the live one does (callers pass the caveats with every version).         *)
CaveatsReachLive ==
    \A r \in LiveByFlag(db) : (\E q \in RowsOf(db, r.url) : q.caveats) => r.caveats

(* What the active release records of itself is what is live: membership,   *)
(* and both counts, although they are counted through different joins.      *)
RecordsLive(t) ==
    \A s \in ActiveSnapshots(t) : s.origin = "delta" =>
        /\ s.members = {AsMember(r) : r \in LiveByFlag(t)}
        /\ s.document_count = Cardinality(s.members)
        /\ s.chunk_count = Cardinality(s.members)

ReleaseRecordsLive == RecordsLive(db)
=============================================================================
