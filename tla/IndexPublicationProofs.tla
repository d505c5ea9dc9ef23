----------------------- MODULE IndexPublicationProofs -----------------------
(***************************************************************************)
(* Any number of indexers, crawls, authored sources and answers around one *)
(* store: no release is lost, each stays explicable, history is only added *)
(* to, what is live was embedded as its release declares, and all of it    *)
(* together implements the release chain.                                  *)
(***************************************************************************)
EXTENDS IndexPublication, KnowledgeStoreProofs

Ids(t) == {s.id : s \in t.snapshots}

(* A row at a later time: as it was, or no longer live.                     *)
Retired(r) == [r EXCEPT !.is_active = FALSE]
Later(r, q) == q = r \/ (r.is_active /\ q = Retired(r))
Keeps(old, new) == \A r \in old.versions : \E q \in new.versions : Later(r, q)

-----------------------------------------------------------------------------
(* What the statements of a transaction leave of a row.                     *)
LEMMA RetiredFields ==
  ASSUME NEW r \in VersionRow
  PROVE  /\ Retired(r) \in VersionRow /\ ~Retired(r).is_active
         /\ AsMember(Retired(r)) = AsMember(r)
         /\ Retired(r).url = r.url /\ Retired(r).number = r.number
         /\ Retired(r).hash = r.hash /\ Retired(r).vectors = r.vectors
         /\ Retired(r).supersedes = r.supersedes
         /\ ~r.is_active => Retired(r) = r
BY DEF Retired, VersionRow, AsMember

LEMMA LaterFields ==
  ASSUME NEW r \in VersionRow, NEW q, Later(r, q)
  PROVE  /\ q \in VersionRow /\ AsMember(q) = AsMember(r)
         /\ q.url = r.url /\ q.number = r.number /\ q.hash = r.hash
         /\ q.vectors = r.vectors /\ q.supersedes = r.supersedes
         /\ q.is_active => q = r
BY RetiredFields DEF Later

LEMMA LaterStill ==
  ASSUME NEW r \in VersionRow, NEW q, NEW x, Later(r, q), Later(q, x)
  PROVE  Later(r, x)
BY RetiredFields DEF Later

LEMMA KeepsItself ==
  ASSUME NEW t
  PROVE  Keeps(t, t)
BY DEF Keeps, Later

LEMMA KeepsOn ==
  ASSUME NEW a \in Tables, NEW b, NEW c, Keeps(a, b), Keeps(b, c)
  PROVE  Keeps(a, c)
<1> SUFFICES ASSUME NEW r \in a.versions PROVE \E x \in c.versions : Later(r, x)
  BY DEF Keeps
<1>1. r \in VersionRow
  BY DEF Tables
<1>2. PICK q \in b.versions : Later(r, q)
  BY DEF Keeps
<1>3. PICK x \in c.versions : Later(q, x)
  BY DEF Keeps
<1> QED BY <1>1, <1>2, <1>3, LaterStill

LEMMA OffIsLater ==
  ASSUME NEW r \in VersionRow, NEW us
  PROVE  Later(r, Off(r, us))
BY RetiredFields DEF Off, Later, Retired

LEMMA DeactivatedKeeps ==
  ASSUME NEW t \in Tables, NEW us, NEW n, Deactivated(t, us) \subseteq n.versions
  PROVE  Keeps(t, n)
<1> SUFFICES ASSUME NEW r \in t.versions PROVE \E q \in n.versions : Later(r, q)
  BY DEF Keeps
<1>1. r \in VersionRow
  BY DEF Tables
<1>2. Off(r, us) \in n.versions
  BY DeactivatedRows
<1> QED BY <1>1, <1>2, OffIsLater

(* A statement of an open delta leaves releases and crawl runs alone.       *)
LEMMA ApplyOneKeeps ==
  ASSUME NEW t, Sound(t), NEW up \in Update
  PROVE  /\ Keeps(t, ApplyOne(t, up))
         /\ ApplyOne(t, up).snapshots = t.snapshots
         /\ ApplyOne(t, up).crawl_runs = t.crawl_runs
<1>1. t \in Tables /\ IsFiniteSet(t.versions)
  BY DEF Sound
<1>2. /\ ApplyOne(t, up).versions = Deactivated(t, {up.url}) \cup {NewRow(t, up)}
      /\ ApplyOne(t, up).snapshots = t.snapshots
  BY <1>1, ApplyOneFields
<1>3. ApplyOne(t, up).crawl_runs = t.crawl_runs
  BY <1>1 DEF ApplyOne, Tables
<1>4. Keeps(t, ApplyOne(t, up))
  BY <1>1, <1>2, DeactivatedKeeps
<1> QED BY <1>2, <1>3, <1>4

(* The documents a delta withdraws.                                         *)
Stored(t, removed) == {u \in removed : t.documents[u] # NoDocument}

LEMMA WithdrawFields ==
  ASSUME NEW t \in Tables, NEW removed
  PROVE  /\ Withdraw(t, removed).versions = Deactivated(t, Stored(t, removed))
         /\ Withdraw(t, removed).crawl_runs = t.crawl_runs
         /\ Withdraw(t, removed).snapshots = t.snapshots
BY DEF Withdraw, Stored, Tables

LEMMA ActivateFields ==
  ASSUME NEW t \in Tables, NEW s
  PROVE  /\ Activate(t, s).crawl_runs = t.crawl_runs
         /\ Activate(t, s).versions = t.versions
         /\ Activate(t, s).snapshots =
               {Retired(r) : r \in {x \in t.snapshots : x.id # s.id}} \cup {s}
BY DEF Activate, Tables, Retired

(* The release row a delta leaves behind tells what is live in its tables.  *)
Tells(s, d, t) ==
    /\ s \in SnapshotRow
    /\ s.id = d.id /\ s.parent = d.parent /\ s.config = d.config
    /\ s.is_active /\ s.origin = "delta"
    /\ s.members = {AsMember(r) : r \in LiveByFlag(t)}

LEMMA FinishDeltaFields ==
  ASSUME NEW t, Sound(t), NEW d \in Delta
  PROVE  /\ FinishDelta(t, d).versions = Deactivated(t, Stored(t, d.removed))
         /\ FinishDelta(t, d).crawl_runs =
               IF d.run THEN t.crawl_runs \cup {d.id} ELSE t.crawl_runs
         /\ \E s : /\ Tells(s, d, FinishDelta(t, d))
                   /\ ActiveSnapshots(FinishDelta(t, d)) = {s}
                   /\ FinishDelta(t, d).snapshots =
                         {Retired(r) : r \in {x \in t.snapshots : x.id # d.id}} \cup {s}
<1> DEFINE w == Withdraw(t, d.removed)
           runs == IF d.run THEN w.crawl_runs \cup {d.id} ELSE w.crawl_runs
           x == [w EXCEPT !.excluded = d.excluded, !.crawl_runs = runs]
           s == [id |-> d.id, parent |-> d.parent, config |-> d.config,
                 is_active |-> TRUE, origin |-> "delta",
                 members |-> {AsMember(r) : r \in LiveByPointer(x)},
                 document_count |-> Cardinality(LiveByPointer(x)),
                 chunk_count |-> Cardinality(LiveByFlag(x))]
           F == FinishDelta(t, d)
<1>1. d.removed \in SUBSET Urls /\ d.id \in SnapshotIds /\ d.excluded \in ExclusionLists
  BY DEF Delta
<1>2. t \in Tables
  BY DEF Sound
<1>3. Sound(w)
  BY <1>1, WithdrawSound
<1>4. w \in Tables
  BY <1>3 DEF Sound
<1>5. /\ w.versions = Deactivated(t, Stored(t, d.removed))
      /\ w.crawl_runs = t.crawl_runs /\ w.snapshots = t.snapshots
  BY <1>2, WithdrawFields
<1>6. F = Activate(x, s)
  BY DEF FinishDelta, InsertSnapshot
<1> HIDE DEF w, F
<1>7. runs \subseteq SnapshotIds
  BY <1>1, <1>4 DEF Tables
<1> HIDE DEF runs
<1>8. /\ x \in Tables /\ x.documents = w.documents /\ x.versions = w.versions
      /\ x.snapshots = w.snapshots /\ x.crawl_runs = runs
  BY <1>1, <1>4, <1>7 DEF Tables
<1> HIDE DEF x
<1>9. Sound(x)
  BY <1>3, <1>8, SoundFields
<1>10. s.id = d.id /\ s.is_active
  OBVIOUS
<1>11. LiveByPointer(x) = LiveByFlag(x)
  BY <1>9 DEF Sound, LiveAgrees
<1>12. s \in SnapshotRow
  <2>1. IsFiniteSet(x.versions) /\ x.versions \subseteq VersionRow
    BY <1>9 DEF Sound, Tables
  <2>2. LiveByFlag(x) \subseteq x.versions
    BY DEF LiveByFlag
  <2>3. Cardinality(LiveByFlag(x)) \in Nat
    BY <2>1, <2>2, FS_Subset, FS_CardinalityType
  <2>4. {AsMember(r) : r \in LiveByPointer(x)} \subseteq Member
    BY <1>11, <2>1, <2>2 DEF AsMember, Member, VersionRow
  <2> QED BY <1>11, <2>3, <2>4 DEF SnapshotRow, Delta
<1>13. s.members = {AsMember(r) : r \in LiveByFlag(x)}
  BY <1>11
<1>14. s.parent = d.parent /\ s.config = d.config /\ s.origin = "delta"
  OBVIOUS
<1> HIDE DEF s
<1>15. /\ F.versions = x.versions /\ F.crawl_runs = x.crawl_runs
       /\ F.snapshots = {Retired(r) : r \in {y \in x.snapshots : y.id # s.id}} \cup {s}
  BY <1>6, <1>8, ActivateFields
<1>16. ActiveSnapshots(F) = {s}
  BY <1>6, <1>9, <1>10, <1>12, ActivateSound
<1>17. LiveByFlag(F) = LiveByFlag(x)
  BY <1>15 DEF LiveByFlag
<1>18. Tells(s, d, F)
  BY <1>10, <1>12, <1>13, <1>14, <1>17 DEF Tells
<1>19. F.snapshots = {Retired(r) : r \in {y \in t.snapshots : y.id # d.id}} \cup {s}
  BY <1>5, <1>8, <1>10, <1>15
<1>20. F.versions = Deactivated(t, Stored(t, d.removed))
  BY <1>5, <1>8, <1>15
<1>21. F.crawl_runs = IF d.run THEN t.crawl_runs \cup {d.id} ELSE t.crawl_runs
  BY <1>5, <1>8, <1>15 DEF runs
<1> QED BY <1>16, <1>18, <1>19, <1>20, <1>21 DEF F

-----------------------------------------------------------------------------
(* The releases of a store: each but the first replaces the one before it,  *)
(* the last is served, and what one served is still stored.                 *)
Chained(t) ==
    /\ \A s \in t.snapshots : s.parent \in Ids(t) \cup {NoSnapshot} /\ s.origin = "delta"
    /\ \A s, q \in t.snapshots : s.parent = q.parent => s = q
    /\ \A s \in t.snapshots, q \in ActiveSnapshots(t) : s.parent # q.id
    /\ t.snapshots # {} => ActiveSnapshots(t) # {}
    /\ t.snapshots = {} => t.versions = {}

Explained(t) ==
    \A s \in t.snapshots :
        /\ \A m \in s.members : \E r \in t.versions : AsMember(r) = m
        /\ s.id \in t.crawl_runs

LEMMA SnapshotRetired ==
  ASSUME NEW r \in SnapshotRow
  PROVE  /\ Retired(r) \in SnapshotRow /\ ~Retired(r).is_active
         /\ Retired(r).id = r.id /\ Retired(r).parent = r.parent
         /\ Retired(r).config = r.config /\ Retired(r).origin = r.origin
         /\ Retired(r).members = r.members
         /\ ~r.is_active => Retired(r) = r
BY DEF Retired, SnapshotRow

(* The release served, when there is one.                                   *)
LEMMA Served ==
  ASSUME NEW t, Sound(t)
  PROVE  /\ \A s \in ActiveSnapshots(t) : s.id = snapshot(t) /\ s \in SnapshotRow
         /\ snapshot(t) # NoSnapshot =>
               \E s \in ActiveSnapshots(t) : s.id = snapshot(t)
         /\ snapshot(t) \in Ids(t) \cup {NoSnapshot}
         /\ ActiveSnapshots(t) = {} => snapshot(t) = NoSnapshot
         /\ ActiveSnapshots(t) # {} => snapshot(t) # NoSnapshot
<1>1. ActiveSnapshots(t) \subseteq t.snapshots /\ t.snapshots \subseteq SnapshotRow
  BY DEF ActiveSnapshots, Sound, Tables
<1>2. CASE ActiveSnapshots(t) = {}
  BY <1>2 DEF snapshot
<1>3. CASE ActiveSnapshots(t) # {}
  <2> DEFINE a == CHOOSE s \in ActiveSnapshots(t) : TRUE
  <2>1. a \in ActiveSnapshots(t)
    BY <1>3
  <2>2. snapshot(t) = a.id
    BY <1>3 DEF snapshot
  <2> HIDE DEF a
  <2>3. \A s \in ActiveSnapshots(t) : s = a
    BY <2>1 DEF Sound, ConstraintsHold
  <2>4. a.id \in SnapshotIds
    BY <1>1, <2>1 DEF SnapshotRow
  <2> QED BY <1>1, <2>1, <2>2, <2>3, <2>4, ConstantsAssumption DEF Ids
<1> QED BY <1>2, <1>3

(* A delta against the release that is served, under a new id, makes the    *)
(* chain one longer.                                                        *)
LEMMA FinishDeltaChains ==
  ASSUME NEW old, Sound(old), Chained(old), Explained(old),
         NEW t, Sound(t), t.snapshots = old.snapshots, t.crawl_runs = old.crawl_runs,
         Keeps(old, t),
         NEW d \in Delta, d.run, d.id \notin Ids(old), d.parent = snapshot(old)
  PROVE  /\ Chained(FinishDelta(t, d)) /\ Explained(FinishDelta(t, d))
         /\ Keeps(old, FinishDelta(t, d))
         /\ Ids(FinishDelta(t, d)) = Ids(old) \cup {d.id}
         /\ snapshot(FinishDelta(t, d)) = d.id
         /\ \A s \in old.snapshots : \E q \in FinishDelta(t, d).snapshots :
               q.id = s.id /\ q.members = s.members
<1> DEFINE F == FinishDelta(t, d)
<1>1. /\ F.versions = Deactivated(t, Stored(t, d.removed))
      /\ F.crawl_runs = old.crawl_runs \cup {d.id}
  BY FinishDeltaFields
<1>2. PICK s : /\ Tells(s, d, F)
               /\ ActiveSnapshots(F) = {s}
               /\ F.snapshots =
                     {Retired(r) : r \in {x \in t.snapshots : x.id # d.id}} \cup {s}
  BY FinishDeltaFields
<1>3. Sound(F)
  BY FinishDeltaSound
<1> HIDE DEF F
<1>4. old \in Tables /\ old.snapshots \subseteq SnapshotRow
  BY DEF Sound, Tables
<1>5. F.snapshots = {Retired(r) : r \in old.snapshots} \cup {s}
  <2>1. {x \in t.snapshots : x.id # d.id} = old.snapshots
    BY DEF Ids
  <2> QED BY <1>2, <2>1
<1>6. \A r \in old.snapshots :
        /\ Retired(r) \in SnapshotRow /\ Retired(r).id = r.id
        /\ Retired(r).parent = r.parent /\ Retired(r).origin = r.origin
        /\ Retired(r).members = r.members
  BY <1>4, SnapshotRetired
<1>7. Ids(F) = Ids(old) \cup {d.id}
  BY <1>2, <1>5, <1>6 DEF Ids, Tells
<1>8. snapshot(F) = d.id
  BY <1>2, <1>3, Served DEF Tells
<1>9. Keeps(old, F)
  <2>1. Keeps(t, F)
    BY <1>1, DeactivatedKeeps DEF Sound
  <2> QED BY <1>4, <2>1, KeepsOn
<1>10. snapshot(old) \in Ids(old) \cup {NoSnapshot}
  BY Served
<1>11. d.id \in SnapshotIds
  BY DEF Delta
<1>12. \A r \in old.snapshots : r.parent # d.parent
  <2> SUFFICES ASSUME NEW r \in old.snapshots, r.parent = snapshot(old) PROVE FALSE
    OBVIOUS
  <2>1. PICK a \in ActiveSnapshots(old) : TRUE
    BY DEF Chained
  <2>2. a.id = snapshot(old)
    BY <2>1, Served
  <2> QED BY <2>1, <2>2 DEF Chained
<1>13. Chained(F)
  <2>1. \A x \in F.snapshots : x.parent \in Ids(F) \cup {NoSnapshot} /\ x.origin = "delta"
    <3>1. s.parent \in Ids(F) \cup {NoSnapshot} /\ s.origin = "delta"
      BY <1>2, <1>7, <1>10 DEF Tells
    <3>2. \A r \in old.snapshots : r.parent \in Ids(F) \cup {NoSnapshot} /\ r.origin = "delta"
      BY <1>7 DEF Chained
    <3> QED BY <1>5, <1>6, <3>1, <3>2
  <2>2. \A x, y \in F.snapshots : x.parent = y.parent => x = y
    <3> SUFFICES ASSUME NEW x \in F.snapshots, NEW y \in F.snapshots, x.parent = y.parent
                 PROVE  x = y
      OBVIOUS
    <3>1. s.parent = d.parent
      BY <1>2 DEF Tells
    <3>2. CASE x = s \/ y = s
      BY <1>5, <1>6, <1>12, <3>1, <3>2
    <3>3. CASE x # s /\ y # s
      <4>1. PICK a \in old.snapshots : x = Retired(a)
        BY <1>5, <3>3
      <4>2. PICK b \in old.snapshots : y = Retired(b)
        BY <1>5, <3>3
      <4>3. a.parent = b.parent
        BY <1>6, <4>1, <4>2
      <4> QED BY <4>1, <4>2, <4>3 DEF Chained
    <3> QED BY <3>2, <3>3
  <2>3. \A x \in F.snapshots, y \in ActiveSnapshots(F) : x.parent # y.id
    <3> SUFFICES ASSUME NEW x \in F.snapshots PROVE x.parent # d.id
      BY <1>2 DEF Tells
    <3>1. d.id # NoSnapshot
      BY <1>11, ConstantsAssumption
    <3>2. s.parent # d.id
      BY <1>2, <1>10, <3>1 DEF Tells
    <3>3. \A r \in old.snapshots : r.parent # d.id
      BY <3>1 DEF Chained
    <3> QED BY <1>5, <1>6, <3>2, <3>3
  <2>4. F.snapshots # {} /\ ActiveSnapshots(F) # {}
    BY <1>2, <1>5
  <2> QED BY <2>1, <2>2, <2>3, <2>4 DEF Chained
<1>14. Explained(F)
  <2> SUFFICES ASSUME NEW x \in F.snapshots
               PROVE  /\ \A m \in x.members : \E r \in F.versions : AsMember(r) = m
                      /\ x.id \in F.crawl_runs
    BY DEF Explained
  <2>1. CASE x = s
    <3>1. x.id = d.id /\ x.members = {AsMember(r) : r \in LiveByFlag(F)}
      BY <1>2, <2>1 DEF Tells
    <3> QED BY <1>1, <3>1 DEF LiveByFlag
  <2>2. CASE x # s
    <3>1. PICK a \in old.snapshots : x = Retired(a)
      BY <1>5, <2>2
    <3>2. x.members = a.members /\ x.id = a.id
      BY <1>6, <3>1
    <3>3. \A m \in a.members : \E r \in F.versions : AsMember(r) = m
      <4> SUFFICES ASSUME NEW m \in a.members
                   PROVE  \E r \in F.versions : AsMember(r) = m
        OBVIOUS
      <4>1. PICK r \in old.versions : AsMember(r) = m
        BY DEF Explained
      <4>2. PICK q \in F.versions : Later(r, q)
        BY <1>9 DEF Keeps
      <4>3. r \in VersionRow
        BY <1>4 DEF Tables
      <4> QED BY <4>1, <4>2, <4>3, LaterFields
    <3>4. a.id \in F.crawl_runs
      BY <1>1 DEF Explained
    <3> QED BY <3>2, <3>3, <3>4
  <2> QED BY <2>1, <2>2
<1>15. \A r \in old.snapshots : \E q \in F.snapshots : q.id = r.id /\ q.members = r.members
  BY <1>5, <1>6
<1> QED BY <1>7, <1>8, <1>9, <1>13, <1>14, <1>15 DEF F

-----------------------------------------------------------------------------
(* The builders and the one transaction.                                    *)
Planning == {"ready", "publishing"}

(* What a builder's delta says is what the builder read.                    *)
Agreed(x) ==
    /\ x.delta \in Delta /\ x.delta.run
    /\ x.delta.id \notin Ids(db)
    /\ x.delta.parent = x.parent /\ x.delta.config = x.config

WellBuilt(x) ==
    /\ x \in BuildState
    /\ x.pc # "idle" => x.crawl \in 1..Len(crawls) /\ x.config \in Configs
    /\ x.parent \in Ids(db) \cup {NoSnapshot}
    /\ x.pc \in Planning => Agreed(x)

Builds ==
    /\ crawls \in Seq(CrawlReleases) /\ Len(crawls) \in 1..MaxCrawls
    /\ staff \in [StaffUrls -> StaffHashes \cup {Absent}]
    /\ basis \in [SnapshotIds -> 0..MaxCrawls]
    /\ build \in [Builders -> BuildState]
    /\ \A b \in Builders : WellBuilt(build[b])
    /\ \A b, c \in Builders :
          /\ build[b].pc \in Planning /\ build[c].pc \in Planning
          /\ build[b].delta.id = build[c].delta.id
          => b = c

(* The open transaction is the one of the one builder that publishes, and   *)
(* its parent is still served.                                              *)
Opened(b) ==
    /\ delta.updates \subseteq build[b].delta.updates
    /\ delta.removed = build[b].delta.removed
    /\ delta.id = build[b].delta.id /\ delta.parent = build[b].delta.parent
    /\ delta.config = build[b].delta.config /\ delta.run = build[b].delta.run
    /\ delta.parent = snapshot(db)

OneTransaction ==
    /\ \A b \in Builders : build[b].pc = "publishing" => delta # NoDelta /\ Opened(b)
    /\ \A b, c \in Builders : build[b].pc = "publishing" /\ build[c].pc = "publishing" => b = c
    /\ delta = NoDelta => staged = db
    /\ staged.snapshots = db.snapshots /\ staged.crawl_runs = db.crawl_runs
    /\ Keeps(db, staged)

(* A release that served what was cited.                                    *)
Told(release, cited) ==
    IF release = NoSnapshot THEN cited = {}
    ELSE \E s \in db.snapshots : s.id = release /\ cited \subseteq s.members

ReadersTell ==
    \A r \in Readers :
        /\ reply[r] # NoRead => Told(reply[r].release, reply[r].cited)
        /\ pinned[r] # NoRead =>
              Told(reply[r].release, {AsMember(x) : x \in LiveByFlag(pinned[r])})

IndexInv ==
    /\ IInv
    /\ Chained(db) /\ Explained(db)
    /\ Builds
    /\ OneTransaction
    /\ ReadersTell /\ AnswersExplicable

(* A step of one builder outside the transaction.                           *)
LEMMA BuilderStep ==
  ASSUME IndexInv, NEW b \in Builders, build[b].pc # "publishing",
         UNCHANGED <<vars, crawls, staff, basis>>,
         NEW x, build' = [build EXCEPT ![b] = x], WellBuilt(x), x.pc # "publishing",
         x.pc = "ready" => \A c \in Builders :
             build[c].pc \in Planning /\ build[c].delta.id = x.delta.id => c = b
  PROVE  IndexInv'
<1>1. build \in [Builders -> BuildState] /\ x \in BuildState
  BY DEF IndexInv, Builds, WellBuilt
<1>2. build' \in [Builders -> BuildState]
  BY <1>1
<1>3. build'[b] = x /\ \A c \in Builders : c # b => build'[c] = build[c]
  BY <1>1
<1>4. /\ UNCHANGED <<db, staged, delta, pinned, reply, answer_log, crawls, staff, basis>>
  BY DEF vars, readVars
<1>5. IInv'
  BY <1>4 DEF IndexInv, IInv, TypeOK, ReadersCollect, ReleaseRecordsLive
<1>6. Chained(db)' /\ Explained(db)'
  BY <1>4 DEF IndexInv
<1>7. Builds'
  <2>1. \A c \in Builders : WellBuilt(build[c])'
    <3> SUFFICES ASSUME NEW c \in Builders PROVE WellBuilt(build[c])'
      OBVIOUS
    <3>1. CASE c = b
      BY <1>3, <1>4, <3>1 DEF WellBuilt, Agreed
    <3>2. CASE c # b
      BY <1>3, <1>4, <3>2 DEF WellBuilt, Agreed, IndexInv, Builds
    <3> QED BY <3>1, <3>2
  <2>2. \A c, e \in Builders :
          /\ build'[c].pc \in Planning /\ build'[e].pc \in Planning
          /\ build'[c].delta.id = build'[e].delta.id
          => c = e
    BY <1>3 DEF IndexInv, Builds, Planning
  <2> QED BY <1>2, <1>4, <2>1, <2>2 DEF IndexInv, Builds
<1>8. OneTransaction'
  BY <1>3, <1>4 DEF IndexInv, OneTransaction, Opened
<1>9. ReadersTell' /\ AnswersExplicable'
  BY <1>4 DEF IndexInv, ReadersTell, Told, AnswersExplicable
<1> QED BY <1>5, <1>6, <1>7, <1>8, <1>9 DEF IndexInv

(* A bundle: every page in its ledger has an entry with that content.       *)
LEMMA BundleFields ==
  ASSUME NEW crawl \in CrawlReleases
  PROVE  /\ \A u \in Fetched(crawl) : u \in WebUrls /\ crawl.pages[u] \in PageHashes
         /\ DOMAIN crawl.fetched \subseteq 1..MaxListed
         /\ \A i \in DOMAIN crawl.fetched :
               /\ crawl.fetched[i] \in Fetch
               /\ crawl.fetched[i].url \in Fetched(crawl)
         /\ \A u \in Fetched(crawl) : \E i \in Matching(crawl) : crawl.fetched[i].url = u
         /\ crawl.errors \subseteq WebUrls /\ crawl.errors \cap Fetched(crawl) = {}
         /\ crawl.skipped \in ExclusionLists
<1> DEFINE log == crawl.fetched
           Listed(u) == {i \in DOMAIN log : log[i].url = u}
<1>1. /\ crawl.pages \in [WebUrls -> PageHashes \cup {Absent}]
      /\ crawl.errors \subseteq WebUrls /\ crawl.skipped \in ExclusionLists
      /\ \A u \in crawl.errors : crawl.pages[u] = Absent
  BY DEF CrawlReleases
<1>2. PICK n \in 0..MaxListed : log \in [1..n -> Fetch]
  BY DEF CrawlReleases
<1>3. \A u \in WebUrls :
        \/ Listed(u) = {} /\ crawl.pages[u] = Absent
        \/ \E i \in Listed(u) : crawl.pages[u] = log[i].hash
  BY DEF CrawlReleases
<1>4. MaxListed \in Nat /\ Absent \notin PageHashes
  BY SourcesAssumption
<1>5. DOMAIN log = 1..n /\ DOMAIN log \subseteq 1..MaxListed
  BY <1>2, <1>4
<1>6. \A i \in DOMAIN log : log[i] \in Fetch /\ log[i].url \in WebUrls /\ log[i].hash \in PageHashes
  BY <1>2, <1>5 DEF Fetch
<1>7. \A u \in WebUrls : Listed(u) # {} => crawl.pages[u] # Absent
  BY <1>3, <1>4, <1>6
<1>8. \A i \in DOMAIN log : log[i].url \in Fetched(crawl)
  BY <1>6, <1>7 DEF Fetched
<1>9. \A u \in Fetched(crawl) : \E i \in Matching(crawl) : log[i].url = u
  <2> SUFFICES ASSUME NEW u \in Fetched(crawl) PROVE \E i \in Matching(crawl) : log[i].url = u
    OBVIOUS
  <2>1. u \in WebUrls /\ crawl.pages[u] # Absent
    BY DEF Fetched
  <2>2. PICK i \in Listed(u) : crawl.pages[u] = log[i].hash
    BY <1>3, <2>1
  <2> QED BY <2>2 DEF Matching
<1>10. \A u \in Fetched(crawl) : u \in WebUrls /\ crawl.pages[u] \in PageHashes
  BY <1>1 DEF Fetched
<1> QED BY <1>1, <1>5, <1>6, <1>8, <1>9, <1>10 DEF Fetched

(* The updates of the pages of a bundle: of a page whose content is not the *)
(* one compared with, one for each entry that has it, and of no other page. *)
Due(x, crawl, failed) ==
    {u \in Fetched(crawl) \ failed : Comparison(x)[u] # crawl.pages[u]}

Asks(x, crawl, up) ==
    \E u \in Fetched(crawl), i \in 1..MaxListed :
        /\ up = PageUpdate(x, u, crawl.pages[u], i)
        /\ i \in DOMAIN crawl.fetched
        /\ crawl.fetched[i] = [url |-> u, hash |-> crawl.pages[u]]

LEMMA AskedFields ==
  ASSUME NEW x, NEW crawl, NEW up, Asks(x, crawl, up)
  PROVE  /\ up.hash = crawl.pages[up.url] /\ up.audience = public
         /\ up.vectors = x.config /\ up.entry \in DOMAIN crawl.fetched
         /\ crawl.fetched[up.entry] = [url |-> up.url, hash |-> up.hash]
         /\ up = PageUpdate(x, up.url, up.hash, up.entry)
<1>1. PICK u \in Fetched(crawl), i \in 1..MaxListed :
        /\ up = PageUpdate(x, u, crawl.pages[u], i)
        /\ i \in DOMAIN crawl.fetched
        /\ crawl.fetched[i] = [url |-> u, hash |-> crawl.pages[u]]
  BY DEF Asks
<1>2. /\ up.url = u /\ up.hash = crawl.pages[u] /\ up.audience = public
      /\ up.vectors = x.config /\ up.entry = i
  BY <1>1 DEF PageUpdate
<1> QED BY <1>1, <1>2

LEMMA PageUpdatesAre ==
  ASSUME NEW x, NEW crawl \in CrawlReleases, NEW failed
  PROVE  /\ \A up \in PageUpdates(x, crawl, failed) :
               up.url \in Due(x, crawl, failed) /\ Asks(x, crawl, up)
         /\ \A u \in Due(x, crawl, failed) :
               \E up \in PageUpdates(x, crawl, failed) : up.url = u
<1> DEFINE log == crawl.fetched
           some == {j \in Matching(crawl) :
                      log[j].url \notin failed /\ Comparison(x)[log[j].url] # log[j].hash}
<1>1. PageUpdates(x, crawl, failed) = {PageUpdate(x, log[i].url, log[i].hash, i) : i \in some}
  BY DEF PageUpdates
<1>2. ASSUME NEW up \in PageUpdates(x, crawl, failed)
      PROVE  up.url \in Due(x, crawl, failed) /\ Asks(x, crawl, up)
  <2>1. PICK i \in some : up = PageUpdate(x, log[i].url, log[i].hash, i)
    BY <1>1
  <2>2. i \in DOMAIN log /\ log[i].hash = crawl.pages[log[i].url] /\ log[i].url \notin failed
        /\ Comparison(x)[log[i].url] # log[i].hash
    BY DEF Matching
  <2>3. log[i].url \in Fetched(crawl) /\ i \in 1..MaxListed /\ log[i] \in Fetch
    BY <2>2, BundleFields
  <2>4. log[i] = [url |-> log[i].url, hash |-> crawl.pages[log[i].url]]
    BY <2>2, <2>3 DEF Fetch
  <2>5. up.url = log[i].url
    BY <2>1 DEF PageUpdate
  <2>6. up.url \in Due(x, crawl, failed)
    BY <2>2, <2>3, <2>5 DEF Due
  <2>7. up = PageUpdate(x, log[i].url, crawl.pages[log[i].url], i)
    BY <2>1, <2>2
  <2>8. Asks(x, crawl, up)
    BY <2>2, <2>3, <2>4, <2>7 DEF Asks
  <2> QED BY <2>6, <2>8
<1>3. ASSUME NEW u \in Due(x, crawl, failed)
      PROVE  \E up \in PageUpdates(x, crawl, failed) : up.url = u
  <2>1. PICK i \in Matching(crawl) : log[i].url = u
    BY BundleFields DEF Due
  <2>2. log[i].hash = crawl.pages[u]
    BY <2>1 DEF Matching
  <2>3. i \in some
    BY <2>1, <2>2 DEF Due
  <2>4. PageUpdate(x, u, log[i].hash, i).url = u
    BY DEF PageUpdate
  <2> QED BY <1>1, <2>1, <2>3, <2>4
<1> QED BY <1>2, <1>3

(* The updates an indexer prepares are ones the store accepts.              *)
LEMMA UpdatesAccepted ==
  ASSUME NEW x \in BuildState, x.config \in Configs, NEW crawl \in CrawlReleases,
         NEW failed, staff \in [StaffUrls -> StaffHashes \cup {Absent}]
  PROVE  UpdatesFor(x, crawl, failed) \subseteq Updates
<1>1. PageUpdates(x, crawl, failed) \subseteq Updates
  <2> SUFFICES ASSUME NEW up \in PageUpdates(x, crawl, failed) PROVE up \in Updates
    OBVIOUS
  <2>1. PICK u \in Fetched(crawl), i \in 1..MaxListed : up = PageUpdate(x, u, crawl.pages[u], i)
    <3>1. Asks(x, crawl, up)
      BY PageUpdatesAre
    <3> QED BY <3>1 DEF Asks
  <2>2. u \in WebUrls /\ crawl.pages[u] \in PageHashes
    BY BundleFields
  <2> DEFINE c == crawl.pages[u] \in Caveated
  <2>3. c \in BOOLEAN
    OBVIOUS
  <2>4. up = [url |-> u, hash |-> crawl.pages[u], audience |-> public,
              vectors |-> x.config, caveats |-> c, entry |-> i]
    BY <2>1 DEF PageUpdate
  <2> HIDE DEF c
  <2> QED BY <2>2, <2>3, <2>4, UpdatesAssumption
<1>2. \A u \in Staffed : StaffUpdate(x, u, staff[u]) \in Updates
  <2> SUFFICES ASSUME NEW u \in Staffed PROVE StaffUpdate(x, u, staff[u]) \in Updates
    OBVIOUS
  <2>1. u \in StaffUrls /\ staff[u] \in StaffHashes
    BY DEF Staffed
  <2>2. StaffAudience[staff[u]] \in Audiences
    BY <2>1, SourcesAssumption
  <2> DEFINE c == staff[u] \in Caveated
  <2>3. c \in BOOLEAN
    OBVIOUS
  <2>4. StaffUpdate(x, u, staff[u]) =
          [url |-> u, hash |-> staff[u], audience |-> StaffAudience[staff[u]],
           vectors |-> x.config, caveats |-> c, entry |-> 0]
    BY DEF StaffUpdate
  <2> HIDE DEF c
  <2> QED BY <2>1, <2>2, <2>3, <2>4, UpdatesAssumption
<1> QED BY <1>1, <1>2 DEF UpdatesFor

(* What Prepare puts together.                                              *)
Prepared(x, crawl, failed, id) ==
    [updates |-> UpdatesFor(x, crawl, failed), removed |-> RemovedFor(x, crawl),
     id |-> id, parent |-> x.parent, config |-> x.config,
     excluded |-> crawl.skipped, run |-> TRUE]

LEMMA PreparedDelta ==
  ASSUME NEW x \in BuildState, x.config \in Configs, NEW crawl \in CrawlReleases,
         NEW failed, staff \in [StaffUrls -> StaffHashes \cup {Absent}],
         NEW id \in SnapshotIds
  PROVE  Prepared(x, crawl, failed, id) \in Delta
<1>1. UpdatesFor(x, crawl, failed) \subseteq Updates
  BY UpdatesAccepted
<1>2. RemovedFor(x, crawl) \subseteq Urls
  BY DEF RemovedFor
<1>3. x.parent \in Parents
  BY DEF BuildState, Parents
<1>4. crawl.skipped \in ExclusionLists
  BY DEF CrawlReleases
<1> QED BY <1>1, <1>2, <1>3, <1>4 DEF Prepared, Delta

LEMMA HashesType ==
  ASSUME NEW t \in Tables
  PROVE  active_content_hashes(t) \in [Urls -> Hashes \cup {Absent}]
<1> SUFFICES ASSUME NEW u \in Urls
             PROVE  active_content_hashes(t)[u] \in Hashes \cup {Absent}
  BY DEF active_content_hashes
<1> DEFINE live == {r \in LiveByPointer(t) : r.url = u}
<1>1. active_content_hashes(t)[u] =
        IF live = {} THEN Absent ELSE (CHOOSE r \in live : TRUE).hash
  BY DEF active_content_hashes
<1>2. \A r \in live : r.hash \in Hashes
  BY DEF LiveByPointer, Tables, VersionRow
<1> HIDE DEF live
<1>3. live # {} => (CHOOSE r \in live : TRUE) \in live
  OBVIOUS
<1> QED BY <1>1, <1>2, <1>3

LEMMA IdleType == Idle \in BuildState
BY SourcesAssumption DEF Idle, BuildState, Stages

LEMMA LoadReleaseInv ==
  ASSUME IndexInv, NEW b \in Builders, LoadRelease(b)
  PROVE  IndexInv'
<1>1. PICK rebuild \in RebuildFlags, config \in Configs :
        build' = [build EXCEPT ![b] =
           [Idle EXCEPT !.pc = "sourced", !.rebuild = rebuild,
                        !.config = config, !.crawl = Len(crawls)]]
  BY DEF LoadRelease
<1> DEFINE x == [Idle EXCEPT !.pc = "sourced", !.rebuild = rebuild,
                             !.config = config, !.crawl = Len(crawls)]
<1>2. Len(crawls) \in 1..MaxCrawls /\ MaxCrawls \in Nat
  BY SourcesAssumption DEF IndexInv, Builds
<1>3. rebuild \in BOOLEAN
  BY SourcesAssumption
<1>4. x \in BuildState /\ x.pc = "sourced" /\ x.crawl = Len(crawls)
      /\ x.config = config /\ x.parent = NoSnapshot
  <2>1. Idle.parent = NoSnapshot
    BY DEF Idle
  <2>2. Len(crawls) \in 0..MaxCrawls
    BY <1>2
  <2>3. x \in BuildState
    BY <1>3, <2>2, IdleType DEF BuildState, Stages
  <2>4. x.pc = "sourced" /\ x.crawl = Len(crawls) /\ x.config = config
    BY IdleType DEF BuildState
  <2>5. x.parent = Idle.parent
    BY IdleType DEF BuildState
  <2> QED BY <2>1, <2>3, <2>4, <2>5
<1> HIDE DEF x
<1>5. WellBuilt(x)
  BY <1>2, <1>4 DEF WellBuilt, Planning
<1>6. build' = [build EXCEPT ![b] = x]
  BY <1>1 DEF x
<1> QED BY <1>4, <1>5, <1>6, BuilderStep DEF LoadRelease

LEMMA ReadParentInv ==
  ASSUME IndexInv, NEW b \in Builders, ReadParent(b)
  PROVE  IndexInv'
<1> DEFINE x == [build[b] EXCEPT !.pc = "parented", !.parent = snapshot(db),
                   !.incompatible = \E s \in ActiveSnapshots(db) : s.config # build[b].config]
<1>1. build \in [Builders -> BuildState] /\ WellBuilt(build[b])
  BY DEF IndexInv, Builds
<1>2. snapshot(db) \in Ids(db) \cup {NoSnapshot}
  BY Served DEF IndexInv, IInv
<1>3. snapshot(db) \in SnapshotIds \cup {NoSnapshot}
  BY SnapshotType DEF IndexInv, IInv, TypeOK
<1>4. x \in BuildState /\ x.pc = "parented" /\ x.crawl = build[b].crawl
      /\ x.config = build[b].config /\ x.parent = snapshot(db)
  <2> DEFINE odd == \E s \in ActiveSnapshots(db) : s.config # build[b].config
  <2>1. odd \in BOOLEAN
    OBVIOUS
  <2>2. build[b] \in BuildState
    BY <1>1
  <2> HIDE DEF odd
  <2>3. x = [build[b] EXCEPT !.pc = "parented", !.parent = snapshot(db), !.incompatible = odd]
    BY DEF odd
  <2> HIDE DEF x
  <2>4. x \in BuildState
    BY <1>3, <2>1, <2>2, <2>3 DEF BuildState, Stages
  <2>5. x.pc = "parented" /\ x.crawl = build[b].crawl
        /\ x.config = build[b].config /\ x.parent = snapshot(db)
    BY <2>2, <2>3 DEF BuildState
  <2> QED BY <2>4, <2>5
<1>5. build' = [build EXCEPT ![b] = x]
  BY <1>1 DEF ReadParent
<1> HIDE DEF x
<1>6. WellBuilt(x)
  BY <1>1, <1>2, <1>4 DEF WellBuilt, Planning, ReadParent
<1> QED BY <1>4, <1>5, <1>6, BuilderStep DEF ReadParent

LEMMA ReadKnownInv ==
  ASSUME IndexInv, NEW b \in Builders, ReadKnown(b)
  PROVE  IndexInv'
<1> DEFINE x == [build[b] EXCEPT !.pc = "compared", !.known = active_content_hashes(db)]
<1>1. build \in [Builders -> BuildState] /\ WellBuilt(build[b])
  BY DEF IndexInv, Builds
<1>2. active_content_hashes(db) \in [Urls -> Hashes \cup {Absent}]
  BY HashesType DEF IndexInv, IInv, TypeOK
<1>3. x \in BuildState /\ x.pc = "compared" /\ x.crawl = build[b].crawl
      /\ x.config = build[b].config /\ x.parent = build[b].parent
  BY ZenonT(60), <1>1, <1>2 DEF BuildState, Stages
<1>4. build' = [build EXCEPT ![b] = x]
  BY <1>1 DEF ReadKnown
<1> HIDE DEF x
<1>5. WellBuilt(x)
  BY <1>1, <1>3 DEF WellBuilt, Planning, ReadKnown
<1> QED BY <1>3, <1>4, <1>5, BuilderStep DEF ReadKnown

(* The record Prepare leaves, for a crawl, failures and an id.              *)
Readied(b, failed, id) ==
    [build[b] EXCEPT !.pc = "ready",
                     !.delta = Prepared(build[b], crawls[build[b].crawl], failed, id)]

LEMMA PrepareChoice ==
  ASSUME IndexInv, NEW b \in Builders, Prepare(b)
  PROVE  \E unusable \in SUBSET Fetched(crawls[build[b].crawl]), id \in Fresh \ Held :
           LET failed == unusable \cup crawls[build[b].crawl].errors IN
           /\ build[b].incompatible => failed = {}
           /\ build' = [build EXCEPT ![b] = Readied(b, failed, id)]
<1>1. build \in [Builders -> BuildState]
  BY DEF IndexInv, Builds
<1> DEFINE crawl == crawls[build[b].crawl]
<1>2. PICK unusable \in SUBSET Fetched(crawl), id \in Fresh \ Held :
        /\ build[b].incompatible => unusable \cup crawl.errors = {}
        /\ build' = [build EXCEPT
               ![b].pc = "ready",
               ![b].delta = Prepared(build[b], crawl, unusable \cup crawl.errors, id)]
  BY DEF Prepare, Prepared
<1>3. build' = [build EXCEPT ![b] = Readied(b, unusable \cup crawl.errors, id)]
  <2> DEFINE d == Prepared(build[b], crawl, unusable \cup crawl.errors, id)
  <2> HIDE DEF d
  <2>1. build' = [build EXCEPT ![b].pc = "ready", ![b].delta = d]
    BY <1>2 DEF d
  <2>2. build' = [build EXCEPT ![b] = [build[b] EXCEPT !.pc = "ready", !.delta = d]]
    BY <1>1, <2>1
  <2> QED BY <2>2 DEF d, Readied
<1> QED BY <1>2, <1>3

LEMMA PrepareInv ==
  ASSUME IndexInv, NEW b \in Builders, Prepare(b)
  PROVE  IndexInv'
<1> DEFINE crawl == crawls[build[b].crawl]
<1>1. PICK unusable \in SUBSET Fetched(crawl), id \in Fresh \ Held :
        build' = [build EXCEPT ![b] = Readied(b, unusable \cup crawl.errors, id)]
  BY PrepareChoice
<1> DEFINE d == Prepared(build[b], crawl, unusable \cup crawl.errors, id)
           x == Readied(b, unusable \cup crawl.errors, id)
<1>2. build[b].pc = "compared"
  BY DEF Prepare
<1>3. build \in [Builders -> BuildState] /\ WellBuilt(build[b])
  BY DEF IndexInv, Builds
<1>4. build[b].crawl \in 1..Len(crawls) /\ build[b].config \in Configs
  BY <1>2, <1>3 DEF WellBuilt
<1>5. crawl \in CrawlReleases
  BY <1>4 DEF IndexInv, Builds
<1>6. id \in SnapshotIds /\ id \notin Ids(db) /\ id \notin Held
  BY DEF Fresh, Ids
<1>7. d \in Delta
  BY <1>3, <1>4, <1>5, <1>6, PreparedDelta DEF IndexInv, Builds
<1>8. d.id = id /\ d.parent = build[b].parent /\ d.config = build[b].config /\ d.run
  BY DEF Prepared
<1> HIDE DEF d
<1>9. x = [build[b] EXCEPT !.pc = "ready", !.delta = d]
  BY DEF d, Readied
<1> HIDE DEF x
<1>10. x \in BuildState /\ x.pc = "ready" /\ x.delta = d /\ x.crawl = build[b].crawl
       /\ x.config = build[b].config /\ x.parent = build[b].parent
  BY ZenonT(60), <1>3, <1>7, <1>9 DEF BuildState, Stages
<1>11. WellBuilt(x)
  BY <1>3, <1>4, <1>6, <1>7, <1>8, <1>10 DEF WellBuilt, Agreed
<1>12. \A c \in Builders : build[c].pc \in Planning => build[c].delta.id # id
  <2> SUFFICES ASSUME NEW c \in Builders, build[c].pc \in Planning, build[c].delta.id = id
               PROVE  FALSE
    OBVIOUS
  <2>1. build[c].delta \in Delta
    BY DEF IndexInv, Builds, WellBuilt, Agreed
  <2>2. build[c].delta # NoDelta
    BY <2>1, ConstantsAssumption
  <2> QED BY <1>6, <2>2 DEF Held
<1>13. build' = [build EXCEPT ![b] = x]
  BY <1>1 DEF x
<1> QED BY <1>2, <1>8, <1>10, <1>11, <1>12, <1>13, BuilderStep DEF Prepare

LEMMA RestInv ==
  ASSUME IndexInv, NEW b \in Builders, ReadReport(b) \/ Return(b) \/ Raise(b)
  PROVE  IndexInv'
<1>1. build \in [Builders -> BuildState] /\ WellBuilt(build[b])
  BY DEF IndexInv, Builds
<1>2. CASE ReadReport(b)
  <2> DEFINE x == [build[b] EXCEPT !.pc = "reported", !.report = snapshot(db)]
  <2>1. snapshot(db) \in SnapshotIds \cup {NoSnapshot}
    BY SnapshotType DEF IndexInv, IInv, TypeOK
  <2>2. x \in BuildState /\ x.pc = "reported" /\ x.crawl = build[b].crawl
        /\ x.config = build[b].config /\ x.parent = build[b].parent
    BY ZenonT(60), <1>1, <2>1 DEF BuildState, Stages
  <2>3. build' = [build EXCEPT ![b] = x]
    BY <1>1, <1>2 DEF ReadReport
  <2> HIDE DEF x
  <2>4. WellBuilt(x)
    BY <1>1, <1>2, <2>2 DEF WellBuilt, Planning, ReadReport
  <2> QED BY <1>2, <2>2, <2>3, <2>4, BuilderStep DEF ReadReport
<1>3. CASE Return(b) \/ Raise(b)
  <2>1. WellBuilt(Idle) /\ Idle.pc = "idle"
    <3>1. Idle.pc = "idle" /\ Idle.parent = NoSnapshot
      BY DEF Idle
    <3> QED BY <3>1, IdleType DEF WellBuilt, Planning
  <2>2. /\ build' = [build EXCEPT ![b] = Idle]
        /\ UNCHANGED <<vars, crawls, staff, basis>>
        /\ build[b].pc # "publishing"
    BY <1>3 DEF Return, Raise
  <2> QED BY <2>1, <2>2, BuilderStep
<1> QED BY <1>2, <1>3

-----------------------------------------------------------------------------
(* Crawls, authored sources and answers.                                    *)
LEMMA SourcesInv ==
  ASSUME IndexInv, PublishCrawl \/ EditStaff
  PROVE  IndexInv'
<1>1. UNCHANGED <<db, staged, delta, pinned, reply, answer_log, build, basis>>
  BY DEF PublishCrawl, EditStaff, vars, readVars
<1>2. IInv'
  BY <1>1 DEF IndexInv, IInv, TypeOK, ReadersCollect, ReleaseRecordsLive
<1>3. Len(crawls) \in Nat /\ Len(crawls) <= Len(crawls)' /\ Len(crawls)' \in 1..MaxCrawls
      /\ crawls' \in Seq(CrawlReleases)
  <2>1. crawls \in Seq(CrawlReleases) /\ Len(crawls) \in 1..MaxCrawls
    BY DEF IndexInv, Builds
  <2>2. CASE PublishCrawl
    <3>1. PICK c \in CrawlReleases : crawls' = Append(crawls, c)
      BY <2>2 DEF PublishCrawl
    <3>2. Len(crawls') = Len(crawls) + 1 /\ crawls' \in Seq(CrawlReleases)
      BY <2>1, <3>1
    <3> QED BY <2>1, <2>2, <3>2, SourcesAssumption DEF PublishCrawl
  <2>3. CASE EditStaff
    BY <2>1, <2>3 DEF EditStaff
  <2> QED BY <2>2, <2>3
<1>4. staff' \in [StaffUrls -> StaffHashes \cup {Absent}]
  BY DEF IndexInv, Builds, PublishCrawl, EditStaff
<1>5. \A b \in Builders : WellBuilt(build[b])'
  <2> SUFFICES ASSUME NEW b \in Builders PROVE WellBuilt(build[b])'
    OBVIOUS
  <2>1. WellBuilt(build[b])
    BY DEF IndexInv, Builds
  <2>2. build[b].crawl \in 1..Len(crawls) => build[b].crawl \in 1..Len(crawls)'
    BY <1>3
  <2> QED BY <1>1, <2>1, <2>2 DEF WellBuilt, Agreed
<1>6. Builds'
  BY <1>1, <1>3, <1>4, <1>5 DEF IndexInv, Builds
<1> QED BY <1>1, <1>2, <1>6
        DEF IndexInv, OneTransaction, Opened, ReadersTell, Told, AnswersExplicable

LEMMA ToldLess ==
  ASSUME NEW release, NEW cited, Told(release, cited), NEW fewer \in SUBSET cited
  PROVE  Told(release, fewer)
BY DEF Told

LEMMA ToldBoth ==
  ASSUME Sound(db), NEW release, NEW one, Told(release, one), NEW two, Told(release, two)
  PROVE  Told(release, one \cup two)
<1>1. CASE release = NoSnapshot
  BY <1>1 DEF Told
<1>2. CASE release # NoSnapshot
  <2>1. PICK s \in db.snapshots : s.id = release /\ one \subseteq s.members
    BY <1>2 DEF Told
  <2>2. PICK q \in db.snapshots : q.id = release /\ two \subseteq q.members
    BY <1>2 DEF Told
  <2>3. s = q
    BY <2>1, <2>2 DEF Sound, ConstraintsHold
  <2> QED BY <1>2, <2>1, <2>2, <2>3 DEF Told
<1> QED BY <1>1, <1>2

(* The release that is served tells everything that is live.                *)
LEMMA ToldNow ==
  ASSUME IndexInv
  PROVE  Told(snapshot(db), {AsMember(x) : x \in LiveByFlag(db)})
<1>1. Sound(db) /\ Chained(db)
  BY DEF IndexInv, IInv
<1>2. CASE ActiveSnapshots(db) = {}
  <2>1. db.versions = {} /\ snapshot(db) = NoSnapshot
    BY <1>1, <1>2, Served DEF Chained
  <2>2. LiveByFlag(db) = {}
    BY <2>1 DEF LiveByFlag
  <2> QED BY <2>1, <2>2 DEF Told
<1>3. CASE ActiveSnapshots(db) # {}
  <2>1. PICK s \in ActiveSnapshots(db) : TRUE
    BY <1>3
  <2>2. s \in db.snapshots /\ s.id = snapshot(db)
    BY <1>1, Served DEF ActiveSnapshots
  <2>3. s.members = {AsMember(x) : x \in LiveByFlag(db)}
    BY <1>1, <2>2 DEF Chained, IndexInv, IInv, ReleaseRecordsLive, RecordsLive
  <2>4. snapshot(db) # NoSnapshot
    BY <1>1, <1>3, Served
  <2> QED BY <2>2, <2>3, <2>4 DEF Told
<1> QED BY <1>2, <1>3

LEMMA AnswerInv ==
  ASSUME IndexInv, NEW r \in Readers, Answer(r)
  PROVE  IndexInv'
<1>1. UNCHANGED <<db, staged, delta, crawls, staff, build, basis>>
  BY DEF Answer, ReadNext, BeginRead, Retrieve, EndRead, LogAnswer, LoseLog
<1>2. IInv'
  BY ReadSound DEF Answer, IndexInv
<1>3. /\ pinned \in [Readers -> Tables \cup {NoRead}]
      /\ reply \in [Readers -> LogEntry \cup {NoRead}]
  BY DEF IndexInv, IInv, TypeOK
<1>4. \A q \in Readers : q # r => reply'[q] = reply[q] /\ pinned'[q] = pinned[q]
  BY <1>3 DEF Answer, ReadNext, BeginRead, Retrieve, EndRead, LogAnswer, LoseLog
<1>5. \A n, m : Told(n, m)' <=> Told(n, m)
  BY <1>1 DEF Told
<1> DEFINE Good(q) ==
             /\ reply'[q] # NoRead => Told(reply'[q].release, reply'[q].cited)
             /\ pinned'[q] # NoRead =>
                   Told(reply'[q].release, {AsMember(x) : x \in LiveByFlag(pinned'[q])})
<1>6. Good(r) /\ AnswersExplicable'
  <2>1. CASE BeginRead(r)
    <3>1. /\ reply'[r].release = snapshot(db) /\ reply'[r].cited = {}
          /\ pinned'[r] = db /\ answer_log' = answer_log
      BY <1>3, <2>1 DEF BeginRead
    <3>2. Told(snapshot(db), {AsMember(x) : x \in LiveByFlag(db)})
      BY ToldNow
    <3>3. Told(snapshot(db), {})
      BY <3>2, ToldLess
    <3> QED BY <1>1, <3>1, <3>2, <3>3 DEF IndexInv, AnswersExplicable
  <2>2. CASE Retrieve(r)
    <3>1. PICK row \in LiveByFlag(pinned[r]) :
             reply' = [reply EXCEPT ![r].cited = @ \cup {AsMember(row)}]
      BY <2>2 DEF Retrieve
    <3>2. pinned[r] # NoRead /\ reply[r] # NoRead
      BY <2>2 DEF Retrieve, IndexInv, IInv, ReadersCollect
    <3>3. reply[r] \in LogEntry
      BY <1>3, <3>2
    <3>4. /\ reply'[r].release = reply[r].release
          /\ reply'[r].cited = reply[r].cited \cup {AsMember(row)}
          /\ pinned'[r] = pinned[r] /\ answer_log' = answer_log
      BY <1>3, <2>2, <3>1, <3>3 DEF Retrieve, LogEntry
    <3>5. /\ Told(reply[r].release, reply[r].cited)
          /\ Told(reply[r].release, {AsMember(x) : x \in LiveByFlag(pinned[r])})
      BY <3>2 DEF IndexInv, ReadersTell
    <3>6. {AsMember(row)} \subseteq {AsMember(x) : x \in LiveByFlag(pinned[r])}
      OBVIOUS
    <3>7. Told(reply[r].release, {AsMember(row)})
      BY <3>5, <3>6, ToldLess
    <3>8. Told(reply[r].release, reply[r].cited \cup {AsMember(row)})
      BY <3>5, <3>7, ToldBoth DEF IndexInv, IInv
    <3> QED BY <1>1, <3>4, <3>5, <3>8 DEF IndexInv, AnswersExplicable
  <2>3. CASE EndRead(r)
    <3>1. pinned'[r] = NoRead /\ reply' = reply /\ answer_log' = answer_log
      BY <1>3, <2>3 DEF EndRead
    <3> QED BY <1>1, <3>1 DEF IndexInv, ReadersTell, AnswersExplicable
  <2>4. CASE LogAnswer(r)
    <3>1. /\ reply'[r] = NoRead /\ pinned'[r] = NoRead
          /\ answer_log' = answer_log \cup {reply[r]} /\ reply[r] # NoRead
      BY <1>3, <2>4 DEF LogAnswer
    <3>2. Told(reply[r].release, reply[r].cited)
      BY <3>1 DEF IndexInv, ReadersTell
    <3> QED BY <1>1, <3>1, <3>2 DEF IndexInv, Told, AnswersExplicable
  <2>5. CASE LoseLog(r)
    <3>1. reply'[r] = NoRead /\ pinned'[r] = NoRead /\ answer_log' = answer_log
      BY <1>3, <2>5 DEF LoseLog
    <3> QED BY <1>1, <3>1 DEF IndexInv, AnswersExplicable
  <2> QED BY <2>1, <2>2, <2>3, <2>4, <2>5 DEF Answer, ReadNext
<1>7. \A q \in Readers : Good(q)
  BY <1>4, <1>6 DEF IndexInv, ReadersTell
<1>8. ReadersTell'
  BY <1>1, <1>7 DEF ReadersTell, Told
<1> QED BY <1>1, <1>2, <1>6, <1>8
        DEF IndexInv, Builds, WellBuilt, Agreed, OneTransaction, Opened

-----------------------------------------------------------------------------
(* The transaction.                                                         *)
LEMMA OneOpens ==
  ASSUME IndexInv, NEW b \in Builders, build[b].pc = "publishing"
  PROVE  /\ delta # NoDelta /\ delta \in Delta /\ Opened(b)
         /\ Agreed(build[b])
         /\ \A c \in Builders : build[c].pc = "publishing" => c = b
<1>1. delta # NoDelta /\ Opened(b)
  BY DEF IndexInv, OneTransaction
<1>2. delta \in Delta
  BY <1>1 DEF IndexInv, IInv, TypeOK
<1>3. Agreed(build[b])
  BY DEF IndexInv, Builds, WellBuilt, Planning
<1> QED BY <1>1, <1>2, <1>3 DEF IndexInv, OneTransaction

LEMMA BeginPublishInv ==
  ASSUME IndexInv, NEW b \in Builders, BeginPublish(b)
  PROVE  IndexInv'
<1> DEFINE x == [build[b] EXCEPT !.pc = "publishing"]
<1>1. build \in [Builders -> BuildState] /\ WellBuilt(build[b])
  BY DEF IndexInv, Builds
<1>2. /\ build[b].pc = "ready" /\ delta = NoDelta /\ ParentHolds(db, build[b].delta)
      /\ delta' = build[b].delta /\ build' = [build EXCEPT ![b] = x]
      /\ UNCHANGED <<db, staged, pinned, reply, answer_log, crawls, staff, basis>>
  BY <1>1 DEF BeginPublish, BeginDelta, readVars
<1>3. Agreed(build[b])
  BY <1>1, <1>2 DEF WellBuilt, Planning
<1>4. build[b].delta \in Delta /\ build[b].delta # NoDelta
  BY <1>3, ConstantsAssumption DEF Agreed
<1>5. build[b].delta.parent = snapshot(db)
  <2>1. build[b].parent \in Ids(db) \cup {NoSnapshot}
    BY <1>1 DEF WellBuilt
  <2>2. Ids(db) \subseteq SnapshotIds
    BY DEF Ids, IndexInv, IInv, TypeOK, Tables, SnapshotRow
  <2> QED BY <1>2, <1>3, <2>1, <2>2, ConstantsAssumption DEF ParentHolds, Agreed
<1>6. x \in BuildState /\ x.pc = "publishing" /\ x.delta = build[b].delta
      /\ x.crawl = build[b].crawl /\ x.config = build[b].config
      /\ x.parent = build[b].parent
  BY <1>1 DEF BuildState, Stages
<1> HIDE DEF x
<1>7. /\ build' \in [Builders -> BuildState] /\ build'[b] = x
      /\ \A c \in Builders : c # b => build'[c] = build[c]
  BY <1>1, <1>2, <1>6
<1>8. IInv'
  BY <1>2, <1>4 DEF IndexInv, IInv, TypeOK, ReadersCollect, ReleaseRecordsLive
<1>9. Builds'
  <2>1. WellBuilt(build[b])'
    BY <1>1, <1>2, <1>3, <1>6, <1>7 DEF WellBuilt, Agreed
  <2>2. \A c \in Builders : WellBuilt(build[c])'
    BY <1>2, <1>7, <2>1 DEF IndexInv, Builds, WellBuilt, Agreed
  <2>3. \A c, e \in Builders :
          /\ build'[c].pc \in Planning /\ build'[e].pc \in Planning
          /\ build'[c].delta.id = build'[e].delta.id
          => c = e
    BY <1>2, <1>6, <1>7 DEF IndexInv, Builds, Planning
  <2> QED BY <1>2, <1>7, <2>2, <2>3 DEF IndexInv, Builds
<1>10. \A c \in Builders : build[c].pc # "publishing"
  BY <1>2 DEF IndexInv, OneTransaction
<1>11. OneTransaction'
  BY <1>2, <1>4, <1>5, <1>6, <1>7, <1>10 DEF IndexInv, OneTransaction, Opened
<1> QED BY <1>2, <1>8, <1>9, <1>11
        DEF IndexInv, ReadersTell, Told, AnswersExplicable

LEMMA StageOneInv ==
  ASSUME IndexInv, NEW b \in Builders, StageOne(b)
  PROVE  IndexInv'
<1>1. /\ build[b].pc = "publishing" /\ StageUpdate
      /\ UNCHANGED <<db, pinned, reply, answer_log, crawls, staff, build, basis>>
  BY DEF StageOne, StageUpdate, readVars
<1>2. IInv'
  BY <1>1, StageSound DEF IndexInv
<1>3. delta # NoDelta /\ delta \in Delta /\ Opened(b)
      /\ \A c \in Builders : build[c].pc = "publishing" => c = b
  BY <1>1, OneOpens
<1>4. PICK up \in delta.updates :
        /\ staged' = ApplyOne(staged, up)
        /\ delta' = [delta EXCEPT !.updates = @ \ {up}]
  BY <1>1 DEF StageUpdate
<1>5. up \in Update
  BY <1>3, ConstantsAssumption DEF Delta
<1>6. /\ Keeps(staged, staged') /\ staged'.snapshots = staged.snapshots
      /\ staged'.crawl_runs = staged.crawl_runs
  BY <1>4, <1>5, ApplyOneKeeps DEF IndexInv, IInv
<1>7. Keeps(db, staged')
  BY <1>6, KeepsOn DEF IndexInv, IInv, TypeOK, OneTransaction
<1>8. /\ delta' \in Delta /\ delta'.updates \subseteq delta.updates
      /\ delta'.removed = delta.removed /\ delta'.id = delta.id
      /\ delta'.parent = delta.parent /\ delta'.config = delta.config
      /\ delta'.run = delta.run
  BY <1>3, <1>4 DEF Delta
<1>9. delta' # NoDelta
  BY <1>8, ConstantsAssumption
<1>10. Opened(b)'
  BY <1>1, <1>3, <1>8 DEF Opened
<1>11. OneTransaction'
  <2>1. Keeps(db, staged)'
    BY <1>1, <1>7 DEF Keeps
  <2> QED BY <1>1, <1>3, <1>6, <1>9, <1>10, <2>1 DEF IndexInv, OneTransaction
<1> QED BY <1>1, <1>2, <1>11
        DEF IndexInv, Builds, WellBuilt, Agreed, ReadersTell, Told, AnswersExplicable

LEMMA AbortPublishInv ==
  ASSUME IndexInv, NEW b \in Builders, AbortPublish(b)
  PROVE  IndexInv'
<1>1. /\ build[b].pc = "publishing" /\ staged' = db /\ delta' = NoDelta
      /\ build' = [build EXCEPT ![b] = Idle]
      /\ UNCHANGED <<db, pinned, reply, answer_log, crawls, staff, basis>>
  BY DEF AbortPublish, Rollback, readVars
<1>2. IInv'
  BY <1>1 DEF IndexInv, IInv, TypeOK, ReadersCollect, ReleaseRecordsLive, Sound
<1>3. build \in [Builders -> BuildState]
  BY DEF IndexInv, Builds
<1>4. /\ build' \in [Builders -> BuildState] /\ build'[b] = Idle
      /\ \A c \in Builders : c # b => build'[c] = build[c]
  BY <1>1, <1>3, IdleType
<1>5. Idle.pc = "idle" /\ Idle.parent = NoSnapshot
  BY DEF Idle
<1>6. \A c \in Builders : c # b => build[c].pc # "publishing"
  BY <1>1, OneOpens
<1>7. Builds'
  <2>1. WellBuilt(Idle)'
    BY <1>5, IdleType DEF WellBuilt, Planning
  <2>2. \A c \in Builders : WellBuilt(build[c])'
    BY <1>1, <1>4, <2>1 DEF IndexInv, Builds, WellBuilt, Agreed
  <2>3. \A c, e \in Builders :
          /\ build'[c].pc \in Planning /\ build'[e].pc \in Planning
          /\ build'[c].delta.id = build'[e].delta.id
          => c = e
    BY <1>4, <1>5 DEF IndexInv, Builds, Planning
  <2> QED BY <1>1, <1>4, <2>2, <2>3 DEF IndexInv, Builds
<1>8. OneTransaction'
  <2>1. \A c \in Builders : build'[c].pc # "publishing"
    BY <1>4, <1>5, <1>6
  <2> QED BY <1>1, <2>1, KeepsItself DEF OneTransaction
<1> QED BY <1>1, <1>2, <1>7, <1>8
        DEF IndexInv, ReadersTell, Told, AnswersExplicable

LEMMA CommitPublishInv ==
  ASSUME IndexInv, NEW b \in Builders, CommitPublish(b)
  PROVE  IndexInv'
<1>1. /\ build[b].pc = "publishing" /\ CommitDelta
      /\ staged' = FinishDelta(staged, delta) /\ db' = staged' /\ delta' = NoDelta
      /\ build' = [build EXCEPT ![b].pc = "committed"]
      /\ basis' = [basis EXCEPT ![build[b].delta.id] = build[b].crawl]
      /\ UNCHANGED <<pinned, reply, answer_log, crawls, staff>>
  BY DEF CommitPublish, CommitDelta, readVars
<1>2. IInv'
  BY <1>1, CommitSound DEF IndexInv
<1>3. delta \in Delta /\ Opened(b) /\ Agreed(build[b])
      /\ \A c \in Builders : build[c].pc = "publishing" => c = b
  BY <1>1, OneOpens
<1>4. delta.run /\ delta.id \notin Ids(db) /\ delta.parent = snapshot(db)
  BY <1>3 DEF Opened, Agreed
<1>5. /\ Chained(db') /\ Explained(db')
      /\ Ids(db') = Ids(db) \cup {delta.id}
      /\ \A s \in db.snapshots : \E q \in db'.snapshots :
            q.id = s.id /\ q.members = s.members
  BY <1>1, <1>3, <1>4, FinishDeltaChains DEF IndexInv, IInv, OneTransaction
<1>6. /\ build \in [Builders -> BuildState]
      /\ \A c \in Builders : WellBuilt(build[c])
  BY DEF IndexInv, Builds
<1>7. /\ build' \in [Builders -> BuildState]
      /\ build'[b].pc = "committed" /\ build'[b].crawl = build[b].crawl
      /\ build'[b].config = build[b].config /\ build'[b].parent = build[b].parent
      /\ \A c \in Builders : c # b => build'[c] = build[c]
  BY <1>1, <1>6 DEF BuildState, Stages
<1>8. \A c \in Builders : c # b /\ build[c].pc \in Planning => build[c].delta.id # delta.id
  BY <1>1, <1>3 DEF IndexInv, Builds, Opened, Planning
<1>9. Builds'
  <2>1. WellBuilt(build[b])'
    BY <1>1, <1>5, <1>6, <1>7 DEF WellBuilt, Planning
  <2>2. \A c \in Builders : WellBuilt(build[c])'
    <3> SUFFICES ASSUME NEW c \in Builders, c # b PROVE WellBuilt(build[c])'
      BY <2>1
    <3>1. WellBuilt(build[c]) /\ build'[c] = build[c]
      BY <1>6, <1>7
    <3>2. build[c].pc \in Planning => build[c].delta.id \notin Ids(db')
      BY <1>5, <1>8, <3>1 DEF WellBuilt, Agreed
    <3> QED BY <1>1, <1>5, <3>1, <3>2 DEF WellBuilt, Agreed, Ids
  <2>3. \A c, e \in Builders :
          /\ build'[c].pc \in Planning /\ build'[e].pc \in Planning
          /\ build'[c].delta.id = build'[e].delta.id
          => c = e
    BY <1>7 DEF IndexInv, Builds, Planning
  <2>4. basis' \in [SnapshotIds -> 0..MaxCrawls]
    <3>1. build[b].crawl \in 0..MaxCrawls
      BY <1>6 DEF BuildState
    <3> QED BY <1>1, <3>1 DEF IndexInv, Builds
  <2> QED BY <1>1, <1>7, <2>2, <2>3, <2>4 DEF IndexInv, Builds
<1>10. OneTransaction'
  <2>1. \A c \in Builders : build'[c].pc # "publishing"
    BY <1>3, <1>7
  <2>2. Keeps(db, staged)'
    BY <1>1, KeepsItself DEF Keeps
  <2> QED BY <1>1, <2>1, <2>2 DEF OneTransaction
<1>11. \A n, m : Told(n, m) => Told(n, m)'
  <2> SUFFICES ASSUME NEW n, NEW m, Told(n, m), n # NoSnapshot
               PROVE  \E q \in db'.snapshots : q.id = n /\ m \subseteq q.members
    BY DEF Told
  <2>1. PICK s \in db.snapshots : s.id = n /\ m \subseteq s.members
    BY DEF Told
  <2> QED BY <1>5, <2>1
<1>12. ReadersTell'
  BY <1>1, <1>11 DEF IndexInv, ReadersTell
<1>13. AnswersExplicable'
  <2>1. \A e \in answer_log : Told(e.release, e.cited)
    BY DEF IndexInv, AnswersExplicable, Told
  <2>2. \A e \in answer_log : Told(e.release, e.cited)'
    BY <1>11, <2>1
  <2> QED BY <1>1, <2>2 DEF AnswersExplicable, Told
<1>14. Chained(db)' /\ Explained(db)'
  BY <1>5 DEF Chained, Explained, Ids, ActiveSnapshots
<1> QED BY <1>2, <1>9, <1>10, <1>12, <1>13, <1>14 DEF IndexInv

-----------------------------------------------------------------------------
LEMMA IndexInitInv == IndexInit => IndexInv
<1> SUFFICES ASSUME IndexInit PROVE IndexInv
  OBVIOUS
<1>1. IInv
  BY InitSound DEF IndexInit
<1>2. /\ db.versions = {} /\ db.snapshots = {} /\ staged = db /\ delta = NoDelta
      /\ pinned = [r \in Readers |-> NoRead] /\ reply = [r \in Readers |-> NoRead]
      /\ answer_log = {}
  BY DEF IndexInit, Init
<1>3. Chained(db) /\ Explained(db)
  BY <1>2 DEF Chained, Explained
<1>4. Builds
  <2>1. PICK c \in CrawlReleases : crawls = <<c>>
    BY DEF IndexInit
  <2>2. crawls \in Seq(CrawlReleases) /\ Len(crawls) \in 1..MaxCrawls
    BY <2>1, SourcesAssumption
  <2>3. Idle.pc = "idle" /\ Idle.parent = NoSnapshot
    BY DEF Idle
  <2>4. build = [b \in Builders |-> Idle]
    BY DEF IndexInit
  <2>5. build \in [Builders -> BuildState]
    BY <2>4, IdleType
  <2>6. \A b \in Builders : WellBuilt(build[b]) /\ build[b].pc \notin Planning
    BY <2>3, <2>4, IdleType DEF WellBuilt, Planning
  <2>7. basis \in [SnapshotIds -> 0..MaxCrawls]
    BY SourcesAssumption DEF IndexInit
  <2> QED BY <2>2, <2>5, <2>6, <2>7 DEF Builds, IndexInit
<1>5. OneTransaction
  <2>1. \A b \in Builders : build[b].pc # "publishing"
    BY DEF IndexInit, Idle
  <2> QED BY <1>2, <2>1, KeepsItself DEF OneTransaction
<1> QED BY <1>1, <1>2, <1>3, <1>4, <1>5 DEF IndexInv, ReadersTell, AnswersExplicable

LEMMA IndexNextInv ==
  ASSUME IndexInv, [IndexNext]_indexVars
  PROVE  IndexInv'
<1>1. CASE \E b \in Builders : BuildNext(b)
  <2>1. PICK b \in Builders : BuildNext(b)
    BY <1>1
  <2> QED BY <2>1, LoadReleaseInv, ReadParentInv, ReadKnownInv, PrepareInv, RestInv,
             BeginPublishInv, StageOneInv, CommitPublishInv, AbortPublishInv
          DEF BuildNext
<1>2. CASE PublishCrawl \/ EditStaff
  BY <1>2, SourcesInv
<1>3. CASE \E r \in Readers : Answer(r)
  BY <1>3, AnswerInv
<1>4. CASE UNCHANGED indexVars
  <2>1. UNCHANGED <<db, staged, delta, pinned, reply, answer_log, crawls, staff,
                    build, basis>>
    BY <1>4 DEF indexVars, vars, readVars
  <2> QED BY <2>1 DEF IndexInv, IInv, TypeOK, ReadersCollect, ReleaseRecordsLive,
                      Builds, WellBuilt, Agreed, OneTransaction, Opened, ReadersTell,
                      Told, AnswersExplicable
<1> QED BY <1>1, <1>2, <1>3, <1>4 DEF IndexNext

THEOREM IndexInvariance == IndexSpec => []IndexInv
BY IndexInitInv, IndexNextInv, PTL DEF IndexSpec

(* Whatever builders, crawls, edits and answers interleave, the tables, the *)
(* builders and the history have the types build() and the store give them. *)
THEOREM IndexTypes == IndexSpec => []IndexTypeOK
<1>1. IndexInv => IndexTypeOK
  BY DEF IndexInv, IInv, Builds, IndexTypeOK
<1> QED BY <1>1, IndexInvariance, PTL

(* Any number of builders: apply_delta's one parent check is enough for no  *)
(* release to be lost, although nothing is locked while a build works.      *)
THEOREM NoReleaseLost == IndexSpec => []NoLostRelease
<1>1. IndexInv => NoLostRelease
  BY DEF IndexInv, Chained, NoLostRelease
<1> QED BY <1>1, IndexInvariance, PTL

(* Every release stays explicable: no later delta takes away the rows that  *)
(* a release listed as its members, or its crawl run.                       *)
THEOREM ReleasesStayExplicable == IndexSpec => []ReleasesExplicable
<1>1. IndexInv => ReleasesExplicable
  BY DEF IndexInv, Explained, ReleasesExplicable
<1> QED BY <1>1, IndexInvariance, PTL

(* An answer's log row names a release that served all that it cites,       *)
(* although the row is written after the read transaction has ended.        *)
THEOREM AnswersStayExplicable == IndexSpec => []AnswersExplicable
<1>1. IndexInv => AnswersExplicable
  BY DEF IndexInv
<1> QED BY <1>1, IndexInvariance, PTL

(* Whatever happens, a stored version keeps its content, ancestry and       *)
(* audience, and one that is no longer live never is again.                 *)
THEOREM HistoryStays == IndexSpec => HistoryKept
<1>1. IndexInv /\ [IndexNext]_indexVars
        => [\A r \in db.versions : \E q \in db'.versions :
              q = r \/ (r.is_active /\ q = [r EXCEPT !.is_active = FALSE])]_indexVars
  <2> SUFFICES ASSUME IndexInv, IndexNext PROVE Keeps(db, db')
    BY KeepsItself DEF Keeps, Later, Retired
  <2>1. CASE \E b \in Builders : CommitPublish(b)
    <3>1. PICK b \in Builders : CommitPublish(b)
      BY <2>1
    <3>2. /\ build[b].pc = "publishing" /\ db' = FinishDelta(staged, delta)
      BY <3>1 DEF CommitPublish, CommitDelta
    <3>3. delta \in Delta /\ Opened(b) /\ Agreed(build[b])
      BY <3>2, OneOpens
    <3>4. delta.run /\ delta.id \notin Ids(db) /\ delta.parent = snapshot(db)
      BY <3>3 DEF Opened, Agreed
    <3> QED BY <3>2, <3>3, <3>4, FinishDeltaChains DEF IndexInv, IInv, OneTransaction
  <2>2. CASE ~\E b \in Builders : CommitPublish(b)
    <3>1. db' = db
      BY <2>2 DEF IndexNext, BuildNext, LoadRelease, ReadParent, ReadKnown, Prepare,
                  BeginPublish, BeginDelta, StageOne, StageUpdate, ReadReport, Return,
                  Raise, AbortPublish, Rollback, PublishCrawl, EditStaff, Answer,
                  ReadNext, BeginRead, Retrieve, EndRead, LogAnswer, LoseLog, vars
    <3> QED BY <3>1, KeepsItself
  <2> QED BY <2>1, <2>2
<1> QED BY <1>1, IndexInvariance, PTL DEF IndexSpec, HistoryKept

-----------------------------------------------------------------------------
(* What a builder read is still true when it publishes: the parent check    *)
(* compares one id, and an id never comes back.                             *)
Viewed(x) ==
    /\ x.pc \in {"parented", "compared", "ready", "publishing"} /\ x.parent = snapshot(db)
       => (x.incompatible <=> \E s \in ActiveSnapshots(db) : s.config # x.config)
    /\ x.pc \in {"compared", "ready", "publishing"} /\ x.parent = snapshot(db)
       => x.known = active_content_hashes(db)

(* What Prepare made of it.                                                 *)
Covered(x, u) == u \in x.delta.removed \/ \E up \in x.delta.updates : up.url = u
Worked(x) ==
    x.pc \in Planning =>
      /\ \A up \in x.delta.updates :
            /\ up.vectors = x.config
            /\ x.rebuild \/ x.incompatible \/ up.hash # x.known[up.url]
      /\ x.incompatible => \A u \in Urls : x.known[u] # Absent => Covered(x, u)

(* How far the transaction has come: what is live is new, or was live       *)
(* before and no update that is done was of it.                             *)
Progress(b) ==
    build[b].pc = "publishing" =>
      \A r \in LiveByFlag(staged) :
         \/ r.vectors = delta.config
         \/ /\ r \in LiveByFlag(db)
            /\ \A up \in build[b].delta.updates \ delta.updates : up.url # r.url

Views ==
    /\ \A b \in Builders : Viewed(build[b]) /\ Worked(build[b]) /\ Progress(b)
    /\ \A b \in Builders : build[b].rebuild \in RebuildFlags \cup {FALSE}
    /\ OneConfiguration

LEMMA KnownHash ==
  ASSUME NEW t, Sound(t), NEW r \in LiveByFlag(t)
  PROVE  /\ r.url \in Urls /\ active_content_hashes(t)[r.url] = r.hash
         /\ r.hash # Absent
<1> DEFINE live == {q \in LiveByPointer(t) : q.url = r.url}
<1>1. r \in t.versions /\ r \in VersionRow
  BY DEF LiveByFlag, Sound, Tables
<1>2. r.url \in Urls /\ r.hash \in Hashes
  BY <1>1 DEF VersionRow
<1>3. active_content_hashes(t)[r.url] =
        IF live = {} THEN Absent ELSE (CHOOSE q \in live : TRUE).hash
  BY <1>2 DEF active_content_hashes
<1>4. r \in live
  BY DEF Sound, LiveAgrees
<1>5. \A q \in live : q = r
  <2>1. \A q \in live : q \in t.versions /\ q.is_active /\ q.url = r.url
    BY DEF Sound, LiveAgrees, LiveByFlag
  <2> QED BY <1>1, <2>1 DEF Sound, ConstraintsHold, LiveByFlag
<1> HIDE DEF live
<1>6. (CHOOSE q \in live : TRUE) = r
  BY <1>4, <1>5
<1> QED BY <1>2, <1>3, <1>4, <1>6, SourcesAssumption

(* A step of one builder outside the transaction.                           *)
LEMMA BuilderViews ==
  ASSUME IndexInv, Views, NEW b \in Builders, UNCHANGED <<db, staged, delta>>,
         build[b].pc # "publishing",
         NEW x \in BuildState, build' = [build EXCEPT ![b] = x],
         Viewed(x), Worked(x), x.pc # "publishing", x.rebuild \in RebuildFlags \cup {FALSE}
  PROVE  Views'
<1>1. build \in [Builders -> BuildState]
  BY DEF IndexInv, Builds
<1>2. build'[b] = x /\ \A c \in Builders : c # b => build'[c] = build[c]
  BY <1>1
<1>3. \A c \in Builders : Viewed(build[c])'
  <2> SUFFICES ASSUME NEW c \in Builders PROVE Viewed(build[c])'
    OBVIOUS
  <2>1. CASE c = b
    BY <1>2, <2>1 DEF Viewed
  <2>2. CASE c # b
    BY <1>2, <2>2 DEF Viewed, Views
  <2> QED BY <2>1, <2>2
<1>4. \A c \in Builders : Worked(build[c])' /\ Progress(c)'
  <2> SUFFICES ASSUME NEW c \in Builders PROVE Worked(build[c])' /\ Progress(c)'
    OBVIOUS
  <2>1. CASE c = b
    BY <1>2, <2>1 DEF Worked, Covered, Progress
  <2>2. CASE c # b
    BY <1>2, <2>2 DEF Worked, Covered, Progress, Views
  <2> QED BY <2>1, <2>2
<1>5. OneConfiguration'
  BY DEF Views, OneConfiguration
<1> QED BY <1>2, <1>3, <1>4, <1>5 DEF Views

LEMMA ReadingViews ==
  ASSUME IndexInv, Views, NEW b \in Builders,
         LoadRelease(b) \/ ReadParent(b) \/ ReadKnown(b) \/ ReadReport(b)
           \/ Return(b) \/ Raise(b)
  PROVE  Views'
<1>1. build \in [Builders -> BuildState]
  BY DEF IndexInv, Builds
<1>2. build[b].rebuild \in RebuildFlags \cup {FALSE}
  BY DEF Views
<1>3. UNCHANGED <<db, staged, delta>> /\ build[b].pc # "publishing"
  BY DEF LoadRelease, ReadParent, ReadKnown, ReadReport, Return, Raise, vars
<1>4. CASE LoadRelease(b)
  <2>1. PICK rebuild \in RebuildFlags, config \in Configs :
          build' = [build EXCEPT ![b] =
             [Idle EXCEPT !.pc = "sourced", !.rebuild = rebuild,
                          !.config = config, !.crawl = Len(crawls)]]
    BY <1>4 DEF LoadRelease
  <2> DEFINE x == [Idle EXCEPT !.pc = "sourced", !.rebuild = rebuild,
                               !.config = config, !.crawl = Len(crawls)]
  <2>2. x \in BuildState /\ x.pc = "sourced" /\ x.rebuild = rebuild
    <3>1. Len(crawls) \in 0..MaxCrawls /\ rebuild \in BOOLEAN
      BY SourcesAssumption DEF IndexInv, Builds
    <3>2. x \in BuildState
      BY <3>1, IdleType DEF BuildState, Stages
    <3>3. x.pc = "sourced" /\ x.rebuild = rebuild
      BY IdleType DEF BuildState
    <3> QED BY <3>2, <3>3
  <2>3. build' = [build EXCEPT ![b] = x]
    BY <2>1
  <2> HIDE DEF x
  <2>4. Viewed(x) /\ Worked(x)
    BY <2>2 DEF Viewed, Worked, Planning
  <2> QED BY <1>3, <2>2, <2>3, <2>4, BuilderViews
<1>5. CASE ReadParent(b)
  <2> DEFINE other == \E s \in ActiveSnapshots(db) : s.config # build[b].config
             x == [build[b] EXCEPT !.pc = "parented", !.parent = snapshot(db),
                                   !.incompatible = other]
  <2>1. other \in BOOLEAN
    OBVIOUS
  <2>2. snapshot(db) \in SnapshotIds \cup {NoSnapshot}
    BY SnapshotType DEF IndexInv, IInv, TypeOK
  <2>3. build' = [build EXCEPT ![b] = x]
    BY <1>1, <1>5 DEF ReadParent
  <2> HIDE DEF other
  <2>4. x \in BuildState /\ x.pc = "parented" /\ x.incompatible = other
        /\ x.config = build[b].config /\ x.rebuild = build[b].rebuild
    BY ZenonT(60), <1>1, <2>1, <2>2 DEF BuildState, Stages
  <2> HIDE DEF x
  <2>5. Viewed(x) /\ Worked(x)
    BY <2>4 DEF Viewed, Worked, Planning, other
  <2> QED BY <1>2, <1>3, <2>3, <2>4, <2>5, BuilderViews
<1>6. CASE ReadKnown(b)
  <2> DEFINE x == [build[b] EXCEPT !.pc = "compared", !.known = active_content_hashes(db)]
  <2>1. active_content_hashes(db) \in [Urls -> Hashes \cup {Absent}]
    BY HashesType DEF IndexInv, IInv, TypeOK
  <2>2. x \in BuildState /\ x.pc = "compared" /\ x.known = active_content_hashes(db)
        /\ x.config = build[b].config /\ x.rebuild = build[b].rebuild
        /\ x.parent = build[b].parent /\ x.incompatible = build[b].incompatible
    BY ZenonT(60), <1>1, <2>1 DEF BuildState, Stages
  <2>3. build' = [build EXCEPT ![b] = x]
    BY <1>1, <1>6 DEF ReadKnown
  <2>4. Viewed(build[b]) /\ build[b].pc = "parented"
    BY <1>6 DEF Views, ReadKnown
  <2> HIDE DEF x
  <2>5. Viewed(x) /\ Worked(x)
    BY <2>2, <2>4 DEF Viewed, Worked, Planning
  <2> QED BY <1>2, <1>3, <2>2, <2>3, <2>5, BuilderViews
<1>7. CASE ReadReport(b)
  <2> DEFINE x == [build[b] EXCEPT !.pc = "reported", !.report = snapshot(db)]
  <2>1. snapshot(db) \in SnapshotIds \cup {NoSnapshot}
    BY SnapshotType DEF IndexInv, IInv, TypeOK
  <2>2. x \in BuildState /\ x.pc = "reported" /\ x.rebuild = build[b].rebuild
    BY ZenonT(60), <1>1, <2>1 DEF BuildState, Stages
  <2>3. build' = [build EXCEPT ![b] = x]
    BY <1>1, <1>7 DEF ReadReport
  <2> HIDE DEF x
  <2>4. Viewed(x) /\ Worked(x)
    BY <2>2 DEF Viewed, Worked, Planning
  <2> QED BY <1>2, <1>3, <2>2, <2>3, <2>4, BuilderViews
<1>8. CASE Return(b) \/ Raise(b)
  <2>1. build' = [build EXCEPT ![b] = Idle] /\ Idle.pc = "idle" /\ Idle.rebuild = FALSE
    BY <1>8 DEF Return, Raise, Idle
  <2>2. Viewed(Idle) /\ Worked(Idle)
    BY <2>1 DEF Viewed, Worked, Planning
  <2> QED BY <1>3, <2>1, <2>2, IdleType, BuilderViews
<1> QED BY <1>4, <1>5, <1>6, <1>7, <1>8

(* The delta is what the comparison asks for: nothing that is the same, and *)
(* under a new configuration everything.                                    *)
LEMMA PreparedWell ==
  ASSUME NEW x \in BuildState, x.config \in Configs, NEW crawl \in CrawlReleases,
         NEW failed, NEW id, staff \in [StaffUrls -> StaffHashes \cup {Absent}],
         Staffed \cap Fetched(crawl) = {}, crawl.errors \subseteq failed,
         x.incompatible => failed = {},
         NEW d, d = Prepared(x, crawl, failed, id)
  PROVE  /\ \A up \in d.updates :
               /\ up.vectors = x.config
               /\ x.rebuild \/ x.incompatible \/ up.hash # x.known[up.url]
         /\ x.incompatible => \A u \in Urls : x.known[u] # Absent =>
               u \in d.removed \/ \E up \in d.updates : up.url = u
<1> DEFINE pages == Due(x, crawl, failed)
           read == PageUpdates(x, crawl, failed)
           notes == {v \in Staffed : Comparison(x)[v] # staff[v]}
<1>1. d.updates = read \cup {StaffUpdate(x, u, staff[u]) : u \in notes}
  BY DEF Prepared, UpdatesFor
<1>2. /\ \A up \in read : /\ up.url \in pages /\ up.hash = crawl.pages[up.url]
                          /\ up.vectors = x.config
      /\ \A u \in pages : \E up \in read : up.url = u
  <2>1. /\ \A up \in read : up.url \in pages /\ Asks(x, crawl, up)
        /\ \A u \in pages : \E up \in read : up.url = u
    BY PageUpdatesAre
  <2>2. ASSUME NEW up \in read
        PROVE  /\ up.hash = crawl.pages[up.url] /\ up.audience = public
               /\ up.vectors = x.config
    <3> HIDE DEF pages, read
    <3>1. Asks(x, crawl, up)
      BY <2>1
    <3> QED BY <3>1 DEF Asks, PageUpdate
  <2> HIDE DEF pages, read
  <2> QED BY <2>1, <2>2
<1>3. \A u \in notes : LET up == StaffUpdate(x, u, staff[u]) IN
        up.url = u /\ up.hash = staff[u] /\ up.vectors = x.config
  BY DEF StaffUpdate
<1>4. \A u \in pages : u \in Urls /\ u \in Fetched(crawl)
  BY SourcesAssumption DEF Fetched, Due
<1>5. \A u \in notes : u \in Urls /\ u \in Staffed
  BY SourcesAssumption DEF Staffed
<1>6. ~x.rebuild /\ ~x.incompatible => \A u \in Urls : Comparison(x)[u] = x.known[u]
  BY DEF Comparison
<1>7. \A u \in pages : Comparison(x)[u] # crawl.pages[u]
  BY DEF Due
<1>8. \A u \in notes : Comparison(x)[u] # staff[u]
  OBVIOUS
<1>9. x.incompatible => /\ \A u \in Fetched(crawl) : u \in pages
                        /\ \A u \in Staffed : u \in notes
  <2> SUFFICES ASSUME x.incompatible
               PROVE  /\ \A u \in Fetched(crawl) : u \in pages
                      /\ \A u \in Staffed : u \in notes
    OBVIOUS
  <2>1. \A u \in Urls : Comparison(x)[u] = Absent
    BY DEF Comparison
  <2>2. \A u \in Fetched(crawl) : u \in Urls /\ crawl.pages[u] # Absent
    BY SourcesAssumption DEF Fetched
  <2>3. \A u \in Staffed : u \in Urls /\ staff[u] # Absent
    BY SourcesAssumption DEF Staffed
  <2> QED BY <2>1, <2>2, <2>3 DEF Due
<1> HIDE DEF pages, read, notes
<1>10. \A up \in d.updates :
         /\ up.vectors = x.config
         /\ x.rebuild \/ x.incompatible \/ up.hash # x.known[up.url]
  <2> SUFFICES ASSUME NEW up \in d.updates
               PROVE  /\ up.vectors = x.config
                      /\ x.rebuild \/ x.incompatible \/ up.hash # x.known[up.url]
    OBVIOUS
  <2>1. CASE up \in read
    BY <1>2, <1>4, <1>6, <1>7, <2>1
  <2>2. CASE \E u \in notes : up = StaffUpdate(x, u, staff[u])
    BY <1>3, <1>5, <1>6, <1>8, <2>2
  <2> QED BY <1>1, <2>1, <2>2
<1>11. x.incompatible => \A u \in Urls : x.known[u] # Absent =>
         u \in d.removed \/ \E up \in d.updates : up.url = u
  <2> SUFFICES ASSUME x.incompatible, NEW u \in Urls, x.known[u] # Absent,
                      u \notin d.removed
               PROVE  \E up \in d.updates : up.url = u
    OBVIOUS
  <2>1. crawl.errors = {}
    OBVIOUS
  <2>2. d.removed = {v \in Urls : x.known[v] # Absent
                                     /\ v \notin Fetched(crawl) \cup Staffed}
    BY <2>1 DEF Prepared, RemovedFor
  <2>3. u \in Fetched(crawl) \/ u \in Staffed
    BY <2>2
  <2> QED BY <1>1, <1>2, <1>3, <1>9, <2>3
<1> QED BY <1>10, <1>11

LEMMA PrepareViews ==
  ASSUME IndexInv, Views, NEW b \in Builders, Prepare(b)
  PROVE  Views'
<1> DEFINE crawl == crawls[build[b].crawl]
<1>1. PICK unusable \in SUBSET Fetched(crawl), id \in Fresh \ Held :
        /\ build[b].incompatible => unusable \cup crawl.errors = {}
        /\ build' = [build EXCEPT ![b] = Readied(b, unusable \cup crawl.errors, id)]
  BY PrepareChoice
<1> DEFINE failed == unusable \cup crawl.errors
           d == Prepared(build[b], crawl, failed, id)
           x == Readied(b, failed, id)
<1>2. /\ build[b].pc = "compared" /\ Staffed \cap Fetched(crawl) = {}
      /\ UNCHANGED <<db, staged, delta>>
  BY DEF Prepare, vars
<1>3. build \in [Builders -> BuildState] /\ WellBuilt(build[b])
  BY DEF IndexInv, Builds
<1>4. build[b].crawl \in 1..Len(crawls) /\ build[b].config \in Configs
  BY <1>2, <1>3 DEF WellBuilt
<1>5. crawl \in CrawlReleases
  BY <1>4 DEF IndexInv, Builds
<1>6. d \in Delta
  BY <1>3, <1>4, <1>5, PreparedDelta DEF IndexInv, Builds, Fresh
<1>7. build' = [build EXCEPT ![b] = x]
  BY <1>1
<1>8. x = [build[b] EXCEPT !.pc = "ready", !.delta = d]
  BY DEF Readied
<1> HIDE DEF x
<1>9. /\ \A up \in d.updates :
            /\ up.vectors = build[b].config
            /\ build[b].rebuild \/ build[b].incompatible
                 \/ up.hash # build[b].known[up.url]
      /\ build[b].incompatible => \A u \in Urls : build[b].known[u] # Absent =>
            u \in d.removed \/ \E up \in d.updates : up.url = u
  <2>1. build[b] \in BuildState /\ staff \in [StaffUrls -> StaffHashes \cup {Absent}]
    BY <1>3 DEF IndexInv, Builds
  <2>2. crawl.errors \subseteq failed /\ (build[b].incompatible => failed = {})
    BY <1>1
  <2>3. d = Prepared(build[b], crawl, failed, id)
    OBVIOUS
  <2> HIDE DEF d, failed, crawl
  <2> QED BY <1>2, <1>4, <1>5, <2>1, <2>2, <2>3, PreparedWell
<1> HIDE DEF d
<1>10. x \in BuildState /\ x.pc = "ready" /\ x.delta = d
       /\ x.config = build[b].config /\ x.rebuild = build[b].rebuild
       /\ x.parent = build[b].parent /\ x.incompatible = build[b].incompatible
       /\ x.known = build[b].known
  BY ZenonT(60), <1>3, <1>6, <1>8 DEF BuildState, Stages
<1>11. Worked(x)
  BY <1>9, <1>10 DEF Worked, Covered
<1>12. Viewed(x)
  BY <1>2, <1>10 DEF Viewed, Views
<1>13. x.rebuild \in RebuildFlags \cup {FALSE}
  BY <1>10 DEF Views
<1> QED BY <1>2, <1>7, <1>10, <1>11, <1>12, <1>13, BuilderViews

LEMMA BeginPublishViews ==
  ASSUME IndexInv, Views, NEW b \in Builders, BeginPublish(b)
  PROVE  Views'
<1> DEFINE x == [build[b] EXCEPT !.pc = "publishing"]
<1>1. build \in [Builders -> BuildState]
  BY DEF IndexInv, Builds
<1>2. /\ build[b].pc = "ready" /\ delta = NoDelta /\ delta' = build[b].delta
      /\ build' = [build EXCEPT ![b] = x] /\ UNCHANGED <<db, staged>>
  BY <1>1 DEF BeginPublish, BeginDelta
<1>3. x.pc = "publishing" /\ x.delta = build[b].delta /\ x.config = build[b].config
      /\ x.rebuild = build[b].rebuild /\ x.parent = build[b].parent
      /\ x.incompatible = build[b].incompatible /\ x.known = build[b].known
  BY <1>1 DEF BuildState
<1> HIDE DEF x
<1>4. build'[b] = x /\ \A c \in Builders : c # b => build'[c] = build[c]
  BY <1>1, <1>2
<1>5. \A c \in Builders : build[c].pc # "publishing"
  BY <1>2 DEF IndexInv, OneTransaction
<1>6. \A c \in Builders : Viewed(build[c])'
  BY <1>2, <1>3, <1>4 DEF Views, Viewed
<1>7. \A c \in Builders : Worked(build[c])'
  BY <1>2, <1>3, <1>4 DEF Views, Worked, Covered, Planning
<1>8. \A c \in Builders : Progress(c)'
  <2>1. staged = db
    BY <1>2 DEF IndexInv, OneTransaction
  <2>2. Progress(b)'
    <3>1. build'[b].delta.updates \ delta'.updates = {}
      BY <1>2, <1>3, <1>4
    <3> QED BY <1>2, <2>1, <3>1 DEF Progress
  <2>3. \A c \in Builders : c # b => build'[c].pc # "publishing"
    BY <1>4, <1>5
  <2> QED BY <2>2, <2>3 DEF Progress
<1>9. OneConfiguration'
  BY <1>2 DEF Views, OneConfiguration
<1>10. \A c \in Builders : build'[c].rebuild \in RebuildFlags \cup {FALSE}
  BY <1>3, <1>4 DEF Views
<1> QED BY <1>6, <1>7, <1>8, <1>9, <1>10 DEF Views

(* One update leaves what every other URL has as it was.                    *)
LEMMA ApplyOneElsewhere ==
  ASSUME NEW t, Sound(t), NEW up \in Update
  PROVE  /\ \A u : u # up.url => ApplyOne(t, up).documents[u] = t.documents[u]
         /\ \A r : r.url # up.url =>
               (r \in ApplyOne(t, up).versions <=> r \in t.versions)
         /\ \A r \in LiveByFlag(ApplyOne(t, up)) :
               r = NewRow(t, up) \/ (r.url # up.url /\ r \in LiveByFlag(t))
         /\ NewRow(t, up).url = up.url
<1>1. t \in Tables /\ IsFiniteSet(t.versions) /\ t.versions \subseteq VersionRow
  BY DEF Sound, Tables
<1>2. /\ ApplyOne(t, up).documents =
            [t.documents EXCEPT ![up.url] = [audience |-> up.audience,
                                  active_version_id |-> NextNumber(t, up.url)]]
      /\ ApplyOne(t, up).versions = Deactivated(t, {up.url}) \cup {NewRow(t, up)}
  BY <1>1, ApplyOneFields
<1>3. Deactivated(t, {up.url}) = {Off(r, {up.url}) : r \in t.versions}
  BY <1>1, DeactivatedRows
<1>4. \A r \in t.versions :
        /\ Off(r, {up.url}).url = r.url
        /\ r.url # up.url => Off(r, {up.url}) = r
        /\ Off(r, {up.url}).is_active => r.url # up.url
  BY <1>1, OffFields DEF Off
<1>5. NewRow(t, up).url = up.url
  BY DEF NewRow
<1>6. \A u : u # up.url => ApplyOne(t, up).documents[u] = t.documents[u]
  BY <1>1, <1>2 DEF Tables
<1>7. \A r : r.url # up.url => (r \in ApplyOne(t, up).versions <=> r \in t.versions)
  <2> SUFFICES ASSUME NEW r, r.url # up.url
               PROVE  r \in ApplyOne(t, up).versions <=> r \in t.versions
    OBVIOUS
  <2>1. r # NewRow(t, up)
    BY <1>5
  <2>2. ASSUME r \in t.versions PROVE r \in Deactivated(t, {up.url})
    <3>1. Off(r, {up.url}) = r
      BY <1>4, <2>2
    <3> QED BY <1>3, <2>2, <3>1
  <2>3. ASSUME r \in Deactivated(t, {up.url}) PROVE r \in t.versions
    <3>1. PICK q \in t.versions : r = Off(q, {up.url})
      BY <1>3, <2>3
    <3>2. q.url # up.url
      BY <1>4, <3>1
    <3> QED BY <1>4, <3>1, <3>2
  <2> QED BY <1>2, <2>1, <2>2, <2>3
<1>8. \A r \in LiveByFlag(ApplyOne(t, up)) :
        r = NewRow(t, up) \/ (r.url # up.url /\ r \in LiveByFlag(t))
  BY <1>2, <1>3, <1>4 DEF LiveByFlag
<1> QED BY <1>5, <1>6, <1>7, <1>8

LEMMA StageOneViews ==
  ASSUME IndexInv, Views, NEW b \in Builders, StageOne(b)
  PROVE  Views'
<1>1. build[b].pc = "publishing" /\ StageUpdate /\ UNCHANGED <<db, build>>
  BY DEF StageOne, StageUpdate
<1>2. delta # NoDelta /\ delta \in Delta /\ Opened(b)
      /\ \A c \in Builders : build[c].pc = "publishing" => c = b
  BY <1>1, OneOpens
<1>3. PICK up \in delta.updates :
        /\ staged' = ApplyOne(staged, up)
        /\ delta' = [delta EXCEPT !.updates = @ \ {up}]
  BY <1>1 DEF StageUpdate
<1>4. up \in Update /\ Sound(staged)
  BY <1>2, ConstantsAssumption DEF Delta, IndexInv, IInv
<1>5. /\ delta'.updates = delta.updates \ {up} /\ delta'.config = delta.config
  BY <1>2, <1>3 DEF Delta
<1>6. Worked(build[b]) /\ Progress(b) /\ build[b].pc \in Planning
  BY <1>1 DEF Views, Planning
<1>7. up \in build[b].delta.updates /\ delta.config = build[b].config
  BY <1>2, <1>3, OneOpens, <1>1 DEF Opened, Agreed
<1>8. \A r \in LiveByFlag(staged') :
        r = NewRow(staged, up) \/ (r.url # up.url /\ r \in LiveByFlag(staged))
  BY <1>3, <1>4, ApplyOneElsewhere
<1>9. NewRow(staged, up).vectors = delta.config
  BY <1>6, <1>7 DEF NewRow, Worked
<1>10. \A r \in LiveByFlag(staged') :
         \/ r.vectors = delta'.config
         \/ /\ r \in LiveByFlag(db')
            /\ \A vp \in build'[b].delta.updates \ delta'.updates : vp.url # r.url
  BY <1>1, <1>5, <1>6, <1>8, <1>9 DEF Progress
<1>11. \A c \in Builders : Progress(c)'
  BY <1>1, <1>2, <1>10 DEF Progress
<1>12. \A c \in Builders : Viewed(build[c])'
  BY <1>1 DEF Views, Viewed
<1>13. \A c \in Builders : Worked(build[c])'
  BY <1>1 DEF Views, Worked, Covered
<1>14. OneConfiguration' /\ \A c \in Builders : build'[c].rebuild \in RebuildFlags \cup {FALSE}
  BY <1>1 DEF Views, OneConfiguration
<1> QED BY <1>11, <1>12, <1>13, <1>14 DEF Views

LEMMA AbortPublishViews ==
  ASSUME IndexInv, Views, NEW b \in Builders, AbortPublish(b)
  PROVE  Views'
<1>1. /\ build[b].pc = "publishing" /\ db' = db
      /\ build' = [build EXCEPT ![b] = Idle]
  BY DEF AbortPublish, Rollback
<1>2. build \in [Builders -> BuildState]
  BY DEF IndexInv, Builds
<1>3. build'[b] = Idle /\ \A c \in Builders : c # b => build'[c] = build[c]
  BY <1>1, <1>2
<1>4. Idle.pc = "idle" /\ Idle.rebuild = FALSE
  BY DEF Idle
<1>5. \A c \in Builders : build'[c].pc # "publishing"
  BY <1>1, <1>3, <1>4, OneOpens
<1>6. \A c \in Builders : Viewed(build[c])'
  BY <1>1, <1>3, <1>4 DEF Views, Viewed
<1>7. \A c \in Builders : Worked(build[c])'
  BY <1>3, <1>4 DEF Views, Worked, Covered, Planning
<1> QED BY <1>1, <1>3, <1>4, <1>5, <1>6, <1>7 DEF Views, Progress, OneConfiguration

(* What is live after the commit was embedded as the new release says: what *)
(* was not part of a change of configuration keeps the old one, and then    *)
(* the two are the same.                                                    *)
LEMMA CommitOneConfiguration ==
  ASSUME IndexInv, Views, NEW b \in Builders, CommitPublish(b)
  PROVE  OneConfiguration'
<1>1. /\ build[b].pc = "publishing" /\ delta.updates = {}
      /\ db' = FinishDelta(staged, delta)
  BY DEF CommitPublish, CommitDelta
<1>2. delta \in Delta /\ Opened(b) /\ Agreed(build[b])
  BY <1>1, OneOpens
<1>3. Sound(staged) /\ Sound(db) /\ Worked(build[b]) /\ Progress(b) /\ Viewed(build[b])
  BY DEF Views, IndexInv, IInv
<1>4. /\ db'.versions = Deactivated(staged, Stored(staged, delta.removed))
      /\ \E s : Tells(s, delta, db') /\ ActiveSnapshots(db') = {s}
  BY <1>1, <1>2, <1>3, FinishDeltaFields
<1>5. \A s \in ActiveSnapshots(db') : s.config = delta.config
  BY <1>4 DEF Tells
<1> SUFFICES ASSUME NEW r \in LiveByFlag(db') PROVE r.vectors = delta.config
  BY <1>5 DEF OneConfiguration
<1>6. r \in LiveByFlag(staged) /\ r.url \notin Stored(staged, delta.removed)
  <2>1. PICK q \in staged.versions : r = Off(q, Stored(staged, delta.removed))
    BY <1>3, <1>4, DeactivatedRows DEF LiveByFlag, Sound
  <2>2. q \in VersionRow
    BY <1>3 DEF Sound, Tables
  <2>3. r.is_active
    BY DEF LiveByFlag
  <2>4. q.is_active /\ q.url \notin Stored(staged, delta.removed)
    BY <2>1, <2>2, <2>3, OffFields
  <2>5. r = q
    BY <2>1, <2>4 DEF Off
  <2> QED BY <2>4, <2>5 DEF LiveByFlag
<1> SUFFICES ASSUME r.vectors # delta.config PROVE FALSE
  OBVIOUS
<1>7. r \in LiveByFlag(db) /\ \A up \in build[b].delta.updates : up.url # r.url
  BY <1>1, <1>3, <1>6 DEF Progress
<1>8. PICK s \in ActiveSnapshots(db) : s.config = r.vectors
  <2>1. db.versions # {}
    BY <1>7 DEF LiveByFlag
  <2>2. ActiveSnapshots(db) # {}
    BY <2>1 DEF IndexInv, Chained
  <2> QED BY <1>7, <2>2 DEF Views, OneConfiguration
<1>9. delta.config = build[b].config /\ build[b].parent = snapshot(db)
  BY <1>2 DEF Opened, Agreed
<1>10. build[b].incompatible /\ build[b].known = active_content_hashes(db)
  BY <1>1, <1>3, <1>8, <1>9 DEF Viewed
<1>11. r.url \in Urls /\ build[b].known[r.url] # Absent
  BY <1>3, <1>7, <1>10, KnownHash
<1>12. r.url \in delta.removed
  BY <1>1, <1>2, <1>3, <1>7, <1>10, <1>11 DEF Worked, Covered, Planning, Opened
<1>13. staged.documents[r.url] # NoDocument
  BY <1>3, <1>6 DEF Sound, LiveAgrees, LiveByPointer
<1> QED BY <1>6, <1>12, <1>13 DEF Stored

LEMMA CommitPublishViews ==
  ASSUME IndexInv, Views, NEW b \in Builders, CommitPublish(b)
  PROVE  Views'
<1>1. /\ build[b].pc = "publishing" /\ db' = FinishDelta(staged, delta)
      /\ build' = [build EXCEPT ![b].pc = "committed"]
  BY DEF CommitPublish, CommitDelta
<1>2. delta \in Delta /\ Opened(b) /\ Agreed(build[b])
      /\ \A c \in Builders : build[c].pc = "publishing" => c = b
  BY <1>1, OneOpens
<1>3. delta.run /\ delta.id \notin Ids(db) /\ delta.parent = snapshot(db)
      /\ delta.id \in SnapshotIds
  BY <1>2 DEF Opened, Agreed, Delta
<1>4. snapshot(db') = delta.id
  BY <1>1, <1>2, <1>3, FinishDeltaChains DEF IndexInv, IInv, OneTransaction
<1>5. build \in [Builders -> BuildState] /\ \A c \in Builders : WellBuilt(build[c])
  BY DEF IndexInv, Builds
<1>6. /\ build'[b].pc = "committed" /\ build'[b].rebuild = build[b].rebuild
      /\ \A c \in Builders : c # b => build'[c] = build[c]
  BY <1>1, <1>5 DEF BuildState
<1>7. \A c \in Builders : build[c].parent # snapshot(db')
  BY <1>3, <1>4, <1>5, ConstantsAssumption DEF WellBuilt
<1>8. \A c \in Builders : Viewed(build[c])'
  <2> SUFFICES ASSUME NEW c \in Builders PROVE Viewed(build[c])'
    OBVIOUS
  <2>1. CASE c = b
    BY <1>6, <2>1 DEF Viewed
  <2>2. CASE c # b
    BY <1>6, <1>7, <2>2 DEF Viewed
  <2> QED BY <2>1, <2>2
<1>9. \A c \in Builders : Worked(build[c])'
  BY <1>6 DEF Views, Worked, Covered, Planning
<1>10. \A c \in Builders : build'[c].pc # "publishing"
  BY <1>2, <1>6
<1> QED BY <1>6, <1>8, <1>9, <1>10, CommitOneConfiguration DEF Views, Progress

LEMMA IndexInitViews == IndexInit => Views
<1> SUFFICES ASSUME IndexInit PROVE Views
  OBVIOUS
<1>1. \A b \in Builders : build[b].pc = "idle" /\ build[b].rebuild = FALSE
  BY DEF IndexInit, Idle
<1>2. db.snapshots = {}
  BY DEF IndexInit, Init
<1> QED BY <1>1, <1>2
        DEF Views, Viewed, Worked, Planning, Progress, OneConfiguration, ActiveSnapshots

LEMMA IndexNextViews ==
  ASSUME IndexInv, Views, [IndexNext]_indexVars
  PROVE  Views'
<1>1. CASE \E b \in Builders : BuildNext(b)
  <2>1. PICK b \in Builders : BuildNext(b)
    BY <1>1
  <2> QED BY <2>1, ReadingViews, PrepareViews, BeginPublishViews, StageOneViews,
             CommitPublishViews, AbortPublishViews
          DEF BuildNext
<1>2. CASE ~\E b \in Builders : BuildNext(b)
  <2>1. UNCHANGED <<db, staged, delta, build>>
    BY <1>2 DEF IndexNext, PublishCrawl, EditStaff, Answer, ReadNext, BeginRead,
                Retrieve, EndRead, LogAnswer, LoseLog, indexVars, vars
  <2>2. \A c \in Builders : Viewed(build[c])'
    BY <2>1 DEF Views, Viewed
  <2>3. \A c \in Builders : Worked(build[c])'
    BY <2>1 DEF Views, Worked, Covered
  <2>4. \A c \in Builders : Progress(c)'
    BY <2>1 DEF Views, Progress
  <2> QED BY <2>1, <2>2, <2>3, <2>4 DEF Views, OneConfiguration
<1> QED BY <1>1, <1>2

LEMMA ViewsHold == IndexSpec => [](IndexInv /\ Views)
BY IndexInitInv, IndexNextInv, IndexInitViews, IndexNextViews, PTL DEF IndexSpec

(* What is served under a release was embedded under the release's own      *)
(* configuration, although the comparison that decides what is embedded     *)
(* again, and the read of what is live, are made long before the commit.    *)
THEOREM ServedAsEmbedded == IndexSpec => []OneConfiguration
<1>1. Views => OneConfiguration
  BY DEF Views
<1> QED BY <1>1, ViewsHold, PTL

-----------------------------------------------------------------------------
(***************************************************************************)
(* The indexers, the store and the crawls implement the release chain, for *)
(* any number of them: a commit is one merge of one crawl and the authored *)
(* sources onto the release it replaces, every other step a crawl that is  *)
(* offered or no step at all.                                              *)
(***************************************************************************)
(* What a URL serves, of any tables.                                        *)
Serving(r) == [hash |-> r.hash, audience |-> r.audience, vectors |-> r.vectors]

LiveOf(t) == [u \in Urls |->
                LET rows == {r \in LiveByPointer(t) : r.url = u}
                IN  IF rows = {} THEN Absent
                    ELSE LET r == CHOOSE x \in rows : TRUE
                         IN  [hash |-> r.hash, audience |-> r.audience,
                              vectors |-> r.vectors]]

LEMMA LiveAt ==
  ASSUME NEW t, Sound(t), NEW u \in Urls
  PROVE  /\ \A r \in LiveByFlag(t) : r.url = u => LiveOf(t)[u] = Serving(r)
         /\ (\A r \in LiveByFlag(t) : r.url # u) => LiveOf(t)[u] = Absent
<1> DEFINE rows == {r \in LiveByPointer(t) : r.url = u}
           a == CHOOSE x \in rows : TRUE
<1>1. LiveOf(t)[u] = IF rows = {} THEN Absent ELSE Serving(a)
  BY DEF LiveOf, Serving
<1>2. rows = {r \in LiveByFlag(t) : r.url = u}
  BY DEF Sound, LiveAgrees
<1>3. \A r, q \in rows : r = q
  BY <1>2 DEF Sound, ConstraintsHold, LiveByFlag
<1> HIDE DEF rows
<1>4. rows # {} => a \in rows
  OBVIOUS
<1> HIDE DEF a
<1>5. ASSUME NEW r \in LiveByFlag(t), r.url = u PROVE LiveOf(t)[u] = Serving(r)
  <2>1. r \in rows
    BY <1>2, <1>5
  <2>2. a = r
    BY <1>3, <1>4, <2>1
  <2> QED BY <1>1, <2>1, <2>2
<1>6. (\A r \in LiveByFlag(t) : r.url # u) => LiveOf(t)[u] = Absent
  BY <1>1, <1>2
<1> QED BY <1>5, <1>6

(* A page is public and an authored source has the audience its file says.  *)
Declared(r) == /\ r.hash \in StaffHashes => r.audience = StaffAudience[r.hash]
               /\ r.hash \in PageHashes => r.audience = public

-----------------------------------------------------------------------------
(* What Prepare put into a delta, told from the authored sources and the    *)
(* failures it saw then.                                                    *)
Noted(notes) == {u \in StaffUrls : notes[u] # Absent}

PlanOf(x, crawl, notes, failed) ==
    /\ Noted(notes) \cap Fetched(crawl) = {}
    /\ crawl.errors \subseteq failed /\ failed \subseteq Fetched(crawl) \cup crawl.errors
    /\ x.incompatible => failed = {}
    /\ x.delta.updates =
          PageUpdates(x, crawl, failed)
          \cup
          {StaffUpdate(x, u, notes[u]) :
              u \in {v \in Noted(notes) : Comparison(x)[v] # notes[v]}}
    /\ x.delta.removed =
          IF crawl.errors # {} THEN {}
          ELSE {u \in Urls : x.known[u] # Absent /\ u \notin Fetched(crawl) \cup Noted(notes)}

Planned(x) ==
    x.pc \in Planning =>
        \E notes \in [StaffUrls -> StaffHashes \cup {Absent}], failed \in SUBSET WebUrls :
            PlanOf(x, crawls[x.crawl], notes, failed)

(* The same transaction, seen from the sources: what is done serves its     *)
(* update and the rest is as it is committed.                               *)
Done(b) == build[b].delta.updates \ delta.updates

Untouched(u) ==
    /\ \A r : r.url = u => (r \in staged.versions <=> r \in db.versions)
    /\ staged.documents[u] = db.documents[u]

Staging(b) ==
    build[b].pc = "publishing" =>
        /\ \A up \in Done(b) : \E r \in LiveByFlag(staged) :
              r.url = up.url /\ Serving(r) = Serving(up)
        /\ \A u \in Urls : (\A up \in Done(b) : up.url # u) => Untouched(u)

Plans ==
    /\ \A b \in Builders : Planned(build[b]) /\ Staging(b)
    /\ \A r \in db.versions \cup staged.versions : Declared(r)

LEMMA PlanSame ==
  ASSUME NEW x, NEW y, NEW crawl, NEW notes, NEW failed, PlanOf(x, crawl, notes, failed),
         y.config = x.config, y.rebuild = x.rebuild, y.incompatible = x.incompatible,
         y.known = x.known, y.delta = x.delta
  PROVE  PlanOf(y, crawl, notes, failed)
<1>1. Comparison(y) = Comparison(x)
  BY DEF Comparison
<1>2. PageUpdates(y, crawl, failed) = PageUpdates(x, crawl, failed)
  BY <1>1 DEF PageUpdates, PageUpdate
<1>3. \A u, h : StaffUpdate(y, u, h) = StaffUpdate(x, u, h)
  BY DEF StaffUpdate
<1> QED BY <1>1, <1>2, <1>3 DEF PlanOf

(* The updates of a plan, one by one.                                       *)
LEMMA PlanUpdates ==
  ASSUME NEW x, x.config \in Configs, NEW crawl \in CrawlReleases,
         NEW notes \in [StaffUrls -> StaffHashes \cup {Absent}], NEW failed,
         PlanOf(x, crawl, notes, failed)
  PROVE  /\ \A u \in Urls : u \notin Noted(notes) /\ u \notin Fetched(crawl) \ failed =>
               \A up \in x.delta.updates : up.url # u
         /\ \A u \in Fetched(crawl) \ failed :
               IF Comparison(x)[u] = crawl.pages[u]
               THEN \A up \in x.delta.updates : up.url # u
               ELSE \E up \in x.delta.updates :
                       /\ up.url = u /\ up.hash = crawl.pages[u]
                       /\ up.audience = public /\ up.vectors = x.config
         /\ \A u \in Noted(notes) :
               IF Comparison(x)[u] = notes[u]
               THEN \A up \in x.delta.updates : up.url # u
               ELSE \E up \in x.delta.updates :
                       /\ up.url = u /\ up.hash = notes[u]
                       /\ up.audience = StaffAudience[notes[u]] /\ up.vectors = x.config
         /\ \A up \in x.delta.updates : Declared(up)
         /\ \A up, vp \in x.delta.updates : up.url = vp.url =>
               /\ Serving(up) = Serving(vp)
               /\ up # vp => Asks(x, crawl, up) /\ Asks(x, crawl, vp)
<1> DEFINE pages == Due(x, crawl, failed)
           read == PageUpdates(x, crawl, failed)
           texts == {v \in Noted(notes) : Comparison(x)[v] # notes[v]}
<1>1. x.delta.updates = read \cup {StaffUpdate(x, u, notes[u]) : u \in texts}
  BY DEF PlanOf
<1>2. /\ \A up \in read : /\ up.url \in pages /\ up.hash = crawl.pages[up.url]
                          /\ up.audience = public /\ up.vectors = x.config
                          /\ Asks(x, crawl, up)
      /\ \A u \in pages : \E up \in read : up.url = u
  <2>1. /\ \A up \in read : up.url \in pages /\ Asks(x, crawl, up)
        /\ \A u \in pages : \E up \in read : up.url = u
    BY PageUpdatesAre
  <2>2. ASSUME NEW up \in read
        PROVE  /\ up.hash = crawl.pages[up.url] /\ up.audience = public
               /\ up.vectors = x.config
    <3> HIDE DEF pages, read
    <3>1. Asks(x, crawl, up)
      BY <2>1
    <3> QED BY <3>1 DEF Asks, PageUpdate
  <2> HIDE DEF pages, read
  <2> QED BY <2>1, <2>2
<1>3. \A u \in texts : LET up == StaffUpdate(x, u, notes[u]) IN
        /\ up.url = u /\ up.hash = notes[u] /\ up.audience = StaffAudience[notes[u]]
        /\ up.vectors = x.config
  BY DEF StaffUpdate
<1>4. \A u \in Fetched(crawl) : crawl.pages[u] \in PageHashes
  BY BundleFields
<1>5. \A u \in Noted(notes) : notes[u] \in StaffHashes
  BY DEF Noted
<1>6. /\ pages \subseteq Fetched(crawl) \ failed /\ texts \subseteq Noted(notes)
      /\ \A u \in Fetched(crawl) \ failed : u \in pages <=> Comparison(x)[u] # crawl.pages[u]
      /\ \A u \in Noted(notes) : u \in texts <=> Comparison(x)[u] # notes[u]
  BY DEF Due
<1>7. Noted(notes) \cap Fetched(crawl) = {}
  BY DEF PlanOf
<1> HIDE DEF pages, read, texts
<1>8. \A up \in x.delta.updates :
        \/ up \in read
        \/ \E u \in texts : up = StaffUpdate(x, u, notes[u])
  BY <1>1
<1>9. \A u : u \notin pages /\ u \notin texts => \A up \in x.delta.updates : up.url # u
  BY <1>2, <1>3, <1>8
<1>10. read \subseteq x.delta.updates
  BY <1>1
<1>11. \A u \in texts : StaffUpdate(x, u, notes[u]) \in x.delta.updates
  BY <1>1
<1>12. \A u \in Fetched(crawl) \ failed :
         IF Comparison(x)[u] = crawl.pages[u]
         THEN \A up \in x.delta.updates : up.url # u
         ELSE \E up \in x.delta.updates :
                 /\ up.url = u /\ up.hash = crawl.pages[u]
                 /\ up.audience = public /\ up.vectors = x.config
  BY <1>2, <1>6, <1>7, <1>9, <1>10
<1>13. \A u \in Noted(notes) :
         IF Comparison(x)[u] = notes[u]
         THEN \A up \in x.delta.updates : up.url # u
         ELSE \E up \in x.delta.updates :
                 /\ up.url = u /\ up.hash = notes[u]
                 /\ up.audience = StaffAudience[notes[u]] /\ up.vectors = x.config
  BY <1>3, <1>6, <1>7, <1>9, <1>11
<1>14. \A up \in x.delta.updates : Declared(up)
  <2> SUFFICES ASSUME NEW up \in x.delta.updates PROVE Declared(up)
    OBVIOUS
  <2>1. CASE up \in read
    BY <1>2, <1>4, <1>6, <2>1, SourcesAssumption DEF Declared
  <2>2. CASE \E u \in texts : up = StaffUpdate(x, u, notes[u])
    BY <1>3, <1>5, <1>6, <2>2, SourcesAssumption DEF Declared
  <2> QED BY <1>8, <2>1, <2>2
<1>15. \A u \in Urls : u \notin Noted(notes) /\ u \notin Fetched(crawl) \ failed =>
         \A up \in x.delta.updates : up.url # u
  BY <1>6, <1>9
<1>16. \A up, vp \in x.delta.updates : up.url = vp.url =>
         /\ Serving(up) = Serving(vp)
         /\ up # vp => Asks(x, crawl, up) /\ Asks(x, crawl, vp)
  <2> SUFFICES ASSUME NEW up \in x.delta.updates, NEW vp \in x.delta.updates, up.url = vp.url
               PROVE  /\ Serving(up) = Serving(vp)
                      /\ up # vp => Asks(x, crawl, up) /\ Asks(x, crawl, vp)
    OBVIOUS
  <2>1. CASE up \in read /\ vp \in read
    BY <1>2, <2>1 DEF Serving
  <2>2. CASE /\ \E u \in texts : up = StaffUpdate(x, u, notes[u])
             /\ \E u \in texts : vp = StaffUpdate(x, u, notes[u])
    BY <1>3, <2>2
  <2>3. ~(up.url \in pages /\ up.url \in texts)
    BY <1>6, <1>7
  <2> QED BY <1>2, <1>3, <1>8, <2>1, <2>2, <2>3
<1> QED BY <1>12, <1>13, <1>14, <1>15, <1>16

-----------------------------------------------------------------------------
(* The commit.                                                              *)
LEMMA KnownLive ==
  ASSUME NEW t, Sound(t), NEW u \in Urls, active_content_hashes(t)[u] # Absent
  PROVE  \E r \in LiveByFlag(t) : r.url = u /\ r.hash = active_content_hashes(t)[u]
<1> DEFINE rows == {r \in LiveByPointer(t) : r.url = u}
           a == CHOOSE r \in rows : TRUE
<1>1. active_content_hashes(t)[u] = IF rows = {} THEN Absent ELSE a.hash
  BY DEF active_content_hashes
<1>2. rows # {} /\ active_content_hashes(t)[u] = a.hash
  BY <1>1
<1>3. a \in rows
  BY <1>2
<1>4. a \in LiveByFlag(t) /\ a.url = u
  BY <1>3 DEF Sound, LiveAgrees
<1> QED BY <1>2, <1>4

LEMMA FinishLive ==
  ASSUME NEW t, Sound(t), NEW d \in Delta
  PROVE  LiveByFlag(FinishDelta(t, d)) = {r \in LiveByFlag(t) : r.url \notin d.removed}
<1> DEFINE out == Stored(t, d.removed)
<1>1. FinishDelta(t, d).versions = Deactivated(t, out)
  BY FinishDeltaFields
<1>2. Deactivated(t, out) = {Off(r, out) : r \in t.versions} /\ t.versions \subseteq VersionRow
  BY DeactivatedRows DEF Sound, Tables
<1>3. \A r \in t.versions :
        /\ Off(r, out).is_active <=> r.is_active /\ r.url \notin out
        /\ r.url \notin out => Off(r, out) = r
  BY <1>2, OffFields DEF Off
<1>4. \A r \in LiveByFlag(t) : r.url \in out <=> r.url \in d.removed
  BY DEF Sound, LiveAgrees, LiveByPointer, Stored
<1> HIDE DEF out
<1> QED BY <1>1, <1>2, <1>3, <1>4 DEF LiveByFlag

LEMMA LiveAfter ==
  ASSUME IndexInv, Plans, NEW b \in Builders, CommitPublish(b), NEW u \in Urls
  PROVE  /\ u \in build[b].delta.removed => LiveOf(db')[u] = Absent
         /\ u \notin build[b].delta.removed =>
              /\ \A up \in build[b].delta.updates :
                    up.url = u => LiveOf(db')[u] = Serving(up)
              /\ (\A up \in build[b].delta.updates : up.url # u)
                    => LiveOf(db')[u] = LiveOf(db)[u]
<1>1. /\ build[b].pc = "publishing" /\ delta.updates = {}
      /\ db' = FinishDelta(staged, delta)
  BY DEF CommitPublish, CommitDelta
<1>2. delta \in Delta /\ delta.removed = build[b].delta.removed
  BY <1>1, OneOpens DEF Opened
<1>3. Sound(staged) /\ Sound(db) /\ Sound(db)'
  BY CommitPublishInv DEF IndexInv, IInv
<1>4. Sound(db')
  BY <1>1, <1>2, <1>3, FinishDeltaSound
<1>5. LiveByFlag(db') = {r \in LiveByFlag(staged) : r.url \notin delta.removed}
  BY <1>1, <1>2, <1>3, FinishLive
<1>6. Staging(b) /\ Done(b) = build[b].delta.updates
  BY <1>1 DEF Plans, Done
<1>7. CASE u \in delta.removed
  <2>1. \A r \in LiveByFlag(db') : r.url # u
    BY <1>5, <1>7
  <2> QED BY <1>2, <1>4, <1>7, <2>1, LiveAt
<1>8. CASE u \notin delta.removed
  <2>1. ASSUME NEW up \in build[b].delta.updates, up.url = u
        PROVE  LiveOf(db')[u] = Serving(up)
    <3>1. PICK r \in LiveByFlag(staged) : r.url = u /\ Serving(r) = Serving(up)
      BY <1>1, <1>6, <2>1 DEF Staging
    <3>2. r \in LiveByFlag(db')
      BY <1>5, <1>8, <3>1
    <3> QED BY <1>4, <3>1, <3>2, LiveAt
  <2>2. ASSUME \A up \in build[b].delta.updates : up.url # u
        PROVE  LiveOf(db')[u] = LiveOf(db)[u]
    <3>1. Untouched(u)
      BY <1>1, <1>6, <2>2 DEF Staging
    <3>2. \A r : r.url = u => (r \in LiveByFlag(db') <=> r \in LiveByFlag(db))
      BY <1>5, <1>8, <3>1 DEF Untouched, LiveByFlag
    <3>3. CASE \E r \in LiveByFlag(db) : r.url = u
      BY <1>3, <1>4, <3>2, <3>3, LiveAt
    <3>4. CASE \A r \in LiveByFlag(db) : r.url # u
      <4>1. \A r \in LiveByFlag(db') : r.url # u
        BY <3>2, <3>4
      <4> QED BY <1>3, <1>4, <3>4, <4>1, LiveAt
    <3> QED BY <3>3, <3>4
  <2> QED BY <1>2, <1>8, <2>1, <2>2
<1> QED BY <1>7, <1>8

(* A source that is compared and found the same is served as it would be    *)
(* published now: same content, same audience, same configuration.          *)
LEMMA SameIsServed ==
  ASSUME IndexInv, Views, Plans, NEW b \in Builders, build[b].pc = "publishing",
         NEW u \in Urls, NEW hash \in Hashes, Comparison(build[b])[u] = hash
  PROVE  \E r \in LiveByFlag(db) : /\ r.url = u /\ r.hash = hash
                                   /\ r.vectors = build[b].config
                                   /\ Declared(r)
                                   /\ LiveOf(db)[u] = Serving(r)
<1>1. ~build[b].incompatible /\ build[b].known[u] = hash /\ hash # Absent
  BY SourcesAssumption DEF Comparison
<1>2. build[b].parent = snapshot(db)
  BY OneOpens DEF Opened, Agreed
<1>3. /\ build[b].known = active_content_hashes(db)
      /\ \A s \in ActiveSnapshots(db) : s.config = build[b].config
  BY <1>1, <1>2 DEF Views, Viewed
<1>4. Sound(db) /\ Chained(db)
  BY DEF IndexInv, IInv
<1>5. PICK r \in LiveByFlag(db) : r.url = u /\ r.hash = hash
  BY <1>1, <1>3, <1>4, KnownLive
<1>6. r.vectors = build[b].config
  <2>1. db.versions # {}
    BY <1>5 DEF LiveByFlag
  <2>2. PICK s \in ActiveSnapshots(db) : TRUE
    BY <1>4, <2>1 DEF Chained
  <2> QED BY <1>3, <1>5, <2>2 DEF Views, OneConfiguration
<1>7. Declared(r)
  BY <1>5 DEF Plans, LiveByFlag
<1>8. LiveOf(db)[u] = Serving(r)
  BY <1>4, <1>5, LiveAt
<1> QED BY <1>5, <1>6, <1>7, <1>8

LEMMA CommitMerges ==
  ASSUME IndexInv, Views, Plans, NEW b \in Builders, CommitPublish(b),
         NEW crawl \in CrawlReleases,
         NEW notes \in [StaffUrls -> StaffHashes \cup {Absent}], NEW failed,
         PlanOf(build[b], crawl, notes, failed), NEW u \in Urls
  PROVE  LiveOf(db')[u] =
           IF u \in Noted(notes)
           THEN [hash |-> notes[u], audience |-> StaffAudience[notes[u]],
                 vectors |-> build[b].config]
           ELSE IF u \in Fetched(crawl) \ failed
           THEN [hash |-> crawl.pages[u], audience |-> public,
                 vectors |-> build[b].config]
           ELSE IF u \in failed \/ crawl.errors # {} THEN LiveOf(db)[u]
           ELSE Absent
<1> DEFINE x == build[b]
<1>1. x.pc = "publishing"
  BY DEF CommitPublish
<1>2. x.config \in Configs
  BY <1>1 DEF IndexInv, Builds, WellBuilt
<1>3. x.delta.removed =
        IF crawl.errors # {} THEN {}
        ELSE {v \in Urls : x.known[v] # Absent /\ v \notin Fetched(crawl) \cup Noted(notes)}
  BY DEF PlanOf
<1>4. /\ Noted(notes) \cap Fetched(crawl) = {}
      /\ crawl.errors \subseteq failed /\ failed \subseteq Fetched(crawl) \cup crawl.errors
  BY DEF PlanOf
<1>5. /\ u \in x.delta.removed => LiveOf(db')[u] = Absent
      /\ u \notin x.delta.removed =>
           /\ \A up \in x.delta.updates : up.url = u => LiveOf(db')[u] = Serving(up)
           /\ (\A up \in x.delta.updates : up.url # u) => LiveOf(db')[u] = LiveOf(db)[u]
  BY LiveAfter
<1>6. CASE u \in Noted(notes)
  <2>1. u \notin x.delta.removed /\ notes[u] \in StaffHashes /\ notes[u] \in Hashes
    BY <1>3, <1>6, SourcesAssumption DEF Noted
  <2>2. CASE Comparison(x)[u] = notes[u]
    <3>1. PICK r \in LiveByFlag(db) :
            /\ r.hash = notes[u] /\ r.vectors = x.config /\ Declared(r)
            /\ LiveOf(db)[u] = Serving(r)
      BY <1>1, <2>1, <2>2, SameIsServed
    <3>2. \A up \in x.delta.updates : up.url # u
      BY <1>2, <1>6, <2>2, PlanUpdates
    <3> QED BY <1>5, <1>6, <2>1, <3>1, <3>2 DEF Serving, Declared
  <2>3. CASE Comparison(x)[u] # notes[u]
    <3>1. PICK up \in x.delta.updates :
            /\ up.url = u /\ up.hash = notes[u]
            /\ up.audience = StaffAudience[notes[u]] /\ up.vectors = x.config
      BY <1>2, <1>6, <2>3, PlanUpdates
    <3> QED BY <1>5, <1>6, <2>1, <3>1 DEF Serving
  <2> QED BY <2>2, <2>3
<1>7. CASE u \notin Noted(notes) /\ u \in Fetched(crawl) \ failed
  <2>1. u \notin x.delta.removed /\ crawl.pages[u] \in PageHashes /\ crawl.pages[u] \in Hashes
    BY <1>3, <1>7, BundleFields, SourcesAssumption
  <2>2. CASE Comparison(x)[u] = crawl.pages[u]
    <3>1. PICK r \in LiveByFlag(db) :
            /\ r.hash = crawl.pages[u] /\ r.vectors = x.config /\ Declared(r)
            /\ LiveOf(db)[u] = Serving(r)
      BY <1>1, <2>1, <2>2, SameIsServed
    <3>2. \A up \in x.delta.updates : up.url # u
      BY <1>2, <1>7, <2>2, PlanUpdates
    <3> QED BY <1>5, <1>7, <2>1, <3>1, <3>2 DEF Serving, Declared
  <2>3. CASE Comparison(x)[u] # crawl.pages[u]
    <3>1. PICK up \in x.delta.updates :
            /\ up.url = u /\ up.hash = crawl.pages[u]
            /\ up.audience = public /\ up.vectors = x.config
      BY <1>2, <1>7, <2>3, PlanUpdates
    <3> QED BY <1>5, <1>7, <2>1, <3>1 DEF Serving
  <2> QED BY <2>2, <2>3
<1>8. CASE /\ u \notin Noted(notes) /\ u \notin Fetched(crawl) \ failed
           /\ u \in failed \/ crawl.errors # {}
  <2>1. u \notin x.delta.removed
    BY <1>3, <1>4, <1>8
  <2>2. \A up \in x.delta.updates : up.url # u
    BY <1>2, <1>8, PlanUpdates
  <2> QED BY <1>5, <1>8, <2>1, <2>2
<1>9. CASE /\ u \notin Noted(notes) /\ u \notin Fetched(crawl) \ failed
           /\ ~(u \in failed \/ crawl.errors # {})
  <2>1. CASE x.known[u] # Absent
    BY <1>3, <1>5, <1>9, <2>1
  <2>2. CASE x.known[u] = Absent
    <3>1. u \notin x.delta.removed
      BY <1>3, <2>2
    <3>2. \A up \in x.delta.updates : up.url # u
      BY <1>2, <1>9, PlanUpdates
    <3>3. x.known = active_content_hashes(db)
      BY <1>1, OneOpens DEF Opened, Agreed, Views, Viewed
    <3>4. \A r \in LiveByFlag(db) : r.url # u
      BY <2>2, <3>3, KnownHash DEF IndexInv, IInv
    <3>5. LiveOf(db)[u] = Absent
      BY <3>4, LiveAt DEF IndexInv, IInv
    <3> QED BY <1>5, <1>9, <3>1, <3>2, <3>5
  <2> QED BY <2>1, <2>2
<1> QED BY <1>6, <1>7, <1>8, <1>9

-----------------------------------------------------------------------------
(* The plans survive every step.                                            *)
LEMMA CrawlsKept ==
  ASSUME IndexInv, [IndexNext]_indexVars
  PROVE  /\ \A i \in 1..Len(crawls) : crawls'[i] = crawls[i] /\ crawls[i] \in CrawlReleases
<1>1. crawls \in Seq(CrawlReleases)
  BY DEF IndexInv, Builds
<1>2. CASE PublishCrawl
  <2>1. PICK c \in CrawlReleases : crawls' = Append(crawls, c)
    BY <1>2 DEF PublishCrawl
  <2> QED BY <1>1, <2>1
<1>3. CASE ~PublishCrawl
  <2>1. crawls' = crawls
    BY <1>3 DEF IndexNext, BuildNext, LoadRelease, ReadParent, ReadKnown, Prepare,
                BeginPublish, StageOne, CommitPublish, ReadReport, Return, Raise,
                AbortPublish, EditStaff, Answer, indexVars
  <2> QED BY <1>1, <2>1
<1> QED BY <1>2, <1>3

LEMMA PlannedSame ==
  ASSUME IndexInv, [IndexNext]_indexVars, NEW b \in Builders, Planned(build[b]),
         NEW y, y = build'[b], y.pc \in Planning => build[b].pc \in Planning,
         y.pc \in Planning =>
            /\ y.config = build[b].config /\ y.rebuild = build[b].rebuild
            /\ y.incompatible = build[b].incompatible /\ y.known = build[b].known
            /\ y.delta = build[b].delta /\ y.crawl = build[b].crawl
  PROVE  Planned(build[b])'
<1> SUFFICES ASSUME y.pc \in Planning PROVE Planned(build[b])'
  BY DEF Planned
<1>1. PICK notes \in [StaffUrls -> StaffHashes \cup {Absent}], failed \in SUBSET WebUrls :
        PlanOf(build[b], crawls[build[b].crawl], notes, failed)
  BY DEF Planned
<1>2. build[b].crawl \in 1..Len(crawls)
  BY DEF IndexInv, Builds, WellBuilt, Planning
<1>3. crawls'[y.crawl] = crawls[build[b].crawl]
  BY <1>2, CrawlsKept
<1>4. PlanOf(y, crawls'[y.crawl], notes, failed)
  BY <1>1, <1>3, PlanSame
<1> QED BY <1>4 DEF Planned

LEMMA OthersPlanned ==
  ASSUME IndexInv, Plans, [IndexNext]_indexVars, NEW b \in Builders,
         \A c \in Builders : c # b => build'[c] = build[c],
         build'[b].pc \notin Planning
  PROVE  \A c \in Builders : Planned(build[c])'
<1> SUFFICES ASSUME NEW c \in Builders PROVE Planned(build[c])'
  OBVIOUS
<1>1. CASE c = b
  BY <1>1 DEF Planned
<1>2. CASE c # b
  <2>1. build'[c] = build[c] /\ Planned(build[c])
    BY <1>2 DEF Plans
  <2> QED BY <2>1, PlannedSame
<1> QED BY <1>1, <1>2

(* The steps that read leave the tables alone, and no plan.                 *)
LEMMA ReadingSteps ==
  ASSUME IndexInv, NEW b \in Builders,
         LoadRelease(b) \/ ReadParent(b) \/ ReadKnown(b) \/ ReadReport(b)
           \/ Return(b) \/ Raise(b)
  PROVE  /\ UNCHANGED <<db, staged, delta>>
         /\ \A c \in Builders : c # b => build'[c] = build[c]
         /\ build'[b].pc \notin Planning
<1>1. build \in [Builders -> BuildState]
  BY DEF IndexInv, Builds
<1>2. UNCHANGED <<db, staged, delta>>
  BY DEF LoadRelease, ReadParent, ReadKnown, ReadReport, Return, Raise, vars
<1>3. \A c \in Builders : c # b => build'[c] = build[c]
  BY <1>1 DEF LoadRelease, ReadParent, ReadKnown, ReadReport, Return, Raise
<1>4. build'[b].pc \notin Planning
  <2>1. Idle.pc = "idle"
    BY DEF Idle
  <2>2. CASE LoadRelease(b)
    <3>1. PICK rebuild \in RebuildFlags, config \in Configs :
            build' = [build EXCEPT ![b] =
               [Idle EXCEPT !.pc = "sourced", !.rebuild = rebuild,
                            !.config = config, !.crawl = Len(crawls)]]
      BY <2>2 DEF LoadRelease
    <3>2. build'[b] = [Idle EXCEPT !.pc = "sourced", !.rebuild = rebuild,
                                   !.config = config, !.crawl = Len(crawls)]
      BY <1>1, <3>1
    <3>3. build'[b].pc = "sourced"
      BY <3>2, IdleType DEF BuildState
    <3> QED BY <3>3 DEF Planning
  <2>3. CASE ReadParent(b)
    <3>1. build'[b].pc = "parented"
      BY <1>1, <2>3 DEF ReadParent, BuildState
    <3> QED BY <3>1 DEF Planning
  <2>4. CASE ReadKnown(b)
    <3>1. build'[b].pc = "compared"
      BY <1>1, <2>4 DEF ReadKnown, BuildState
    <3> QED BY <3>1 DEF Planning
  <2>5. CASE ReadReport(b)
    <3>1. build'[b].pc = "reported"
      BY <1>1, <2>5 DEF ReadReport, BuildState
    <3> QED BY <3>1 DEF Planning
  <2>6. CASE Return(b) \/ Raise(b)
    <3>1. build'[b] = Idle
      BY <1>1, <2>6 DEF Return, Raise
    <3> QED BY <2>1, <3>1 DEF Planning
  <2> QED BY <2>2, <2>3, <2>4, <2>5, <2>6
<1> QED BY <1>2, <1>3, <1>4

LEMMA ReadingPlans ==
  ASSUME IndexInv, Plans, NEW b \in Builders,
         LoadRelease(b) \/ ReadParent(b) \/ ReadKnown(b) \/ ReadReport(b)
           \/ Return(b) \/ Raise(b)
  PROVE  Plans'
<1>1. /\ UNCHANGED <<db, staged, delta>>
      /\ \A c \in Builders : c # b => build'[c] = build[c]
      /\ build'[b].pc \notin Planning
  BY ReadingSteps
<1>2. [IndexNext]_indexVars
  BY DEF IndexNext, BuildNext
<1>3. \A c \in Builders : Planned(build[c])'
  BY <1>1, <1>2, OthersPlanned
<1>4. \A c \in Builders : Staging(c)'
  BY <1>1 DEF Plans, Staging, Done, Untouched, Planning
<1> QED BY <1>1, <1>3, <1>4 DEF Plans, Declared

LEMMA PreparePlans ==
  ASSUME IndexInv, Plans, NEW b \in Builders, Prepare(b)
  PROVE  Plans'
<1> DEFINE crawl == crawls[build[b].crawl]
<1>1. PICK unusable \in SUBSET Fetched(crawl), id \in Fresh \ Held :
        /\ build[b].incompatible => unusable \cup crawl.errors = {}
        /\ build' = [build EXCEPT ![b] = Readied(b, unusable \cup crawl.errors, id)]
  BY PrepareChoice
<1> DEFINE failed == unusable \cup crawl.errors
           d == Prepared(build[b], crawl, failed, id)
           x == Readied(b, failed, id)
<1>2. /\ build[b].pc = "compared" /\ Staffed \cap Fetched(crawl) = {}
      /\ UNCHANGED <<db, staged, delta, crawls>>
  BY DEF Prepare, vars
<1>3. build \in [Builders -> BuildState] /\ WellBuilt(build[b])
      /\ staff \in [StaffUrls -> StaffHashes \cup {Absent}]
  BY DEF IndexInv, Builds
<1>4. build[b].crawl \in 1..Len(crawls)
  BY <1>2, <1>3 DEF WellBuilt
<1>5. crawl \in CrawlReleases
  BY <1>4 DEF IndexInv, Builds
<1>6. failed \in SUBSET WebUrls
  BY <1>5, BundleFields
<1>7. x = [build[b] EXCEPT !.pc = "ready", !.delta = d]
  BY DEF Readied
<1>8. /\ d.updates = UpdatesFor(build[b], crawl, failed)
      /\ d.removed = RemovedFor(build[b], crawl)
  BY DEF Prepared
<1> HIDE DEF d, x
<1>9. /\ x.pc = "ready" /\ x.delta = d /\ x.crawl = build[b].crawl
      /\ x.config = build[b].config /\ x.rebuild = build[b].rebuild
      /\ x.incompatible = build[b].incompatible /\ x.known = build[b].known
  BY <1>3, <1>7 DEF BuildState
<1>10. PlanOf(x, crawl, staff, failed)
  <2>1. /\ Comparison(x) = Comparison(build[b])
        /\ PageUpdates(x, crawl, failed) = PageUpdates(build[b], crawl, failed)
        /\ \A u, h : StaffUpdate(x, u, h) = StaffUpdate(build[b], u, h)
    <3>1. Comparison(x) = Comparison(build[b])
      BY <1>9 DEF Comparison
    <3> HIDE DEF crawl, failed
    <3> QED BY <1>9, <3>1 DEF PageUpdates, PageUpdate, StaffUpdate
  <2>2. Staffed = Noted(staff)
    BY DEF Staffed, Noted
  <2>3. x.incompatible => failed = {}
    BY <1>1, <1>9
  <2>4. d.updates =
          PageUpdates(x, crawl, failed)
          \cup
          {StaffUpdate(x, u, staff[u]) :
              u \in {v \in Noted(staff) : Comparison(x)[v] # staff[v]}}
    BY <1>8, <2>1, <2>2 DEF UpdatesFor
  <2>5. d.removed =
          IF crawl.errors # {} THEN {}
          ELSE {u \in Urls : x.known[u] # Absent /\ u \notin Fetched(crawl) \cup Noted(staff)}
    BY <1>8, <1>9, <2>2 DEF RemovedFor
  <2>6. crawl.errors \subseteq failed /\ failed \subseteq Fetched(crawl) \cup crawl.errors
    OBVIOUS
  <2> HIDE DEF failed, crawl
  <2> QED BY <1>2, <1>9, <2>2, <2>3, <2>4, <2>5, <2>6 DEF PlanOf
<1>11. build'[b] = x /\ \A c \in Builders : c # b => build'[c] = build[c]
  BY <1>1, <1>3 DEF x
<1>12. Planned(build[b])'
  <2>1. crawls'[build'[b].crawl] = crawl
    BY <1>2, <1>9, <1>11
  <2> QED BY <1>3, <1>6, <1>10, <1>11, <2>1 DEF Planned
<1>13. [IndexNext]_indexVars
  BY DEF IndexNext, BuildNext
<1>14. \A c \in Builders : Planned(build[c])'
  <2> SUFFICES ASSUME NEW c \in Builders, c # b PROVE Planned(build[c])'
    BY <1>12
  <2>1. build'[c] = build[c] /\ Planned(build[c])
    BY <1>11 DEF Plans
  <2> QED BY <1>13, <2>1, PlannedSame
<1>15. \A c \in Builders : Staging(c)'
  BY <1>2, <1>9, <1>11 DEF Plans, Staging, Done, Untouched
<1> QED BY <1>2, <1>14, <1>15 DEF Plans, Declared

LEMMA BeginPublishPlans ==
  ASSUME IndexInv, Plans, NEW b \in Builders, BeginPublish(b)
  PROVE  Plans'
<1> DEFINE x == [build[b] EXCEPT !.pc = "publishing"]
<1>1. build \in [Builders -> BuildState]
  BY DEF IndexInv, Builds
<1>2. /\ build[b].pc = "ready" /\ delta = NoDelta /\ delta' = build[b].delta
      /\ build' = [build EXCEPT ![b] = x] /\ UNCHANGED <<db, staged>>
  BY <1>1 DEF BeginPublish, BeginDelta
<1>3. x.pc = "publishing" /\ x.delta = build[b].delta /\ x.crawl = build[b].crawl
      /\ x.config = build[b].config /\ x.rebuild = build[b].rebuild
      /\ x.incompatible = build[b].incompatible /\ x.known = build[b].known
  BY <1>1 DEF BuildState
<1> HIDE DEF x
<1>4. build'[b] = x /\ \A c \in Builders : c # b => build'[c] = build[c]
  BY <1>1, <1>2
<1>5. [IndexNext]_indexVars
  BY DEF IndexNext, BuildNext
<1>6. \A c \in Builders : Planned(build[c])'
  <2> SUFFICES ASSUME NEW c \in Builders PROVE Planned(build[c])'
    OBVIOUS
  <2>1. Planned(build[c])
    BY DEF Plans
  <2>2. CASE c = b
    BY <1>2, <1>3, <1>4, <1>5, <2>1, <2>2, PlannedSame DEF Planning
  <2>3. CASE c # b
    <3>1. build'[c] = build[c]
      BY <1>4, <2>3
    <3> QED BY <1>5, <2>1, <3>1, PlannedSame
  <2> QED BY <2>2, <2>3
<1>7. staged = db /\ \A c \in Builders : build[c].pc # "publishing"
  BY <1>2 DEF IndexInv, OneTransaction
<1>8. Done(b)' = {}
  BY <1>2, <1>3, <1>4 DEF Done
<1>9. \A c \in Builders : Staging(c)'
  BY <1>2, <1>4, <1>7, <1>8 DEF Staging, Untouched
<1> QED BY <1>2, <1>6, <1>9 DEF Plans, Declared

LEMMA AbortPublishPlans ==
  ASSUME IndexInv, Plans, NEW b \in Builders, AbortPublish(b)
  PROVE  Plans'
<1>1. /\ build[b].pc = "publishing" /\ db' = db /\ staged' = db
      /\ build' = [build EXCEPT ![b] = Idle]
  BY DEF AbortPublish, Rollback
<1>2. build \in [Builders -> BuildState]
  BY DEF IndexInv, Builds
<1>3. build'[b] = Idle /\ \A c \in Builders : c # b => build'[c] = build[c]
  BY <1>1, <1>2
<1>4. Idle.pc = "idle" /\ [IndexNext]_indexVars
  BY DEF Idle, IndexNext, BuildNext
<1>5. \A c \in Builders : Planned(build[c])'
  BY <1>3, <1>4, OthersPlanned DEF Planning
<1>6. \A c \in Builders : build'[c].pc # "publishing"
  BY <1>1, <1>3, <1>4, OneOpens
<1> QED BY <1>1, <1>5, <1>6 DEF Plans, Staging, Declared

LEMMA StageOnePlans ==
  ASSUME IndexInv, Views, Plans, NEW b \in Builders, StageOne(b)
  PROVE  Plans'
<1>1. build[b].pc = "publishing" /\ StageUpdate /\ UNCHANGED <<db, build, crawls>>
  BY DEF StageOne, StageUpdate
<1>2. delta # NoDelta /\ delta \in Delta /\ Opened(b)
      /\ \A c \in Builders : build[c].pc = "publishing" => c = b
  BY <1>1, OneOpens
<1>3. PICK up \in delta.updates :
        /\ staged' = ApplyOne(staged, up)
        /\ delta' = [delta EXCEPT !.updates = @ \ {up}]
  BY <1>1 DEF StageUpdate
<1>4. up \in Update /\ Sound(staged)
  BY <1>2, ConstantsAssumption DEF Delta, IndexInv, IInv
<1>5. delta'.updates = delta.updates \ {up} /\ up \in build[b].delta.updates
  BY <1>2, <1>3 DEF Delta, Opened
<1>6. Done(b)' = Done(b) \cup {up}
  BY <1>1, <1>2, <1>3, <1>5 DEF Done, Opened
<1>7. /\ Declared(up)
      /\ \A vp \in build[b].delta.updates : vp.url = up.url => Serving(vp) = Serving(up)
  <2>1. PICK notes \in [StaffUrls -> StaffHashes \cup {Absent}], failed \in SUBSET WebUrls :
          PlanOf(build[b], crawls[build[b].crawl], notes, failed)
    BY <1>1 DEF Plans, Planned, Planning
  <2>2. build[b].crawl \in 1..Len(crawls) /\ build[b].config \in Configs
    BY <1>1 DEF IndexInv, Builds, WellBuilt
  <2>3. crawls[build[b].crawl] \in CrawlReleases
    BY <2>2 DEF IndexInv, Builds
  <2> QED BY <1>5, <2>1, <2>2, <2>3, PlanUpdates
<1>8. /\ \A u : u # up.url => staged'.documents[u] = staged.documents[u]
      /\ \A r : r.url # up.url => (r \in staged'.versions <=> r \in staged.versions)
      /\ NewRow(staged, up).url = up.url
  BY <1>3, <1>4, ApplyOneElsewhere
<1>9. staged'.versions = Deactivated(staged, {up.url}) \cup {NewRow(staged, up)}
  BY <1>3, <1>4, ApplyOneFields DEF Sound
<1>10. /\ NewRow(staged, up).is_active /\ NewRow(staged, up).hash = up.hash
       /\ NewRow(staged, up).audience = up.audience
       /\ NewRow(staged, up).vectors = up.vectors
  BY DEF NewRow
<1>11. Staging(b) /\ up \notin Done(b)
  BY <1>3 DEF Plans, Done
<1>12. ASSUME NEW vp \in Done(b) \cup {up}
       PROVE  \E r \in LiveByFlag(staged') : r.url = vp.url /\ Serving(r) = Serving(vp)
  <2>1. CASE vp.url = up.url
    <3>1. NewRow(staged, up) \in LiveByFlag(staged')
      BY <1>9, <1>10 DEF LiveByFlag
    <3>2. Serving(NewRow(staged, up)) = Serving(up)
      BY <1>10 DEF Serving
    <3>3. Serving(vp) = Serving(up)
      BY <1>7, <1>12, <2>1 DEF Done
    <3> QED BY <1>8, <2>1, <3>1, <3>2, <3>3
  <2>2. CASE vp.url # up.url
    <3>1. vp \in Done(b) /\ vp.url # up.url
      BY <1>12, <2>2
    <3>2. PICK r \in LiveByFlag(staged) : r.url = vp.url /\ Serving(r) = Serving(vp)
      BY <1>1, <1>11, <3>1 DEF Staging
    <3>3. r \in LiveByFlag(staged')
      BY <1>8, <3>1, <3>2 DEF LiveByFlag
    <3> QED BY <3>2, <3>3
  <2> QED BY <2>1, <2>2
<1>13. ASSUME NEW u \in Urls, \A vp \in Done(b) \cup {up} : vp.url # u
       PROVE  Untouched(u)'
  <2>1. u # up.url /\ Untouched(u)
    BY <1>1, <1>11, <1>13 DEF Staging
  <2> QED BY <1>1, <1>8, <2>1 DEF Untouched
<1>14. \A c \in Builders : Staging(c)'
  <2> SUFFICES ASSUME NEW c \in Builders, build[c].pc = "publishing"
               PROVE  /\ \A vp \in Done(b)' : \E r \in LiveByFlag(staged') :
                            r.url = vp.url /\ Serving(r) = Serving(vp)
                      /\ \A u \in Urls : (\A vp \in Done(b)' : vp.url # u) => Untouched(u)'
    BY <1>1, <1>2 DEF Staging
  <2> QED BY <1>6, <1>12, <1>13
<1>15. \A c \in Builders : Planned(build[c])'
  <2>1. [IndexNext]_indexVars
    BY DEF IndexNext, BuildNext
  <2> SUFFICES ASSUME NEW c \in Builders PROVE Planned(build[c])'
    OBVIOUS
  <2>2. Planned(build[c]) /\ build'[c] = build[c]
    BY <1>1 DEF Plans
  <2> QED BY <2>1, <2>2, PlannedSame
<1>16. \A r \in staged'.versions : Declared(r)
  <2> SUFFICES ASSUME NEW r \in staged'.versions PROVE Declared(r)
    OBVIOUS
  <2>1. CASE r = NewRow(staged, up)
    BY <1>7, <1>10, <2>1 DEF Declared
  <2>2. CASE r # NewRow(staged, up)
    <3>1. PICK q \in staged.versions : r = Off(q, {up.url})
      BY <1>4, <1>9, <2>2, DeactivatedRows DEF Sound
    <3>2. q \in VersionRow /\ Declared(q)
      BY <1>4 DEF Sound, Tables, Plans
    <3>3. r.hash = q.hash /\ r.audience = q.audience
      BY <3>1, <3>2 DEF Off, VersionRow
    <3> QED BY <3>2, <3>3 DEF Declared
  <2> QED BY <2>1, <2>2
<1> QED BY <1>1, <1>14, <1>15, <1>16 DEF Plans, Declared

LEMMA CommitPublishPlans ==
  ASSUME IndexInv, Plans, NEW b \in Builders, CommitPublish(b)
  PROVE  Plans'
<1>1. /\ build[b].pc = "publishing" /\ db' = FinishDelta(staged, delta) /\ staged' = db'
      /\ build' = [build EXCEPT ![b].pc = "committed"]
  BY DEF CommitPublish, CommitDelta
<1>2. delta \in Delta /\ \A c \in Builders : build[c].pc = "publishing" => c = b
  BY <1>1, OneOpens
<1>3. build \in [Builders -> BuildState] /\ Sound(staged)
  BY DEF IndexInv, IInv, Builds
<1>4. build'[b].pc = "committed" /\ \A c \in Builders : c # b => build'[c] = build[c]
  BY <1>1, <1>3 DEF BuildState
<1>5. [IndexNext]_indexVars
  BY DEF IndexNext, BuildNext
<1>6. \A c \in Builders : Planned(build[c])'
  BY <1>4, <1>5, OthersPlanned DEF Planning
<1>7. \A c \in Builders : build'[c].pc # "publishing"
  BY <1>2, <1>4
<1>8. \A r \in db'.versions : Declared(r)
  <2> SUFFICES ASSUME NEW r \in db'.versions PROVE Declared(r)
    OBVIOUS
  <2> DEFINE out == Stored(staged, delta.removed)
  <2>1. db'.versions = Deactivated(staged, out)
    BY <1>1, <1>2, <1>3, FinishDeltaFields
  <2>2. staged \in Tables
    BY <1>3 DEF Sound
  <2> HIDE DEF out
  <2>3. PICK q \in staged.versions : r = Off(q, out)
    BY <2>1, <2>2, DeactivatedRows
  <2>4. q \in VersionRow /\ Declared(q)
    BY <1>3 DEF Sound, Tables, Plans
  <2>5. r.hash = q.hash /\ r.audience = q.audience
    BY <2>3, <2>4 DEF Off, VersionRow
  <2> QED BY <2>4, <2>5 DEF Declared
<1> QED BY <1>1, <1>6, <1>7, <1>8 DEF Plans, Staging, Declared

LEMMA PlansInit == IndexInit => Plans
<1> SUFFICES ASSUME IndexInit PROVE Plans
  OBVIOUS
<1>1. \A b \in Builders : build[b].pc = "idle"
  BY DEF IndexInit, Idle
<1>2. db.versions = {} /\ staged.versions = {}
  BY DEF IndexInit, Init
<1> QED BY <1>1, <1>2 DEF Plans, Planned, Staging, Planning

LEMMA PlansNext ==
  ASSUME IndexInv, Views, Plans, [IndexNext]_indexVars
  PROVE  Plans'
<1>1. CASE \E b \in Builders : BuildNext(b)
  <2>1. PICK b \in Builders : BuildNext(b)
    BY <1>1
  <2> QED BY <2>1, ReadingPlans, PreparePlans, BeginPublishPlans, StageOnePlans,
             CommitPublishPlans, AbortPublishPlans
          DEF BuildNext
<1>2. CASE ~\E b \in Builders : BuildNext(b)
  <2>1. UNCHANGED <<db, staged, delta, build>>
    BY <1>2 DEF IndexNext, PublishCrawl, EditStaff, Answer, ReadNext, BeginRead,
                Retrieve, EndRead, LogAnswer, LoseLog, indexVars, vars
  <2>2. \A b \in Builders : Planned(build[b])'
    <3> SUFFICES ASSUME NEW b \in Builders PROVE Planned(build[b])'
      OBVIOUS
    <3>1. Planned(build[b]) /\ build'[b] = build[b]
      BY <2>1 DEF Plans
    <3> QED BY <3>1, PlannedSame
  <2>3. \A b \in Builders : Staging(b)'
    BY <2>1 DEF Plans, Staging, Done, Untouched
  <2> QED BY <2>1, <2>2, <2>3 DEF Plans, Declared
<1> QED BY <1>1, <1>2

LEMMA PlansHold == IndexSpec => []Plans
BY ViewsHold, PlansInit, PlansNext, PTL DEF IndexSpec

-----------------------------------------------------------------------------
(* The refinement.                                                          *)
LEMMA LiveIs == Live = LiveOf(db)
BY DEF Live, LiveOf

LEMMA ChainInit == IndexInit => Chain!Init
<1> SUFFICES ASSUME IndexInit PROVE Chain!Init
  OBVIOUS
<1>1. db.versions = {} /\ db.snapshots = {}
  BY DEF IndexInit, Init
<1>2. Live = [u \in Urls |-> Absent]
  BY <1>1 DEF Live, LiveByPointer
<1>3. ActiveSnapshots(db) = {}
  BY <1>1 DEF ActiveSnapshots
<1>4. snapshot(db) = NoSnapshot
  BY <1>3 DEF snapshot
<1> QED BY <1>2, <1>3, <1>4 DEF Chain!Init, IndexInit

LEMMA ChainPublish ==
  ASSUME IndexInv, Views, Plans, NEW b \in Builders, CommitPublish(b)
  PROVE  Chain!Publish
<1> DEFINE x == build[b]
           crawl == crawls[x.crawl]
<1>1. /\ x.pc = "publishing" /\ db' = FinishDelta(staged, delta) /\ crawls' = crawls
      /\ basis' = [basis EXCEPT ![x.delta.id] = x.crawl]
  BY DEF CommitPublish, CommitDelta
<1>2. delta \in Delta /\ Opened(b) /\ Agreed(x)
  BY <1>1, OneOpens
<1>3. delta.run /\ delta.id \notin Ids(db) /\ delta.parent = snapshot(db)
      /\ delta.id \in SnapshotIds /\ x.delta.id = delta.id
  BY <1>2 DEF Opened, Agreed, Delta
<1>4. snapshot(db') = delta.id
  BY <1>1, <1>2, <1>3, FinishDeltaChains DEF IndexInv, IInv, OneTransaction
<1> DEFINE Released(s) == Tells(s, delta, db') /\ ActiveSnapshots(db') = {s}
<1>5. \E s : Released(s) /\ s.config = x.config
  <2>1. Sound(staged)
    BY DEF IndexInv, IInv
  <2>2. PICK s : Released(s)
    BY <1>1, <1>2, <2>1, FinishDeltaFields
  <2>3. s.config = delta.config
    BY <2>2 DEF Tells
  <2>4. delta.config = x.config
    BY <1>2 DEF Opened, Agreed
  <2> QED BY <2>2, <2>3, <2>4
<1>6. snapshot(db') # snapshot(db) /\ snapshot(db') \in SnapshotIds
  <2>1. snapshot(db) \in Ids(db) \cup {NoSnapshot}
    BY Served DEF IndexInv, IInv
  <2> QED BY <1>3, <1>4, <2>1, ConstantsAssumption
<1>7. x.crawl \in 1..Len(crawls) /\ x.config \in Configs /\ crawls \in Seq(CrawlReleases)
      /\ basis \in [SnapshotIds -> 0..MaxCrawls]
  BY <1>1 DEF IndexInv, Builds, WellBuilt
<1>8. crawl \in CrawlReleases /\ x.crawl \in DOMAIN crawls
  BY <1>7
<1>9. PICK notes \in [StaffUrls -> StaffHashes \cup {Absent}], failed \in SUBSET WebUrls :
        PlanOf(x, crawl, notes, failed)
  BY <1>1 DEF Plans, Planned, Planning
<1> HIDE DEF x, crawl
<1> DEFINE told == [u \in Noted(notes) |-> notes[u]]
<1>10. /\ told \in [Noted(notes) -> StaffHashes] /\ Noted(notes) \in SUBSET Urls
      /\ failed \in SUBSET Urls /\ DOMAIN told = Noted(notes)
      /\ \A u \in Noted(notes) : told[u] = notes[u]
  BY SourcesAssumption DEF Noted
<1> HIDE DEF told
<1>11. Chain!Fetched(crawl) = Fetched(crawl)
  BY <1>8 DEF Chain!Fetched, Fetched, CrawlReleases
<1>12. \A u \in Urls : LiveOf(db')[u] =
          IF u \in Noted(notes)
          THEN [hash |-> notes[u], audience |-> StaffAudience[notes[u]],
                vectors |-> x.config]
          ELSE IF u \in Fetched(crawl) \ failed
          THEN [hash |-> crawl.pages[u], audience |-> public, vectors |-> x.config]
          ELSE IF u \in failed \/ crawl.errors # {} THEN LiveOf(db)[u]
          ELSE Absent
  BY ZenonT(60), <1>8, <1>9, CommitMerges DEF x
<1>13. Live' = Chain!Merge(crawl, told, failed, x.config)
  <2>1. Live' = LiveOf(db') /\ Live = LiveOf(db)
    BY LiveIs DEF Live, LiveOf
  <2>2. LiveOf(db') = [u \in Urls |-> LiveOf(db')[u]]
    BY DEF LiveOf
  <2> QED BY <1>10, <1>11, <1>12, <2>1, <2>2 DEF Chain!Merge, Chain!Note, Chain!Page
<1>14. \A u \in Urls : Live'[u] # Absent => Live'[u].vectors = x.config
  <2> SUFFICES ASSUME NEW u \in Urls, LiveOf(db')[u] # Absent
               PROVE  LiveOf(db')[u].vectors = x.config
    BY LiveIs DEF Live, LiveOf
  <2>1. Sound(db')
    BY <1>1, <1>2, FinishDeltaSound DEF IndexInv, IInv
  <2>2. PICK r \in LiveByFlag(db') : r.url = u
    BY <2>1, LiveAt
  <2>3. LiveOf(db')[u] = Serving(r)
    BY <2>1, <2>2, LiveAt
  <2>4. PICK s : Released(s) /\ s.config = x.config
    BY <1>5
  <2>5. OneConfiguration'
    BY CommitOneConfiguration
  <2>6. r.vectors = s.config
    BY <2>2, <2>4, <2>5 DEF OneConfiguration
  <2> QED BY <2>3, <2>4, <2>6 DEF Serving
<1>15. (IF ActiveSnapshots(db') = {} THEN 0 ELSE basis'[snapshot(db')]) = x.crawl
  <2>1. ActiveSnapshots(db') # {}
    BY <1>5
  <2> QED BY <1>1, <1>3, <1>4, <1>7, <2>1 DEF x
<1>16. Chain!PublishFrom(x.crawl, x.config, told, failed)
  <2>1. DOMAIN told \cap Chain!Fetched(crawl) = {}
    BY <1>9, <1>10, <1>11 DEF PlanOf
  <2>2. failed \subseteq Chain!Fetched(crawl) \cup crawl.errors /\ crawl.errors \subseteq failed
    BY <1>9, <1>11 DEF PlanOf
  <2> QED BY <1>13, <1>14, <1>15, <2>1, <2>2 DEF Chain!PublishFrom, crawl
<1> QED BY <1>1, <1>6, <1>7, <1>8, <1>10, <1>16 DEF Chain!Publish

LEMMA ChainNext ==
  ASSUME IndexInv, Views, Plans, [IndexNext]_indexVars
  PROVE  [Chain!Next]_(Chain!vars)
<1>1. CASE \E b \in Builders : CommitPublish(b)
  BY <1>1, ChainPublish DEF Chain!Next
<1>2. CASE ~\E b \in Builders : CommitPublish(b)
  <2>1. db' = db /\ basis' = basis
    BY <1>2 DEF IndexNext, BuildNext, LoadRelease, ReadParent, ReadKnown, Prepare,
                BeginPublish, BeginDelta, StageOne, StageUpdate, ReadReport, Return,
                Raise, AbortPublish, Rollback, PublishCrawl, EditStaff, Answer,
                ReadNext, BeginRead, Retrieve, EndRead, LogAnswer, LoseLog, indexVars, vars
  <2>2. /\ Live' = Live /\ snapshot(db)' = snapshot(db)
        /\ (IF ActiveSnapshots(db) = {} THEN 0 ELSE basis[snapshot(db)])'
             = (IF ActiveSnapshots(db) = {} THEN 0 ELSE basis[snapshot(db)])
    BY <2>1 DEF Live, LiveByPointer, snapshot, ActiveSnapshots
  <2>3. CASE PublishCrawl
    <3>1. \E c \in CrawlReleases : crawls' = Append(crawls, c)
      BY <2>3 DEF PublishCrawl
    <3> QED BY <2>2, <3>1 DEF Chain!Next, Chain!Offer
  <2>4. CASE ~PublishCrawl
    <3>1. crawls' = crawls
      BY <1>2, <2>4
         DEF IndexNext, BuildNext, LoadRelease, ReadParent, ReadKnown, Prepare,
             BeginPublish, StageOne, ReadReport, Return, Raise, AbortPublish,
             EditStaff, Answer, indexVars
    <3> QED BY <2>2, <3>1 DEF Chain!vars
  <2> QED BY <2>3, <2>4
<1> QED BY <1>1, <1>2

(* Sources, parent, hashes and tables are read and written minutes apart by *)
(* any number of indexers; still every publication is one merge of one      *)
(* crawl and the authored sources onto exactly the release it replaces.     *)
THEOREM ImplementsReleaseChain == IndexSpec => MergesInOrder
<1> QED BY PlansHold, ViewsHold, ChainInit, ChainNext, PTL
       DEF IndexSpec, MergesInOrder, Chain!Spec

-----------------------------------------------------------------------------
(* Without --rebuild no version repeats the one it supersedes, unless two   *)
(* entries of one log asked for both.                                       *)
Twice == {e \in [url : Urls, hash : Hashes] : ListedTwice(e.url, e.hash)}

Unserved(t, q) == \A s \in t.snapshots : AsMember(q) \notin s.members

(* A version superseded by its like: asked for twice, off, never served.    *)
Spare(t, q, twice) ==
    /\ [url |-> q.url, hash |-> q.hash] \in twice
    /\ ~q.is_active /\ Unserved(t, q)

NoDup(t, twice) ==
    \A r, q \in t.versions :
        r.url = q.url /\ r.supersedes = q.number =>
            r.hash # q.hash \/ r.vectors # q.vectors \/ Spare(t, q, twice)

(* What the open transaction has put in the place of a row is in no release.*)
Added(b) ==
    build[b].pc = "publishing" =>
        \A r \in LiveByFlag(staged) :
            (\E vp \in Done(b) : vp.url = r.url) => Unserved(staged, r)

NoDups ==
    /\ NoDup(db, Twice) /\ NoDup(staged, Twice)
    /\ \A b \in Builders : Added(b)

LEMMA TwiceGrows ==
  ASSUME IndexInv, [IndexNext]_indexVars
  PROVE  Twice \subseteq Twice'
<1>1. \A c \in 1..Len(crawls) : crawls'[c] = crawls[c]
  BY CrawlsKept
<1>2. Len(crawls) \in Nat /\ Len(crawls') \in Nat /\ Len(crawls) <= Len(crawls')
  <2>1. crawls \in Seq(CrawlReleases)
    BY DEF IndexInv, Builds
  <2>2. CASE PublishCrawl
    BY <2>1, <2>2 DEF PublishCrawl
  <2>3. CASE ~PublishCrawl
    <3>1. crawls' = crawls
      BY <2>3 DEF IndexNext, BuildNext, LoadRelease, ReadParent, ReadKnown, Prepare,
                  BeginPublish, StageOne, CommitPublish, ReadReport, Return, Raise,
                  AbortPublish, EditStaff, Answer, indexVars
    <3> QED BY <2>1, <3>1
  <2> QED BY <2>2, <2>3
<1>3. \A c \in 1..Len(crawls) : c \in 1..Len(crawls')
  BY <1>2
<1> QED BY <1>1, <1>3 DEF Twice, ListedTwice

LEMMA NoDupGrows ==
  ASSUME NEW t, NEW a, NEW b, NoDup(t, a), a \subseteq b
  PROVE  NoDup(t, b)
BY DEF NoDup, Spare

(* The statements that end a transaction: rows are only switched off, and   *)
(* the new release has live rows only.                                      *)
LEMMA OffNoDup ==
  ASSUME NEW t, Sound(t), NEW twice, NoDup(t, twice), NEW d \in Delta
  PROVE  NoDup(FinishDelta(t, d), twice)
<1> DEFINE n == FinishDelta(t, d)
           us == Stored(t, d.removed)
<1>1. /\ n.versions = Deactivated(t, us)
      /\ \E s : /\ Tells(s, d, n)
                /\ n.snapshots = {Retired(x) : x \in {y \in t.snapshots : y.id # d.id}} \cup {s}
  <2>1. n.versions = Deactivated(t, us)
    BY FinishDeltaFields
  <2>2. PICK s : /\ Tells(s, d, n)
                 /\ ActiveSnapshots(n) = {s}
                 /\ n.snapshots =
                       {Retired(r) : r \in {x \in t.snapshots : x.id # d.id}} \cup {s}
    BY FinishDeltaFields
  <2> QED BY <2>1, <2>2
<1>2. Sound(n)
  BY FinishDeltaSound
<1> HIDE DEF n, us
<1>3. t \in Tables /\ t.versions \subseteq VersionRow /\ t.snapshots \subseteq SnapshotRow
  BY DEF Sound, Tables
<1>4. \A r \in n.versions : \E a \in t.versions :
        /\ r.url = a.url /\ r.supersedes = a.supersedes /\ r.hash = a.hash
        /\ r.vectors = a.vectors /\ r.number = a.number /\ AsMember(r) = AsMember(a)
        /\ ~a.is_active => ~r.is_active
  <2> SUFFICES ASSUME NEW r \in n.versions
               PROVE  \E a \in t.versions :
                        /\ r.url = a.url /\ r.supersedes = a.supersedes /\ r.hash = a.hash
                        /\ r.vectors = a.vectors /\ r.number = a.number
                        /\ AsMember(r) = AsMember(a)
                        /\ ~a.is_active => ~r.is_active
    OBVIOUS
  <2>1. PICK a \in t.versions : r = Off(a, us)
    BY <1>1, <1>3, DeactivatedRows
  <2>2. a \in VersionRow
    BY <1>3
  <2> QED BY <2>1, <2>2 DEF Off, VersionRow, AsMember
<1>5. ASSUME NEW q \in n.versions, ~q.is_active, Unserved(t, q)
      PROVE  Unserved(n, q)
  <2> SUFFICES ASSUME NEW s \in n.snapshots, AsMember(q) \in s.members PROVE FALSE
    BY DEF Unserved
  <2>1. PICK z : /\ Tells(z, d, n)
                 /\ n.snapshots = {Retired(x) : x \in {y \in t.snapshots : y.id # d.id}} \cup {z}
    BY <1>1
  <2>2. CASE s = z
    <3>1. PICK v \in LiveByFlag(n) : AsMember(v) = AsMember(q)
      BY <2>1, <2>2 DEF Tells
    <3>2. v \in n.versions /\ v.is_active
      BY DEF LiveByFlag
    <3>3. v.url = q.url /\ v.number = q.number
      BY <3>1 DEF AsMember
    <3> QED BY <1>2, <1>5, <3>2, <3>3 DEF Sound, ConstraintsHold
  <2>3. CASE s # z
    <3>1. PICK x \in t.snapshots : s = Retired(x)
      BY <2>1, <2>3
    <3>2. s.members = x.members
      BY <1>3, <3>1, SnapshotRetired
    <3> QED BY <1>5, <3>2 DEF Unserved
  <2> QED BY <2>2, <2>3
<1> SUFFICES ASSUME NEW r \in n.versions, NEW q \in n.versions,
                    r.url = q.url, r.supersedes = q.number,
                    r.hash = q.hash, r.vectors = q.vectors
             PROVE  Spare(n, q, twice)
  BY DEF NoDup, n
<1>6. PICK a \in t.versions : /\ r.url = a.url /\ r.supersedes = a.supersedes
                              /\ r.hash = a.hash /\ r.vectors = a.vectors
  BY <1>4
<1>7. PICK b \in t.versions : /\ q.url = b.url /\ q.number = b.number
                              /\ q.hash = b.hash /\ q.vectors = b.vectors
                              /\ AsMember(q) = AsMember(b) /\ (~b.is_active => ~q.is_active)
  BY <1>4
<1>8. Spare(t, b, twice)
  BY <1>6, <1>7 DEF NoDup
<1>9. ~q.is_active /\ Unserved(t, q) /\ [url |-> q.url, hash |-> q.hash] \in twice
  BY <1>7, <1>8 DEF Spare, Unserved
<1> QED BY <1>5, <1>9 DEF Spare

LEMMA ApplyOneNoDup ==
  ASSUME NEW t, Sound(t), NEW twice, NoDup(t, twice), NEW up \in Update,
         \A r \in LiveByFlag(t) : r.url = up.url =>
            \/ r.hash # up.hash \/ r.vectors # up.vectors
            \/ [url |-> r.url, hash |-> r.hash] \in twice /\ Unserved(t, r)
  PROVE  NoDup(ApplyOne(t, up), twice)
<1> DEFINE n == NewRow(t, up)
           us == {up.url}
<1>1. t \in Tables /\ IsFiniteSet(t.versions) /\ t.versions \subseteq VersionRow
  BY DEF Sound, Tables
<1>2. ApplyOne(t, up).versions = Deactivated(t, us) \cup {n} /\ n \in VersionRow
  BY <1>1, ApplyOneFields
<1>3. Deactivated(t, us) = {Off(r, us) : r \in t.versions}
  BY <1>1, DeactivatedRows
<1>4. \A r \in t.versions : LET q == Off(r, us) IN
        /\ q.url = r.url /\ q.number = r.number /\ q.hash = r.hash
        /\ q.vectors = r.vectors /\ q.supersedes = r.supersedes
        /\ AsMember(q) = AsMember(r)
        /\ q.is_active <=> r.is_active /\ r.url \notin us
  BY <1>1, OffFields DEF Off, VersionRow, AsMember
<1>5. up.url \in Urls
  BY DEF Update
<1>6. /\ n.url = up.url /\ n.number = NextNumber(t, up.url) /\ n.hash = up.hash
      /\ n.vectors = up.vectors
      /\ n.supersedes = IF t.documents[up.url] = NoDocument THEN NoVersion
                        ELSE t.documents[up.url].active_version_id
  BY DEF NewRow
<1>7. /\ n.number \in Nat \ {0}
      /\ \A r \in t.versions : r.url = up.url => r.number < n.number
  BY <1>1, <1>5, <1>6, NextNumberFresh
<1> HIDE DEF n, us
<1>8. \A r \in t.versions : r.number \in Nat \ {0}
  BY <1>1 DEF VersionRow
<1>9. ~(n.supersedes = n.number)
  <2>1. CASE n.supersedes = NoVersion
    BY <1>7, <2>1 DEF NoVersion
  <2>2. CASE n.supersedes # NoVersion
    <3>1. /\ t.documents[up.url] # NoDocument
          /\ t.documents[up.url].active_version_id = n.supersedes
      BY <1>6, <2>2
    <3>2. \E r \in t.versions : r.url = up.url /\ r.number = n.supersedes
      BY <1>5, <2>2, <3>1 DEF Sound, PointersHold
    <3> QED BY <1>7, <1>8, <3>2
  <2> QED BY <2>1, <2>2
<1>10. \A q \in t.versions : q.url = up.url /\ n.supersedes = q.number =>
         \/ n.hash # q.hash \/ n.vectors # q.vectors
         \/ [url |-> q.url, hash |-> q.hash] \in twice /\ Unserved(t, q)
  <2> SUFFICES ASSUME NEW q \in t.versions, q.url = up.url, n.supersedes = q.number
               PROVE  \/ n.hash # q.hash \/ n.vectors # q.vectors
                      \/ [url |-> q.url, hash |-> q.hash] \in twice /\ Unserved(t, q)
    OBVIOUS
  <2>1. n.supersedes # NoVersion
    BY <1>8 DEF NoVersion
  <2>2. /\ t.documents[up.url] # NoDocument
        /\ t.documents[up.url].active_version_id = q.number
    BY <1>6, <2>1
  <2>3. q \in LiveByPointer(t)
    BY <2>2 DEF LiveByPointer
  <2>4. q \in LiveByFlag(t)
    BY <2>3 DEF Sound, LiveAgrees
  <2> QED BY <1>6, <2>4
<1>11. \A r \in t.versions : r.url = up.url => r.supersedes # n.number
  <2> SUFFICES ASSUME NEW r \in t.versions, r.url = up.url, r.supersedes = n.number
               PROVE  FALSE
    OBVIOUS
  <2>1. r.supersedes # NoVersion
    BY <1>7 DEF NoVersion
  <2>2. PICK q \in RowsOf(t, r.url) : q.number = r.supersedes
    BY <2>1 DEF Sound, SupersedesEarlier
  <2>3. q \in t.versions /\ q.url = up.url /\ q.number = n.number
    BY <2>2 DEF RowsOf
  <2> QED BY <1>7, <1>8, <2>3
<1> DEFINE after == ApplyOne(t, up)
<1>12. after.versions = Deactivated(t, us) \cup {n} /\ after.snapshots = t.snapshots
  BY <1>2, ApplyOneKeeps
<1> SUFFICES ASSUME NEW r \in after.versions, NEW q \in after.versions,
                    r.url = q.url, r.supersedes = q.number,
                    r.hash = q.hash, r.vectors = q.vectors
             PROVE  Spare(after, q, twice)
  BY DEF NoDup
<1> HIDE DEF after
<1>13. up.url \in us
  BY DEF us
<1>14. \A b \in t.versions : Unserved(t, b) => Unserved(after, Off(b, us))
  BY <1>4, <1>12 DEF Unserved
<1>15. CASE r = n /\ q = n
  BY <1>9, <1>15
<1>16. CASE r = n /\ q # n
  <2>1. PICK b \in t.versions : q = Off(b, us)
    BY <1>3, <1>12, <1>16
  <2>2. b.url = up.url /\ n.supersedes = b.number /\ n.hash = b.hash /\ n.vectors = b.vectors
    BY <1>4, <1>6, <1>16, <2>1
  <2>3. [url |-> b.url, hash |-> b.hash] \in twice /\ Unserved(t, b)
    BY <1>10, <2>2
  <2>4. q.url = b.url /\ q.hash = b.hash /\ ~q.is_active
    BY <1>4, <1>13, <2>1, <2>2
  <2> QED BY <1>14, <2>1, <2>3, <2>4 DEF Spare
<1>17. CASE r # n /\ q = n
  <2>1. PICK a \in t.versions : r = Off(a, us)
    BY <1>3, <1>12, <1>17
  <2> QED BY <1>4, <1>6, <1>11, <1>17, <2>1
<1>18. CASE r # n /\ q # n
  <2>1. PICK a \in t.versions : r = Off(a, us)
    BY <1>3, <1>12, <1>18
  <2>2. PICK b \in t.versions : q = Off(b, us)
    BY <1>3, <1>12, <1>18
  <2>3. /\ a.url = b.url /\ a.supersedes = b.number /\ a.hash = b.hash
        /\ a.vectors = b.vectors
    BY <1>4, <2>1, <2>2
  <2>4. Spare(t, b, twice)
    BY <2>3 DEF NoDup
  <2>5. q.url = b.url /\ q.hash = b.hash /\ ~q.is_active
    BY <1>4, <2>2, <2>4 DEF Spare
  <2> QED BY <1>14, <2>2, <2>4, <2>5 DEF Spare
<1> QED BY <1>15, <1>16, <1>17, <1>18

(* A row that is new to its tables is in no release they explain.           *)
LEMMA NewUnserved ==
  ASSUME IndexInv, NEW up \in Update
  PROVE  Unserved(staged, NewRow(staged, up))
<1> DEFINE n == NewRow(staged, up)
<1> SUFFICES ASSUME NEW s \in staged.snapshots, AsMember(n) \in s.members PROVE FALSE
  BY DEF Unserved
<1>1. /\ Sound(staged) /\ Sound(db) /\ Explained(db)
      /\ staged.snapshots = db.snapshots /\ Keeps(db, staged)
  BY DEF IndexInv, IInv, OneTransaction
<1>2. PICK r \in db.versions : AsMember(r) = AsMember(n)
  BY <1>1 DEF Explained
<1>3. r \in VersionRow
  BY <1>1 DEF Sound, Tables
<1>4. PICK q \in staged.versions : Later(r, q)
  BY <1>1 DEF Keeps
<1>5. q.url = n.url /\ q.number = n.number
  BY <1>2, <1>3, <1>4, LaterFields DEF AsMember
<1>6. n.url = up.url /\ n.number = NextNumber(staged, up.url)
  BY DEF NewRow
<1>7. up.url \in Urls
  BY DEF Update
<1>8. /\ q.number < NextNumber(staged, up.url) /\ NextNumber(staged, up.url) \in Nat
  BY <1>1, <1>4, <1>5, <1>6, <1>7, NextNumberFresh DEF Sound
<1> QED BY <1>5, <1>6, <1>8

LEMMA StageOneNoDups ==
  ASSUME RebuildFlags \subseteq {FALSE}, IndexInv, Views, Plans, NoDups,
         NEW b \in Builders, StageOne(b)
  PROVE  NoDups'
<1>1. build[b].pc = "publishing" /\ StageUpdate /\ UNCHANGED <<db, build, crawls>>
  BY DEF StageOne, StageUpdate
<1>2. delta \in Delta /\ Opened(b) /\ Agreed(build[b])
      /\ \A c \in Builders : build[c].pc = "publishing" => c = b
  BY <1>1, OneOpens
<1>3. PICK up \in delta.updates :
        /\ staged' = ApplyOne(staged, up)
        /\ delta' = [delta EXCEPT !.updates = @ \ {up}]
  BY <1>1 DEF StageUpdate
<1>4. up \in Update /\ up \in build[b].delta.updates
  BY <1>2, <1>3, ConstantsAssumption DEF Delta, Opened
<1>5. /\ Sound(staged) /\ Sound(db) /\ OneConfiguration
      /\ Worked(build[b]) /\ Staging(b) /\ Viewed(build[b])
  BY DEF Views, Plans, IndexInv, IInv
<1>6. up.vectors = build[b].config
      /\ (build[b].incompatible \/ up.hash # build[b].known[up.url])
  <2>1. ~build[b].rebuild
    BY DEF Views
  <2> QED BY <1>1, <1>4, <1>5, <2>1 DEF Worked, Planning
<1>7. build[b].parent = snapshot(db)
  BY <1>2 DEF Opened, Agreed
<1>8. Done(b)' = Done(b) \cup {up} /\ up \notin Done(b)
  BY <1>1, <1>2, <1>3, <1>4 DEF Done, Delta
<1>9. ASSUME NEW vp \in Done(b), vp.url = up.url
      PROVE  [url |-> up.url, hash |-> up.hash] \in Twice
  <2>1. PICK notes \in [StaffUrls -> StaffHashes \cup {Absent}], failed \in SUBSET WebUrls :
          PlanOf(build[b], crawls[build[b].crawl], notes, failed)
    BY <1>1 DEF Plans, Planned, Planning
  <2> DEFINE crawl == crawls[build[b].crawl]
  <2>2. build[b].crawl \in 1..Len(crawls) /\ build[b].config \in Configs
    BY <1>1 DEF IndexInv, Builds, WellBuilt
  <2>3. crawl \in CrawlReleases
    BY <2>2 DEF IndexInv, Builds
  <2>4. vp \in build[b].delta.updates /\ vp # up
    BY <1>8, <1>9 DEF Done
  <2> HIDE DEF crawl
  <2>5. /\ Serving(up) = Serving(vp)
        /\ Asks(build[b], crawl, up) /\ Asks(build[b], crawl, vp)
    BY <1>4, <1>9, <2>1, <2>2, <2>3, <2>4, PlanUpdates DEF crawl
  <2>6. up.hash = vp.hash
    BY <2>5 DEF Serving
  <2>7. /\ up.entry \in DOMAIN crawl.fetched /\ vp.entry \in DOMAIN crawl.fetched
        /\ crawl.fetched[up.entry] = [url |-> up.url, hash |-> up.hash]
        /\ crawl.fetched[vp.entry] = [url |-> vp.url, hash |-> vp.hash]
        /\ up = PageUpdate(build[b], up.url, up.hash, up.entry)
        /\ vp = PageUpdate(build[b], vp.url, vp.hash, vp.entry)
    BY <2>5, AskedFields
  <2>8. up.entry # vp.entry
    BY <1>9, <2>4, <2>6, <2>7
  <2>9. ListedTwice(up.url, up.hash)
    BY <1>9, <2>2, <2>6, <2>7, <2>8 DEF ListedTwice, crawl
  <2> QED BY <1>4, <2>9 DEF Twice, Update
<1>10. \A r \in LiveByFlag(staged) : r.url = up.url =>
         \/ r.hash # up.hash \/ r.vectors # up.vectors
         \/ [url |-> r.url, hash |-> r.hash] \in Twice /\ Unserved(staged, r)
  <2> SUFFICES ASSUME NEW r \in LiveByFlag(staged), r.url = up.url, r.hash = up.hash,
                      r.vectors = up.vectors
               PROVE  [url |-> r.url, hash |-> r.hash] \in Twice /\ Unserved(staged, r)
    OBVIOUS
  <2>1. CASE \E vp \in Done(b) : vp.url = up.url
    BY <1>1, <1>9, <2>1 DEF NoDups, Added
  <2>2. CASE \A vp \in Done(b) : vp.url # up.url
    <3>1. r \in LiveByFlag(db)
      <4>1. Untouched(up.url)
        BY <1>1, <1>4, <1>5, <2>2 DEF Staging, Update
      <4> QED BY <4>1 DEF LiveByFlag, Untouched
    <3>2. CASE up.hash # build[b].known[up.url]
      <4>1. build[b].known = active_content_hashes(db)
        BY <1>1, <1>5, <1>7 DEF Viewed
      <4>2. active_content_hashes(db)[r.url] = r.hash
        BY <1>5, <3>1, KnownHash
      <4> QED BY <3>2, <4>1, <4>2
    <3>3. CASE build[b].incompatible
      <4>1. \E s \in ActiveSnapshots(db) : s.config # build[b].config
        BY <1>1, <1>5, <1>7, <3>3 DEF Viewed
      <4>2. \A s \in ActiveSnapshots(db) : r.vectors = s.config
        BY <1>5, <3>1 DEF OneConfiguration
      <4> QED BY <1>6, <4>1, <4>2
    <3> QED BY <1>6, <3>2, <3>3
  <2> QED BY <2>1, <2>2
<1>11. NoDup(staged', Twice)
  BY <1>3, <1>4, <1>5, <1>10, ApplyOneNoDup DEF NoDups
<1>12. Twice' = Twice
  BY <1>1 DEF Twice, ListedTwice
<1>13. \A c \in Builders : Added(c)'
  <2> SUFFICES ASSUME NEW r \in LiveByFlag(staged'), NEW vp \in Done(b) \cup {up},
                      vp.url = r.url
               PROVE  Unserved(staged', r)
    BY <1>1, <1>2, <1>8 DEF Added
  <2>1. staged'.snapshots = staged.snapshots
    BY <1>3, <1>4, <1>5, ApplyOneKeeps
  <2>2. r = NewRow(staged, up) \/ (r.url # up.url /\ r \in LiveByFlag(staged))
    BY <1>3, <1>4, <1>5, ApplyOneElsewhere
  <2>3. CASE r = NewRow(staged, up)
    BY <1>4, <2>1, <2>3, NewUnserved DEF Unserved
  <2>4. CASE r.url # up.url /\ r \in LiveByFlag(staged)
    <3>1. vp \in Done(b)
      BY <2>4
    <3>2. Unserved(staged, r)
      BY <1>1, <2>4, <3>1 DEF NoDups, Added
    <3> QED BY <2>1, <3>2 DEF Unserved
  <2> QED BY <2>2, <2>3, <2>4
<1>14. NoDup(db', Twice)
  BY <1>1 DEF NoDups
<1> QED BY <1>11, <1>12, <1>13, <1>14 DEF NoDups

LEMMA IndexNextNoDups ==
  ASSUME RebuildFlags \subseteq {FALSE}, IndexInv, Views, Plans, NoDups,
         [IndexNext]_indexVars
  PROVE  NoDups'
<1>1. Twice \subseteq Twice'
  BY TwiceGrows
<1>2. CASE \E b \in Builders : StageOne(b)
  BY <1>2, StageOneNoDups
<1>3. CASE \E b \in Builders : CommitPublish(b)
  <2>1. PICK b \in Builders : CommitPublish(b)
    BY <1>3
  <2>2. /\ build[b].pc = "publishing" /\ db' = FinishDelta(staged, delta) /\ staged' = db'
        /\ build' = [build EXCEPT ![b].pc = "committed"]
    BY <2>1 DEF CommitPublish, CommitDelta
  <2>3. /\ delta \in Delta /\ Sound(staged)
        /\ \A c \in Builders : build[c].pc = "publishing" => c = b
    BY <2>2, OneOpens DEF IndexInv, IInv
  <2>4. NoDup(db', Twice')
    BY <1>1, <2>2, <2>3, OffNoDup, NoDupGrows DEF NoDups
  <2>5. \A c \in Builders : build'[c].pc # "publishing"
    BY <2>2, <2>3 DEF IndexInv, Builds, BuildState
  <2> QED BY <2>2, <2>4, <2>5 DEF NoDups, Added
<1>4. CASE \E b \in Builders : AbortPublish(b)
  <2>1. PICK b \in Builders : AbortPublish(b)
    BY <1>4
  <2>2. /\ build[b].pc = "publishing" /\ db' = db /\ staged' = db
        /\ build' = [build EXCEPT ![b] = Idle] /\ Idle.pc = "idle"
    BY <2>1 DEF AbortPublish, Rollback, Idle
  <2>3. \A c \in Builders : build'[c].pc # "publishing"
    BY <2>2, OneOpens DEF IndexInv, Builds
  <2> QED BY <1>1, <2>2, <2>3, NoDupGrows DEF NoDups, Added
<1>5. CASE \E b \in Builders : BeginPublish(b)
  <2>1. PICK b \in Builders : BeginPublish(b)
    BY <1>5
  <2>2. /\ UNCHANGED <<db, staged>> /\ delta' = build[b].delta /\ delta = NoDelta
        /\ build' = [build EXCEPT ![b].pc = "publishing"]
    BY <2>1 DEF BeginPublish, BeginDelta
  <2>3. \A c \in Builders : c # b => build'[c].pc # "publishing"
    BY <2>2 DEF IndexInv, Builds, OneTransaction
  <2>4. build'[b].delta = build[b].delta
    BY <2>2 DEF IndexInv, Builds, BuildState
  <2>5. Done(b)' = {}
    BY <2>2, <2>4 DEF Done
  <2>6. \A c \in Builders : Added(c)'
    BY <2>3, <2>5 DEF Added
  <2> QED BY <1>1, <2>2, <2>6, NoDupGrows DEF NoDups
<1>6. CASE ~\E b \in Builders : \/ StageOne(b) \/ CommitPublish(b)
                                \/ AbortPublish(b) \/ BeginPublish(b)
  <2>1. UNCHANGED <<db, staged, delta>>
    BY <1>6 DEF IndexNext, BuildNext, LoadRelease, ReadParent, ReadKnown, Prepare,
                ReadReport, Return, Raise, PublishCrawl, EditStaff, Answer, ReadNext,
                BeginRead, Retrieve, EndRead, LogAnswer, LoseLog, indexVars, vars
  <2>2. \A c \in Builders : build'[c].pc = "publishing" => build'[c] = build[c]
    <3> SUFFICES ASSUME NEW c \in Builders, build'[c].pc = "publishing"
                 PROVE  build'[c] = build[c]
      OBVIOUS
    <3>1. build \in [Builders -> BuildState]
      BY DEF IndexInv, Builds
    <3>2. CASE UNCHANGED build
      BY <3>2
    <3>3. CASE \E b \in Builders : \/ LoadRelease(b) \/ ReadParent(b) \/ ReadKnown(b)
                                   \/ ReadReport(b) \/ Return(b) \/ Raise(b)
      BY <3>3, ReadingSteps DEF Planning
    <3>4. CASE \E b \in Builders : Prepare(b)
      <4>1. PICK b \in Builders : Prepare(b)
        BY <3>4
      <4>2. /\ build'[b].pc = "ready"
            /\ \A e \in Builders : e # b => build'[e] = build[e]
        <5>1. PICK unusable, id :
                build' = [build EXCEPT ![b] =
                   Readied(b, unusable \cup crawls[build[b].crawl].errors, id)]
          BY <4>1, PrepareChoice
        <5> DEFINE x == Readied(b, unusable \cup crawls[build[b].crawl].errors, id)
        <5>2. x.pc = "ready"
          BY <3>1 DEF Readied, BuildState
        <5> HIDE DEF x
        <5> QED BY <3>1, <5>1, <5>2 DEF x
      <4> QED BY <4>2
    <3> QED BY <1>6, <3>2, <3>3, <3>4 DEF IndexNext, BuildNext, PublishCrawl, EditStaff,
                                    Answer, indexVars
  <2>3. \A c \in Builders : Added(c)'
    BY <2>1, <2>2 DEF NoDups, Added, Done
  <2> QED BY <1>1, <2>1, <2>3, NoDupGrows DEF NoDups
<1> QED BY <1>2, <1>3, <1>4, <1>5, <1>6

(* Unchanged content makes no new version: without --rebuild, a version     *)
(* always differs from the one it supersedes, whatever was published        *)
(* between the read of the hashes and the commit; only the entries of a     *)
(* page that one log lists twice repeat one another, in one delta, and what *)
(* is repeated was part of no release and never will be.                    *)
THEOREM NothingRepeats ==
  ASSUME RebuildFlags \subseteq {FALSE}
  PROVE  IndexSpec => []NoDuplicateVersions
<1>1. IndexInit => NoDups
  <2> SUFFICES ASSUME IndexInit PROVE NoDups
    OBVIOUS
  <2>1. db.versions = {} /\ staged.versions = {} /\ \A b \in Builders : build[b].pc = "idle"
    BY DEF IndexInit, Init, Idle
  <2> QED BY <2>1 DEF NoDups, NoDup, Added
<1>2. IndexInv /\ Views /\ Plans /\ NoDups /\ [IndexNext]_indexVars => NoDups'
  BY IndexNextNoDups
<1>3. NoDups => NoDuplicateVersions
  BY DEF NoDups, NoDup, Spare, Unserved, Twice, NoDuplicateVersions
<1> QED BY <1>1, <1>2, <1>3, ViewsHold, PlansHold, PTL DEF IndexSpec

=============================================================================
