------------------------ MODULE KnowledgeStoreProofs ------------------------
(***************************************************************************)
(* The tables of the knowledge store keep their type and agree with each   *)
(* other, for any URLs, releases, updates and bootstraps.                  *)
(***************************************************************************)
EXTENDS KnowledgeStore, FiniteSetTheorems, WellFoundedInduction, TLAPS

(* A finite set of naturals has a greatest element: among the sets of what  *)
(* is above each element one is minimal.                                    *)
LEMMA MaxExists ==
  ASSUME NEW S \in SUBSET Nat, S # {}, IsFiniteSet(S)
  PROVE  Max(S) \in S /\ \A y \in S : y <= Max(S)
<1> DEFINE Above(x) == {y \in S : y > x}
<1> DEFINE T == {Above(x) : x \in S}
<1>1. T \subseteq FiniteSubsetsOf(S)
  <2>1. \A x \in S : Above(x) \subseteq S
    OBVIOUS
  <2>2. \A x \in S : IsFiniteSet(Above(x))
    BY <2>1, FS_Subset
  <2> QED BY <2>1, <2>2 DEF FiniteSubsetsOf
<1>2. T # {}
  OBVIOUS
<1>3. PICK A \in T : \A B \in T : ~ (<<B, A>> \in StrictSubsetOrdering(S))
  BY <1>1, <1>2, FS_StrictSubsetOrderingWellFounded, WFMin
<1>4. PICK x \in S : A = Above(x)
  OBVIOUS
<1>5. \A y \in S : x >= y
  <2> SUFFICES ASSUME NEW y \in S, y > x PROVE FALSE
    OBVIOUS
  <2>0. \A z \in S : z \in Int
    OBVIOUS
  <2>1. Above(y) \subseteq Above(x) /\ y \in Above(x) /\ y \notin Above(y)
    <3>1. y \in Int /\ x \in Int /\ ~(y > y)
      BY <2>0
    <3>2. \A z \in S : z > y => z > x
      BY <2>0, <3>1
    <3> QED BY <3>1, <3>2
  <2>2. <<Above(y), Above(x)>> \in StrictSubsetOrdering(S)
    BY <2>1 DEF StrictSubsetOrdering
  <2> QED BY <1>3, <1>4, <2>2
<1> QED BY <1>5 DEF Max

(* The image of a finite set under a function is finite.                    *)
LEMMA ImageFinite ==
  ASSUME NEW S, IsFiniteSet(S), NEW T, NEW f \in [S -> T]
  PROVE  IsFiniteSet({f[x] : x \in S})
<1> DEFINE R == {f[x] : x \in S}
<1>1. f \in Surjection(S, R)
  BY DEF Surjection
<1> QED BY <1>1, FS_Surjection

-----------------------------------------------------------------------------
(* The inductive invariant.  Consistent is not inductive by itself: the row *)
(* a new version supersedes is found through the document's pointer, so a   *)
(* pointer must always lead to a row (PointersHold), and NextNumber is      *)
(* above every number in use only because the tables are finite.            *)

PointersHold(t) ==
    /\ \A r \in t.versions : t.documents[r.url] # NoDocument
    /\ \A u \in Urls :
          /\ t.documents[u] # NoDocument
          /\ t.documents[u].active_version_id # NoVersion
          => \E r \in t.versions : /\ r.url = u
                                   /\ r.number = t.documents[u].active_version_id

Sound(t) ==
    /\ t \in Tables
    /\ IsFiniteSet(t.versions)
    /\ PointersHold(t)
    /\ LiveAgrees(t)
    /\ ConstraintsHold(t)
    /\ AudienceAgrees(t)
    /\ SupersedesEarlier(t)

(* An answer that is reading has an entry to read for.                      *)
ReadersCollect == \A r \in Readers : pinned[r] # NoRead => reply[r] # NoRead

IInv == TypeOK /\ Sound(db) /\ Sound(staged) /\ ReadersCollect /\ ReleaseRecordsLive

-----------------------------------------------------------------------------
(* A new version's number is above every number its document ever used.     *)
LEMMA NextNumberFresh ==
  ASSUME NEW t \in Tables, IsFiniteSet(t.versions), NEW u \in Urls
  PROVE  /\ NextNumber(t, u) \in Nat \ {0}
         /\ \A r \in t.versions : r.url = u => r.number < NextNumber(t, u)
<1> DEFINE R == RowsOf(t, u)
<1> DEFINE f == [r \in R |-> r.number]
<1> DEFINE S == {0} \cup {r.number : r \in R}
<1>1. t.versions \subseteq VersionRow
  BY DEF Tables
<1>2. IsFiniteSet(R) /\ R \subseteq t.versions
  BY FS_Subset DEF RowsOf
<1>3. \A r \in R : r.number \in Nat
  BY <1>1, <1>2 DEF VersionRow
<1>4. IsFiniteSet({f[r] : r \in R})
  <2>1. f \in [R -> Nat]
    BY <1>3
  <2> HIDE DEF f, R
  <2> QED BY <1>2, <2>1, ImageFinite
<1>5. {f[r] : r \in R} = {r.number : r \in R}
  OBVIOUS
<1>6. IsFiniteSet(S)
  <2>1. IsFiniteSet({0})
    BY FS_Singleton
  <2> HIDE DEF R
  <2> QED BY <1>4, <1>5, <2>1, FS_Union
<1>7. S \in SUBSET Nat /\ S # {}
  BY <1>3
<1>8. Max(S) \in S /\ \A y \in S : y <= Max(S)
  <2> HIDE DEF S
  <2> QED BY <1>6, <1>7, MaxExists
<1>9. NextNumber(t, u) = 1 + Max(S)
  BY DEF NextNumber
<1>10. Max(S) \in Nat
  BY <1>7, <1>8
<1>11. \A r \in R : r.number <= Max(S)
  BY <1>8
<1> HIDE DEF S
<1> QED BY <1>3, <1>9, <1>10, <1>11 DEF RowsOf

-----------------------------------------------------------------------------
(* What deactivation does to one row.                                       *)
Off(r, us) == IF r.url \in us THEN [r EXCEPT !.is_active = FALSE] ELSE r

LEMMA OffFields ==
  ASSUME NEW r \in VersionRow, NEW us
  PROVE  /\ Off(r, us) \in VersionRow
         /\ Off(r, us).url = r.url
         /\ Off(r, us).number = r.number
         /\ Off(r, us).supersedes = r.supersedes
         /\ Off(r, us).audience = r.audience
         /\ Off(r, us).is_active <=> r.is_active /\ r.url \notin us
BY DEF Off, VersionRow

LEMMA DeactivatedRows ==
  ASSUME NEW t \in Tables, NEW us
  PROVE  /\ Deactivated(t, us) = {Off(r, us) : r \in t.versions}
         /\ Deactivated(t, us) \subseteq VersionRow
         /\ IsFiniteSet(t.versions) => IsFiniteSet(Deactivated(t, us))
<1> DEFINE f == [r \in t.versions |-> Off(r, us)]
<1>1. t.versions \subseteq VersionRow
  BY DEF Tables
<1>2. Deactivated(t, us) = {Off(r, us) : r \in t.versions}
  BY DEF Deactivated, Off
<1>3. \A r \in t.versions : Off(r, us) \in VersionRow
  BY <1>1, OffFields
<1>4. ASSUME IsFiniteSet(t.versions)
      PROVE  IsFiniteSet(Deactivated(t, us))
  <2>1. f \in [t.versions -> VersionRow]
    BY <1>3
  <2>2. {f[r] : r \in t.versions} = {Off(r, us) : r \in t.versions}
    OBVIOUS
  <2> HIDE DEF f
  <2>3. IsFiniteSet({f[r] : r \in t.versions})
    BY <1>4, <2>1, ImageFinite
  <2> QED BY <1>2, <2>2, <2>3
<1> QED BY <1>2, <1>3, <1>4

-----------------------------------------------------------------------------
(* The row ApplyOne inserts.                                                *)
NewRow(t, up) ==
    [url |-> up.url, number |-> NextNumber(t, up.url), hash |-> up.hash,
     is_active |-> TRUE,
     supersedes |-> IF t.documents[up.url] = NoDocument THEN NoVersion
                    ELSE t.documents[up.url].active_version_id,
     audience |-> up.audience, vectors |-> up.vectors, caveats |-> up.caveats]

LEMMA ApplyOneFields ==
  ASSUME NEW t \in Tables, IsFiniteSet(t.versions), NEW up \in Update
  PROVE  /\ NewRow(t, up) \in VersionRow
         /\ ApplyOne(t, up) \in Tables
         /\ ApplyOne(t, up).documents =
               [t.documents EXCEPT ![up.url] =
                   [audience |-> up.audience,
                    active_version_id |-> NextNumber(t, up.url)]]
         /\ ApplyOne(t, up).versions =
               Deactivated(t, {up.url}) \cup {NewRow(t, up)}
         /\ ApplyOne(t, up).snapshots = t.snapshots
<1>1. up.url \in Urls /\ up.audience \in Audiences
  BY DEF Update
<1>2. NextNumber(t, up.url) \in Nat \ {0}
  BY <1>1, NextNumberFresh
<1>3. t.documents \in [Urls -> Document \cup {NoDocument}]
  BY DEF Tables
<1>4. NewRow(t, up).supersedes \in Nat
  BY <1>1, <1>3 DEF NewRow, Document, NoVersion
<1>5. NewRow(t, up) \in VersionRow
  BY <1>1, <1>2, <1>4 DEF NewRow, VersionRow, Update
<1>6. ApplyOne(t, up) =
        [t EXCEPT !.documents[up.url] = [audience |-> up.audience,
                                         active_version_id |-> NextNumber(t, up.url)],
                  !.versions = Deactivated(t, {up.url}) \cup {NewRow(t, up)}]
  BY DEF ApplyOne, NewRow
<1>7. Deactivated(t, {up.url}) \subseteq VersionRow
  BY DeactivatedRows
<1>8. [audience |-> up.audience, active_version_id |-> NextNumber(t, up.url)]
        \in Document
  BY <1>1, <1>2 DEF Document
<1> HIDE DEF NewRow
<1> QED BY ZenonT(60), <1>1, <1>3, <1>5, <1>6, <1>7, <1>8 DEF Tables

(* One update keeps the tables sound: deactivation comes before insertion,  *)
(* the number is fresh, and the pointer is moved with the flag.             *)
LEMMA ApplyOneSound ==
  ASSUME NEW t, Sound(t), NEW up \in Update
  PROVE  Sound(ApplyOne(t, up))
<1> DEFINE n == ApplyOne(t, up)
           u == up.url
           row == NewRow(t, up)
           D == Deactivated(t, {u})
<1>1. /\ t \in Tables /\ IsFiniteSet(t.versions)
      /\ t.versions \subseteq VersionRow
      /\ t.documents \in [Urls -> Document \cup {NoDocument}]
  BY DEF Sound, Tables
<1>2. u \in Urls
  BY DEF Update
<1>3. /\ n \in Tables
      /\ n.documents = [t.documents EXCEPT ![u] =
             [audience |-> up.audience, active_version_id |-> NextNumber(t, u)]]
      /\ n.versions = D \cup {row}
      /\ n.snapshots = t.snapshots
      /\ row \in VersionRow
  BY <1>1, ApplyOneFields
<1>4. /\ row.url = u /\ row.number = NextNumber(t, u) /\ row.is_active
      /\ row.audience = up.audience
      /\ row.supersedes = IF t.documents[u] = NoDocument THEN NoVersion
                          ELSE t.documents[u].active_version_id
  BY DEF NewRow
<1>5. /\ NextNumber(t, u) \in Nat \ {0}
      /\ \A r \in t.versions : r.url = u => r.number < NextNumber(t, u)
  BY <1>1, <1>2, NextNumberFresh
<1>6. /\ D = {Off(r, {u}) : r \in t.versions}
      /\ D \subseteq VersionRow
      /\ IsFiniteSet(D)
  BY <1>1, DeactivatedRows
<1>7. \A r \in t.versions :
        /\ Off(r, {u}).url = r.url
        /\ Off(r, {u}).number = r.number
        /\ Off(r, {u}).supersedes = r.supersedes
        /\ Off(r, {u}).audience = r.audience
        /\ Off(r, {u}).is_active <=> r.is_active /\ r.url # u
  BY <1>1, OffFields
<1>8. /\ n.documents[u] # NoDocument
      /\ n.documents[u].active_version_id = row.number
      /\ n.documents[u].audience = row.audience
      /\ \A v \in Urls \ {u} : n.documents[v] = t.documents[v]
  <2>1. [audience |-> up.audience, active_version_id |-> NextNumber(t, u)] \in Document
    BY <1>5 DEF Document, Update
  <2> QED BY <1>1, <1>2, <1>3, <1>4, <2>1, ConstantsAssumption
<1>9. \A r \in D : r.url = u => r.number < row.number /\ r.number \in Nat /\ ~r.is_active
  BY SMTT(30), <1>1, <1>4, <1>5, <1>6, <1>7 DEF VersionRow
<1>10. \A r \in D : r.url # u => r \in t.versions
  <2> SUFFICES ASSUME NEW r \in D, r.url # u PROVE r \in t.versions
    OBVIOUS
  <2>1. PICK a \in t.versions : r = Off(a, {u})
    BY <1>6
  <2>2. a.url # u
    BY <1>7, <2>1
  <2> QED BY <2>1, <2>2 DEF Off
<1>11. \A r \in t.versions : r.url # u => r \in D
  BY <1>6 DEF Off
<1>12. \A r \in n.versions : r.url \in Urls
  BY <1>3 DEF Tables, VersionRow
<1> HIDE DEF n, u, row, D
<1>13. IsFiniteSet(n.versions)
  <2>1. IsFiniteSet(D \cup {row})
    BY <1>6, FS_AddElement
  <2> QED BY <1>3, <2>1
<1>14. PointersHold(n)
  <2>1. \A r \in n.versions : n.documents[r.url] # NoDocument
    BY <1>3, <1>4, <1>8, <1>10, <1>12 DEF Sound, PointersHold
  <2>2. ASSUME NEW v \in Urls, n.documents[v] # NoDocument,
               n.documents[v].active_version_id # NoVersion
        PROVE  \E r \in n.versions : /\ r.url = v
                                     /\ r.number = n.documents[v].active_version_id
    <3>1. CASE v = u
      BY <1>3, <1>4, <1>8, <3>1
    <3>2. CASE v # u
      BY <1>3, <1>8, <1>11, <2>2, <3>2 DEF Sound, PointersHold
    <3> QED BY <3>1, <3>2
  <2> QED BY <2>1, <2>2 DEF PointersHold
<1>15. LiveAgrees(n)
  <2> SUFFICES ASSUME NEW r \in n.versions
               PROVE  r.is_active <=> /\ n.documents[r.url] # NoDocument
                                      /\ n.documents[r.url].active_version_id = r.number
    BY DEF LiveAgrees, LiveByFlag, LiveByPointer
  <2>1. CASE r = row
    BY <1>4, <1>8, <2>1
  <2>2. CASE r \in D /\ r.url = u
    BY <1>4, <1>8, <1>9, <2>2
  <2>3. CASE r \in D /\ r.url # u
    <3>1. r \in t.versions /\ n.documents[r.url] = t.documents[r.url]
      BY <1>8, <1>10, <1>12, <2>3
    <3> QED BY <3>1 DEF Sound, LiveAgrees, LiveByFlag, LiveByPointer
  <2> QED BY <1>3, <2>1, <2>2, <2>3
<1>16. ConstraintsHold(n)
  <2>1. ASSUME NEW r \in n.versions, NEW q \in n.versions, r.url = q.url,
               r.number = q.number \/ (r.is_active /\ q.is_active)
        PROVE  r = q
    <3>1. CASE r.url # u
      BY <1>3, <1>4, <1>10, <2>1, <3>1 DEF Sound, ConstraintsHold
    <3>2. CASE r = row \/ q = row
      BY <1>3, <1>4, <1>9, <2>1, <3>2
    <3>3. CASE r \in D /\ q \in D /\ r.url = u
      <4>1. PICK a \in t.versions : r = Off(a, {u})
        BY <1>6, <3>3
      <4>2. PICK b \in t.versions : q = Off(b, {u})
        BY <1>6, <3>3
      <4>3. a.url = b.url /\ a.number = b.number
        <5>1. ~r.is_active
          BY <1>9, <3>3
        <5>2. r.number = q.number
          BY <2>1, <5>1
        <5> QED BY <1>7, <2>1, <4>1, <4>2, <5>2
      <4> QED BY <4>1, <4>2, <4>3 DEF Sound, ConstraintsHold
    <3> QED BY <1>3, <3>1, <3>2, <3>3
  <2>2. ActiveSnapshots(n) = ActiveSnapshots(t)
    BY <1>3 DEF ActiveSnapshots
  <2> QED BY <1>3, <2>1, <2>2 DEF Sound, ConstraintsHold
<1>17. AudienceAgrees(n)
  <2> SUFFICES ASSUME NEW r \in n.versions, r.is_active
               PROVE  /\ n.documents[r.url] # NoDocument
                      /\ n.documents[r.url].audience = r.audience
    BY DEF AudienceAgrees, LiveByFlag
  <2>1. CASE r = row
    BY <1>4, <1>8, <2>1
  <2>2. CASE r \in D
    BY <1>8, <1>9, <1>10, <1>12, <2>2 DEF Sound, AudienceAgrees, LiveByFlag
  <2> QED BY <1>3, <2>1, <2>2
<1>18. SupersedesEarlier(n)
  <2> SUFFICES ASSUME NEW r \in n.versions, r.supersedes # NoVersion
               PROVE  \E q \in n.versions : /\ q.url = r.url
                                            /\ q.number = r.supersedes
                                            /\ q.number < r.number
                                            /\ ~q.is_active
    BY DEF SupersedesEarlier, RowsOf
  <2>1. CASE r = row
    <3>1. PICK q \in t.versions : q.url = u /\ q.number = r.supersedes
      BY <1>2, <1>4, <2>1 DEF Sound, PointersHold
    <3>2. Off(q, {u}) \in D
      BY <1>6
    <3> QED BY <1>3, <1>4, <1>7, <1>9, <2>1, <3>1, <3>2
  <2>2. CASE r \in D
    <3>1. PICK a \in t.versions : r = Off(a, {u})
      BY <1>6, <2>2
    <3>2. PICK q \in t.versions : /\ q.url = a.url /\ q.number = a.supersedes
                                  /\ q.number < a.number /\ ~q.is_active
      BY <1>7, <3>1 DEF Sound, SupersedesEarlier, RowsOf
    <3>3. Off(q, {u}) \in n.versions
      BY <1>3, <1>6
    <3>4. r.url = a.url /\ r.number = a.number /\ r.supersedes = a.supersedes
      BY <1>7, <3>1
    <3>5. /\ Off(q, {u}).url = q.url
          /\ Off(q, {u}).number = q.number
          /\ ~Off(q, {u}).is_active
      BY <1>7, <3>2
    <3>6. /\ Off(q, {u}).url = r.url
          /\ Off(q, {u}).number = r.supersedes
          /\ Off(q, {u}).number < r.number
      BY <3>2, <3>4, <3>5
    <3> QED BY <3>3, <3>5, <3>6
  <2> QED BY <1>3, <2>1, <2>2
<1> QED BY <1>3, <1>13, <1>14, <1>15, <1>16, <1>17, <1>18 DEF Sound, n

-----------------------------------------------------------------------------
(* Withdrawal clears flag and pointer of the same documents, and a row it   *)
(* supersedes stays where it was.                                           *)
LEMMA WithdrawSound ==
  ASSUME NEW t, Sound(t), NEW removed \in SUBSET Urls
  PROVE  /\ Sound(Withdraw(t, removed))
         /\ Withdraw(t, removed).snapshots = t.snapshots
<1> DEFINE n == Withdraw(t, removed)
           W == {u \in removed : t.documents[u] # NoDocument}
           docs == [u \in Urls |->
                       IF u \in W
                       THEN [t.documents[u] EXCEPT !.active_version_id = NoVersion]
                       ELSE t.documents[u]]
<1>1. /\ t \in Tables /\ IsFiniteSet(t.versions)
      /\ t.versions \subseteq VersionRow
      /\ t.documents \in [Urls -> Document \cup {NoDocument}]
  BY DEF Sound, Tables
<1>2. W \subseteq Urls
  OBVIOUS
<1>3. \A u \in Urls : t.documents[u] # NoDocument => t.documents[u] \in Document
  BY <1>1
<1>4. \A u \in W : /\ docs[u] \in Document
                   /\ docs[u].active_version_id = NoVersion
                   /\ docs[u].audience = t.documents[u].audience
  <2> SUFFICES ASSUME NEW u \in W
               PROVE  /\ docs[u] \in Document
                      /\ docs[u].active_version_id = NoVersion
                      /\ docs[u].audience = t.documents[u].audience
    OBVIOUS
  <2>1. u \in Urls /\ t.documents[u] \in Document
    BY <1>2, <1>3
  <2> QED BY <2>1 DEF Document, NoVersion
<1>5. \A u \in Urls \ W : docs[u] = t.documents[u]
  OBVIOUS
<1>6. docs \in [Urls -> Document \cup {NoDocument}]
  <2>1. \A u \in Urls : docs[u] \in Document \cup {NoDocument}
    BY <1>1, <1>4, <1>5
  <2> QED BY <2>1
<1>7. /\ Deactivated(t, W) = {Off(r, W) : r \in t.versions}
      /\ Deactivated(t, W) \subseteq VersionRow
      /\ IsFiniteSet(Deactivated(t, W))
  BY <1>1, DeactivatedRows
<1>8. \A r \in t.versions :
        /\ Off(r, W) \in Deactivated(t, W)
        /\ Off(r, W).url = r.url
        /\ Off(r, W).number = r.number
        /\ Off(r, W).supersedes = r.supersedes
        /\ Off(r, W).audience = r.audience
        /\ Off(r, W).is_active <=> r.is_active /\ r.url \notin W
  <2> HIDE DEF W
  <2> QED BY <1>1, <1>7, OffFields
<1>9. /\ n = [t EXCEPT !.documents = docs, !.versions = Deactivated(t, W)]
      /\ \A u \in W : docs[u] # NoDocument
  BY <1>4, ConstantsAssumption DEF Withdraw
<1> HIDE DEF n, W, docs
<1>10. /\ n \in Tables /\ n.documents = docs /\ n.versions = Deactivated(t, W)
       /\ n.snapshots = t.snapshots
  BY <1>1, <1>6, <1>7, <1>9 DEF Tables
<1>11. \A r \in t.versions : r.url \in Urls
  BY <1>1 DEF VersionRow
<1>12. PointersHold(n)
  <2>1. ASSUME NEW r \in n.versions
        PROVE  n.documents[r.url] # NoDocument
    <3>1. PICK a \in t.versions : r = Off(a, W)
      BY <1>7, <1>10
    <3> QED BY <1>5, <1>8, <1>9, <1>10, <1>11, <3>1 DEF Sound, PointersHold
  <2>2. ASSUME NEW u \in Urls, n.documents[u] # NoDocument,
               n.documents[u].active_version_id # NoVersion
        PROVE  \E r \in n.versions : /\ r.url = u
                                     /\ r.number = n.documents[u].active_version_id
    <3>1. u \notin W /\ n.documents[u] = t.documents[u]
      BY <1>4, <1>5, <1>10, <2>2
    <3>2. PICK a \in t.versions : /\ a.url = u
                                  /\ a.number = t.documents[u].active_version_id
      BY <2>2, <3>1 DEF Sound, PointersHold
    <3> QED BY <1>8, <1>10, <3>1, <3>2
  <2> QED BY <2>1, <2>2 DEF PointersHold
<1>13. LiveAgrees(n)
  <2> SUFFICES ASSUME NEW r \in n.versions
               PROVE  r.is_active <=> /\ n.documents[r.url] # NoDocument
                                      /\ n.documents[r.url].active_version_id = r.number
    BY DEF LiveAgrees, LiveByFlag, LiveByPointer
  <2>1. PICK a \in t.versions : r = Off(a, W)
    BY <1>7, <1>10
  <2>2. a.is_active <=> /\ t.documents[a.url] # NoDocument
                        /\ t.documents[a.url].active_version_id = a.number
    BY DEF Sound, LiveAgrees, LiveByFlag, LiveByPointer
  <2>3. a.number # NoVersion
    BY <1>1 DEF VersionRow, NoVersion
  <2>4. CASE a.url \in W
    <3>1. ~r.is_active
      BY <1>8, <2>1, <2>4
    <3>2. n.documents[r.url].active_version_id # r.number
      BY <1>4, <1>8, <1>10, <2>1, <2>3, <2>4
    <3> QED BY <3>1, <3>2
  <2>5. CASE a.url \notin W
    <3>1. n.documents[r.url] = t.documents[a.url] /\ r.number = a.number
      BY <1>5, <1>8, <1>10, <1>11, <2>1, <2>5
    <3>2. r.is_active <=> a.is_active
      BY <1>8, <2>1, <2>5
    <3> QED BY <2>2, <3>1, <3>2
  <2> QED BY <2>4, <2>5
<1>14. ConstraintsHold(n)
  <2>1. ASSUME NEW r \in n.versions, NEW q \in n.versions, r.url = q.url,
               r.number = q.number \/ (r.is_active /\ q.is_active)
        PROVE  r = q
    <3>1. PICK a \in t.versions : r = Off(a, W)
      BY <1>7, <1>10
    <3>2. PICK b \in t.versions : q = Off(b, W)
      BY <1>7, <1>10
    <3>3. a.url = b.url
      BY <1>8, <2>1, <3>1, <3>2
    <3>4. a.number = b.number \/ (a.is_active /\ b.is_active)
      <4>1. CASE r.number = q.number
        BY <1>8, <3>1, <3>2, <4>1
      <4>2. CASE r.is_active /\ q.is_active
        BY <1>8, <3>1, <3>2, <4>2
      <4> QED BY <2>1, <4>1, <4>2
    <3>5. a = b
      BY <3>3, <3>4 DEF Sound, ConstraintsHold
    <3> QED BY <3>1, <3>2, <3>5
  <2>2. ActiveSnapshots(n) = ActiveSnapshots(t)
    BY <1>10 DEF ActiveSnapshots
  <2> QED BY <1>10, <2>1, <2>2 DEF Sound, ConstraintsHold
<1>15. AudienceAgrees(n)
  <2> SUFFICES ASSUME NEW r \in n.versions, r.is_active
               PROVE  /\ n.documents[r.url] # NoDocument
                      /\ n.documents[r.url].audience = r.audience
    BY DEF AudienceAgrees, LiveByFlag
  <2>1. PICK a \in t.versions : r = Off(a, W)
    BY <1>7, <1>10
  <2>2. a.is_active /\ a.url \notin W
    BY <1>8, <2>1
  <2>3. n.documents[r.url] = t.documents[a.url] /\ r.audience = a.audience
    BY <1>5, <1>8, <1>10, <1>11, <2>1, <2>2
  <2> QED BY <2>2, <2>3 DEF Sound, AudienceAgrees, LiveByFlag
<1>16. SupersedesEarlier(n)
  <2> SUFFICES ASSUME NEW r \in n.versions, r.supersedes # NoVersion
               PROVE  \E q \in n.versions : /\ q.url = r.url
                                            /\ q.number = r.supersedes
                                            /\ q.number < r.number
                                            /\ ~q.is_active
    BY DEF SupersedesEarlier, RowsOf
  <2>1. PICK a \in t.versions : r = Off(a, W)
    BY <1>7, <1>10
  <2>2. PICK q \in t.versions : /\ q.url = a.url /\ q.number = a.supersedes
                                /\ q.number < a.number /\ ~q.is_active
    BY <1>8, <2>1 DEF Sound, SupersedesEarlier, RowsOf
  <2> QED BY <1>8, <1>10, <2>1, <2>2
<1> QED BY <1>7, <1>10, <1>12, <1>13, <1>14, <1>15, <1>16 DEF Sound, n

-----------------------------------------------------------------------------
(* Only documents, versions and snapshots matter to soundness.              *)
LEMMA SoundFields ==
  ASSUME NEW t, Sound(t), NEW n \in Tables, n.documents = t.documents,
         n.versions = t.versions, n.snapshots = t.snapshots
  PROVE  Sound(n)
BY DEF Sound, PointersHold, LiveAgrees, LiveByFlag, LiveByPointer, ConstraintsHold,
       ActiveSnapshots, AudienceAgrees, SupersedesEarlier, RowsOf

(* A new release row leaves one active release and keeps ids unique.        *)
LEMMA ActivateSound ==
  ASSUME NEW t, Sound(t), NEW s \in SnapshotRow, s.is_active
  PROVE  /\ Sound(Activate(t, s))
         /\ Activate(t, s).documents = t.documents
         /\ Activate(t, s).versions = t.versions
         /\ ActiveSnapshots(Activate(t, s)) = {s}
<1> DEFINE n == Activate(t, s)
           old == {x \in t.snapshots : x.id # s.id}
           Off2(r) == [r EXCEPT !.is_active = FALSE]
<1>1. t \in Tables /\ t.snapshots \subseteq SnapshotRow
  BY DEF Sound, Tables
<1>2. \A r \in old : /\ Off2(r) \in SnapshotRow
                     /\ ~Off2(r).is_active
                     /\ Off2(r).id = r.id
  BY <1>1 DEF SnapshotRow
<1>3. n = [t EXCEPT !.snapshots = {Off2(r) : r \in old} \cup {s}]
  BY DEF Activate
<1>4. {Off2(r) : r \in old} \cup {s} \subseteq SnapshotRow
  BY <1>2
<1>5. /\ n \in Tables /\ n.documents = t.documents /\ n.versions = t.versions
      /\ n.snapshots = {Off2(r) : r \in old} \cup {s}
  <2> HIDE DEF n, old, Off2
  <2> QED BY <1>1, <1>3, <1>4 DEF Tables
<1>6. ActiveSnapshots(n) = {s}
  BY <1>2, <1>5 DEF ActiveSnapshots
<1>7. \A a, b \in n.snapshots : a.id = b.id => a = b
  <2> SUFFICES ASSUME NEW a \in n.snapshots, NEW b \in n.snapshots, a.id = b.id
               PROVE  a = b
    OBVIOUS
  <2>1. CASE a = s \/ b = s
    BY <1>2, <1>5, <2>1
  <2>2. CASE a # s /\ b # s
    <3>1. PICK x \in old : a = Off2(x)
      BY <1>5, <2>2
    <3>2. PICK y \in old : b = Off2(y)
      BY <1>5, <2>2
    <3>3. x.id = y.id
      BY <1>2, <3>1, <3>2
    <3> QED BY <3>1, <3>2, <3>3 DEF Sound, ConstraintsHold
  <2> QED BY <2>1, <2>2
<1> HIDE DEF n
<1> QED BY <1>5, <1>6, <1>7
        DEF Sound, PointersHold, LiveAgrees, LiveByFlag, LiveByPointer,
            ConstraintsHold, AudienceAgrees, SupersedesEarlier, RowsOf, n

(* As many members as live rows: two of them never print the same.          *)
LEMMA MembersCount ==
  ASSUME NEW t, Sound(t)
  PROVE  Cardinality({AsMember(r) : r \in LiveByFlag(t)}) = Cardinality(LiveByFlag(t))
<1> DEFINE L == LiveByFlag(t)
           P == {AsMember(r) : r \in L}
           f == [r \in L |-> AsMember(r)]
<1>1. L \subseteq t.versions
  BY DEF LiveByFlag
<1>2. IsFiniteSet(L)
  BY <1>1, FS_Subset DEF Sound
<1>3. f \in Surjection(L, P)
  BY DEF Surjection
<1>4. \A r, q \in L : f[r] = f[q] => r = q
  <2> SUFFICES ASSUME NEW r \in L, NEW q \in L, f[r] = f[q] PROVE r = q
    OBVIOUS
  <2>1. r.url = q.url /\ r.number = q.number
    BY DEF AsMember
  <2> QED BY <1>1, <2>1 DEF Sound, ConstraintsHold
<1> HIDE DEF f, L, P
<1>5. f \in Injection(L, P)
  BY <1>3, <1>4 DEF Injection, IsInjective, Surjection
<1>6. ExistsBijection(L, P)
  BY <1>3, <1>5 DEF ExistsBijection, Bijection
<1>7. Cardinality(P) = Cardinality(L)
  BY <1>2, <1>6, FS_Bijection
<1> QED BY <1>7 DEF P, L

(* The release row of a delta is well-formed, because what it counts is     *)
(* finite, and it is true: activating it moved no version, and both joins   *)
(* count the same rows.                                                     *)
LEMMA InsertSnapshotSound ==
  ASSUME NEW t, Sound(t), NEW d \in Delta
  PROVE  Sound(InsertSnapshot(t, d)) /\ RecordsLive(InsertSnapshot(t, d))
<1> DEFINE s == [id |-> d.id, parent |-> d.parent, config |-> d.config,
                 is_active |-> TRUE, origin |-> "delta",
                 members |-> {AsMember(r) : r \in LiveByPointer(t)},
                 document_count |-> Cardinality(LiveByPointer(t)),
                 chunk_count |-> Cardinality(LiveByFlag(t))]
<1>1. IsFiniteSet(t.versions) /\ t.versions \subseteq VersionRow
  BY DEF Sound, Tables
<1>2. LiveByPointer(t) \subseteq t.versions /\ LiveByFlag(t) \subseteq t.versions
  BY DEF LiveByPointer, LiveByFlag
<1>3. Cardinality(LiveByPointer(t)) \in Nat /\ Cardinality(LiveByFlag(t)) \in Nat
  <2>1. IsFiniteSet(LiveByPointer(t)) /\ IsFiniteSet(LiveByFlag(t))
    BY <1>1, <1>2, FS_Subset
  <2> QED BY <2>1, FS_CardinalityType
<1>4. {AsMember(r) : r \in LiveByPointer(t)} \subseteq Member
  BY <1>1, <1>2 DEF AsMember, Member, VersionRow
<1>5. s \in SnapshotRow
  BY <1>3, <1>4 DEF SnapshotRow, Delta
<1>6. s.is_active
  OBVIOUS
<1>7. InsertSnapshot(t, d) = Activate(t, s)
  BY DEF InsertSnapshot
<1>8. LiveByPointer(t) = LiveByFlag(t)
  BY DEF Sound, LiveAgrees
<1>9. /\ s.members = {AsMember(r) : r \in LiveByFlag(t)}
      /\ s.document_count = Cardinality(LiveByFlag(t))
      /\ s.chunk_count = Cardinality(LiveByFlag(t))
  BY <1>8
<1> HIDE DEF s
<1>10. /\ Sound(Activate(t, s))
       /\ ActiveSnapshots(Activate(t, s)) = {s}
       /\ Activate(t, s).versions = t.versions
  BY <1>5, <1>6, ActivateSound
<1>11. LiveByFlag(Activate(t, s)) = LiveByFlag(t)
  BY <1>10 DEF LiveByFlag
<1>12. RecordsLive(Activate(t, s))
  BY <1>9, <1>10, <1>11, MembersCount DEF RecordsLive
<1> QED BY <1>7, <1>10, <1>12

LEMMA FinishDeltaSound ==
  ASSUME NEW t, Sound(t), NEW d \in Delta
  PROVE  Sound(FinishDelta(t, d)) /\ RecordsLive(FinishDelta(t, d))
<1> DEFINE w == Withdraw(t, d.removed)
           runs == IF d.run THEN w.crawl_runs \cup {d.id} ELSE w.crawl_runs
           x == [w EXCEPT !.excluded = d.excluded, !.crawl_runs = runs]
<1>1. d.removed \in SUBSET Urls /\ d.id \in SnapshotIds /\ d.excluded \in ExclusionLists
  BY DEF Delta
<1>2. Sound(w)
  BY <1>1, WithdrawSound
<1>3. w \in Tables
  BY <1>2 DEF Sound
<1>4. FinishDelta(t, d) = InsertSnapshot(x, d)
  BY DEF FinishDelta
<1> HIDE DEF w
<1>5. runs \subseteq SnapshotIds
  BY <1>1, <1>3 DEF Tables
<1> HIDE DEF runs
<1>6. /\ x \in Tables /\ x.documents = w.documents
      /\ x.versions = w.versions /\ x.snapshots = w.snapshots
  BY <1>1, <1>3, <1>5 DEF Tables
<1> HIDE DEF x
<1>7. Sound(x)
  BY <1>2, <1>6, SoundFields
<1> QED BY <1>4, <1>7, InsertSnapshotSound

-----------------------------------------------------------------------------
(* The row a bootstrap inserts for a row it is given.                       *)
Inserted(r, first, caveated) ==
    [r EXCEPT !.supersedes = NoVersion,
              !.caveats = r.url \in caveated /\ first[r.url] = r.number]

InsertedRows(rows, first, caveated) == {Inserted(r, first, caveated) : r \in rows}

LEMMA InsertedFields ==
  ASSUME NEW r \in VersionRow, NEW first, NEW caveated
  PROVE  /\ Inserted(r, first, caveated) \in VersionRow
         /\ Inserted(r, first, caveated).url = r.url
         /\ Inserted(r, first, caveated).number = r.number
         /\ Inserted(r, first, caveated).is_active = r.is_active
         /\ Inserted(r, first, caveated).audience = r.audience
         /\ Inserted(r, first, caveated).supersedes = NoVersion
BY DEF Inserted, VersionRow, NoVersion

LEMMA InsertedFinite ==
  ASSUME NEW rows \in SUBSET VersionRow, IsFiniteSet(rows), NEW first, NEW caveated
  PROVE  /\ InsertedRows(rows, first, caveated) \subseteq VersionRow
         /\ IsFiniteSet(InsertedRows(rows, first, caveated))
<1> DEFINE f == [r \in rows |-> Inserted(r, first, caveated)]
<1>1. \A r \in rows : Inserted(r, first, caveated) \in VersionRow
  BY InsertedFields
<1>2. f \in [rows -> VersionRow]
  BY <1>1
<1>3. {f[r] : r \in rows} = InsertedRows(rows, first, caveated)
  BY DEF InsertedRows
<1>4. IsFiniteSet({f[r] : r \in rows})
  <2> HIDE DEF f
  <2> QED BY <1>2, ImageFinite
<1>5. InsertedRows(rows, first, caveated) \subseteq VersionRow
  BY <1>1 DEF InsertedRows
<1> QED BY <1>3, <1>4, <1>5

(* The tables a bootstrap leaves: rows that pass the UNIQUE constraints,    *)
(* pointers taken from their flags, no ancestry.                            *)
LEMMA ReplacementSound ==
  ASSUME NEW t, Sound(t),
         NEW docs \in [Urls -> Audiences \cup {NoDocument}],
         NEW rows \in SUBSET VersionRow, IsFiniteSet(rows), Insertable(rows),
         \A r \in rows : docs[r.url] # NoDocument /\ docs[r.url] = r.audience,
         NEW first, NEW caveated, NEW s \in SnapshotRow, s.is_active,
         s.origin = "publish"
  PROVE  /\ Sound(Replacement(t, docs, rows, first, caveated, s))
         /\ RecordsLive(Replacement(t, docs, rows, first, caveated, s))
<1> DEFINE active(u) == {r \in rows : r.url = u /\ r.is_active}
           pointer(u) == IF active(u) = {} THEN NoVersion
                         ELSE (CHOOSE r \in active(u) : TRUE).number
           D == [u \in Urls |-> IF docs[u] = NoDocument THEN NoDocument
                                ELSE [audience |-> docs[u],
                                      active_version_id |-> pointer(u)]]
           In(r) == Inserted(r, first, caveated)
           V == InsertedRows(rows, first, caveated)
           n == [t EXCEPT !.documents = D, !.versions = V]
<1>1. Replacement(t, docs, rows, first, caveated, s) = Activate(n, s)
  BY DEF Replacement, InsertedRows, Inserted
<1>2. \A r \in rows : /\ In(r) \in VersionRow
                      /\ In(r).url = r.url /\ In(r).number = r.number
                      /\ In(r).is_active = r.is_active
                      /\ In(r).audience = r.audience
                      /\ In(r).supersedes = NoVersion
  BY InsertedFields
<1>3. V \subseteq VersionRow /\ IsFiniteSet(V)
  BY InsertedFinite
<1>4. \A r, q \in rows : r.url = q.url /\ (r.number = q.number \/ (r.is_active /\ q.is_active))
                            => r = q
  BY DEF Insertable
<1>5. \A r \in rows : r.is_active => active(r.url) = {r}
  BY <1>4
<1>6. \A u \in Urls : pointer(u) \in Nat
  <2> SUFFICES ASSUME NEW u \in Urls, active(u) # {} PROVE pointer(u) \in Nat
    BY DEF NoVersion
  <2>1. (CHOOSE r \in active(u) : TRUE) \in active(u)
    OBVIOUS
  <2> QED BY <2>1 DEF VersionRow
<1>7. \A r \in rows : r.is_active <=> pointer(r.url) = r.number
  <2> SUFFICES ASSUME NEW r \in rows
               PROVE  r.is_active <=> pointer(r.url) = r.number
    OBVIOUS
  <2>1. r.number # NoVersion
    BY DEF VersionRow, NoVersion
  <2>2. CASE r.is_active
    BY <1>5, <2>2
  <2>3. CASE ~r.is_active
    <3>1. SUFFICES ASSUME active(r.url) # {}, pointer(r.url) = r.number PROVE FALSE
      BY <2>1, <2>3
    <3>2. PICK q \in active(r.url) : pointer(r.url) = q.number
      BY <3>1
    <3> QED BY <1>4, <2>3, <3>1, <3>2
  <2> QED BY <2>2, <2>3
<1>8. \A u \in Urls : active(u) # {} => \E r \in active(u) : r.number = pointer(u)
  OBVIOUS
<1>9. \A u \in Urls : docs[u] # NoDocument =>
         /\ [audience |-> docs[u], active_version_id |-> pointer(u)] \in Document
  BY <1>6 DEF Document
<1>10. \A u \in Urls :
         IF docs[u] = NoDocument THEN D[u] = NoDocument
         ELSE /\ D[u] \in Document /\ D[u] # NoDocument
              /\ D[u].audience = docs[u] /\ D[u].active_version_id = pointer(u)
  <2> HIDE DEF pointer
  <2> QED BY <1>9, ConstantsAssumption
<1>11. D \in [Urls -> Document \cup {NoDocument}]
  <2>1. \A u \in Urls : D[u] \in Document \cup {NoDocument}
    BY <1>10
  <2> QED BY <2>1
<1>12. t \in Tables
  BY DEF Sound
<1>13. \A r \in rows : r.url \in Urls
  BY DEF VersionRow
<1> HIDE DEF D, pointer
<1>14. /\ n \in Tables /\ n.documents = D /\ n.versions = V
       /\ n.snapshots = t.snapshots
  BY <1>3, <1>11, <1>12 DEF Tables
<1>15. \A v \in V : \E r \in rows : v = In(r)
  BY DEF InsertedRows
<1>16. \A r \in rows : In(r) \in V
  BY DEF InsertedRows
<1> HIDE DEF n, In, V
<1>17. PointersHold(n)
  <2>1. \A v \in n.versions : n.documents[v.url] # NoDocument
    BY <1>2, <1>10, <1>13, <1>14, <1>15
  <2>2. ASSUME NEW u \in Urls, n.documents[u] # NoDocument,
               n.documents[u].active_version_id # NoVersion
        PROVE  \E v \in n.versions : /\ v.url = u
                                     /\ v.number = n.documents[u].active_version_id
    <3>1. active(u) # {}
      BY <1>10, <1>14, <2>2 DEF pointer
    <3>2. PICK r \in active(u) : r.number = pointer(u)
      BY <1>8, <3>1
    <3> QED BY <1>2, <1>10, <1>14, <1>16, <2>2, <3>2
  <2> QED BY <2>1, <2>2 DEF PointersHold
<1>18. LiveAgrees(n)
  <2> SUFFICES ASSUME NEW v \in n.versions
               PROVE  v.is_active <=> /\ n.documents[v.url] # NoDocument
                                      /\ n.documents[v.url].active_version_id = v.number
    BY DEF LiveAgrees, LiveByFlag, LiveByPointer
  <2>1. PICK r \in rows : v = In(r)
    BY <1>14, <1>15
  <2>2. n.documents[v.url] # NoDocument /\ n.documents[v.url].active_version_id = pointer(r.url)
    BY <1>2, <1>10, <1>13, <1>14, <2>1
  <2> QED BY <1>2, <1>7, <2>1, <2>2
<1>19. ConstraintsHold(n)
  <2>1. ASSUME NEW v \in n.versions, NEW w \in n.versions, v.url = w.url,
               v.number = w.number \/ (v.is_active /\ w.is_active)
        PROVE  v = w
    <3>1. PICK r \in rows : v = In(r)
      BY <1>14, <1>15
    <3>2. PICK q \in rows : w = In(q)
      BY <1>14, <1>15
    <3>3. r.url = q.url /\ (r.number = q.number \/ (r.is_active /\ q.is_active))
      BY <1>2, <2>1, <3>1, <3>2
    <3> QED BY <1>4, <3>1, <3>2, <3>3
  <2>2. ActiveSnapshots(n) = ActiveSnapshots(t)
    BY <1>14 DEF ActiveSnapshots
  <2> QED BY <1>14, <2>1, <2>2 DEF Sound, ConstraintsHold
<1>20. AudienceAgrees(n)
  <2> SUFFICES ASSUME NEW v \in n.versions
               PROVE  /\ n.documents[v.url] # NoDocument
                      /\ n.documents[v.url].audience = v.audience
    BY DEF AudienceAgrees, LiveByFlag
  <2> QED BY <1>2, <1>10, <1>13, <1>14, <1>15
<1>21. SupersedesEarlier(n)
  BY <1>2, <1>14, <1>15 DEF SupersedesEarlier
<1>22. Sound(n)
  BY <1>3, <1>14, <1>17, <1>18, <1>19, <1>20, <1>21 DEF Sound
<1>23. RecordsLive(Activate(n, s))
  BY <1>22, ActivateSound DEF RecordsLive
<1> QED BY <1>1, <1>22, <1>23, ActivateSound

-----------------------------------------------------------------------------
(* The initial tables are empty.                                            *)
LEMMA InitSound == Init => IInv
<1> SUFFICES ASSUME Init PROVE IInv
  OBVIOUS
<1>1. PICK x \in ExclusionLists :
        db = [documents |-> [u \in Urls |-> NoDocument], versions |-> {},
              snapshots |-> {}, excluded |-> x, crawl_runs |-> {}]
  BY DEF Init
<1>2. db \in Tables
  BY <1>1 DEF Tables
<1>3. Sound(db)
  <2>1. IsFiniteSet({})
    BY FS_EmptySet
  <2> QED BY <1>1, <1>2, <2>1
          DEF Sound, PointersHold, LiveAgrees, LiveByFlag, LiveByPointer, ConstraintsHold,
              ActiveSnapshots, AudienceAgrees, SupersedesEarlier
<1>4. TypeOK
  BY <1>2 DEF Init, TypeOK
<1>5. ReleaseRecordsLive
  BY <1>1 DEF ReleaseRecordsLive, RecordsLive, ActiveSnapshots
<1> QED BY <1>3, <1>4, <1>5 DEF Init, IInv, ReadersCollect

(* What the type of a store's tables says of the release it serves.         *)
LEMMA SnapshotType ==
  ASSUME NEW t \in Tables
  PROVE  snapshot(t) \in SnapshotIds \cup {NoSnapshot}
<1>1. ActiveSnapshots(t) \subseteq SnapshotRow
  BY DEF ActiveSnapshots, Tables
<1>2. CASE ActiveSnapshots(t) = {}
  BY <1>2 DEF snapshot
<1>3. CASE ActiveSnapshots(t) # {}
  <2>1. (CHOOSE s \in ActiveSnapshots(t) : TRUE) \in ActiveSnapshots(t)
    BY <1>3
  <2> QED BY <1>1, <1>3, <2>1 DEF snapshot, SnapshotRow
<1> QED BY <1>2, <1>3

(* An answer reads and logs; the tables stay as they are.                   *)
LEMMA ReadSound ==
  ASSUME IInv, NEW r \in Readers, ReadNext(r)
  PROVE  IInv'
<1>1. UNCHANGED <<db, staged, delta>>
  BY DEF ReadNext, BeginRead, Retrieve, EndRead, LogAnswer, LoseLog
<1>2. /\ pinned \in [Readers -> Tables \cup {NoRead}]
      /\ reply \in [Readers -> LogEntry \cup {NoRead}]
      /\ answer_log \subseteq LogEntry
      /\ db \in Tables
  BY DEF IInv, TypeOK
<1>3. /\ pinned' \in [Readers -> Tables \cup {NoRead}]
      /\ reply' \in [Readers -> LogEntry \cup {NoRead}]
      /\ answer_log' \subseteq LogEntry
  <2>1. CASE BeginRead(r)
    <3>1. [release |-> snapshot(db), cited |-> {}] \in LogEntry
      BY <1>2, SnapshotType DEF LogEntry
    <3> QED BY <1>2, <2>1, <3>1 DEF BeginRead
  <2>2. CASE Retrieve(r)
    <3>1. pinned[r] \in Tables
      BY <1>2, <2>2 DEF Retrieve
    <3>2. PICK row \in LiveByFlag(pinned[r]) :
             reply' = [reply EXCEPT ![r].cited = @ \cup {AsMember(row)}]
      BY <2>2 DEF Retrieve
    <3>3. AsMember(row) \in Member
      BY <3>1 DEF AsMember, Member, LiveByFlag, Tables, VersionRow
    <3>4. reply[r] \in LogEntry
      BY <1>2, <2>2 DEF Retrieve, IInv, ReadersCollect
    <3> QED BY <1>2, <2>2, <3>2, <3>3, <3>4 DEF Retrieve, LogEntry
  <2>3. CASE EndRead(r)
    BY <1>2, <2>3 DEF EndRead
  <2>4. CASE LogAnswer(r)
    BY <1>2, <2>4 DEF LogAnswer
  <2>5. CASE LoseLog(r)
    BY <1>2, <2>5 DEF LoseLog
  <2> QED BY <2>1, <2>2, <2>3, <2>4, <2>5 DEF ReadNext
<1>4. ReadersCollect'
  <2> USE <1>2, ConstantsAssumption DEF ReadersCollect, IInv
  <2>1. CASE BeginRead(r)
    <3>1. [release |-> snapshot(db), cited |-> {}] \in LogEntry
      BY <1>2, SnapshotType DEF LogEntry
    <3> QED BY <2>1, <3>1 DEF BeginRead
  <2>2. CASE Retrieve(r)
    <3>1. reply[r] \in LogEntry /\ pinned' = pinned
      BY <2>2 DEF Retrieve
    <3>2. \A q \in Readers : q # r => reply'[q] = reply[q]
      BY <2>2 DEF Retrieve
    <3>3. reply'[r] \in LogEntry
      <4>1. PICK row \in LiveByFlag(pinned[r]) :
              reply' = [reply EXCEPT ![r].cited = @ \cup {AsMember(row)}]
        BY <2>2 DEF Retrieve
      <4>2. AsMember(row) \in Member
        BY <2>2 DEF Retrieve, AsMember, Member, LiveByFlag, Tables, VersionRow
      <4> QED BY <3>1, <4>1, <4>2 DEF LogEntry
    <3> QED BY <3>1, <3>2, <3>3
  <2>3. CASE EndRead(r)
    BY <2>3 DEF EndRead
  <2>4. CASE LogAnswer(r)
    BY <2>4 DEF LogAnswer
  <2>5. CASE LoseLog(r)
    BY <2>5 DEF LoseLog
  <2> QED BY <2>1, <2>2, <2>3, <2>4, <2>5 DEF ReadNext
<1> QED BY <1>1, <1>3, <1>4 DEF IInv, TypeOK, ReleaseRecordsLive

-----------------------------------------------------------------------------
(* What a caller may choose from n of S is a subset of S.                   *)
LEMMA UpToSubset ==
  ASSUME NEW n, NEW S, NEW T \in UpTo(n, S)
  PROVE  T \subseteq S
BY DEF UpTo, kSubset

LEMMA BeginSound ==
  ASSUME IInv, BeginAnyDelta
  PROVE  IInv'
<1>1. PICK ups \in UpTo(MaxUpdates, Updates), removed \in SUBSET Urls, id \in Fresh,
           parent \in Parents, config \in Configs, x \in ExclusionLists :
        BeginDelta([updates |-> ups, removed |-> removed, id |-> id,
                    parent |-> parent, config |-> config, excluded |-> x,
                    run |-> parent # Unchecked])
  BY DEF BeginAnyDelta
<1>2. ups \subseteq Updates
  BY UpToSubset
<1>3. id \in SnapshotIds
  BY DEF Fresh
<1>4. delta' \in Delta
  BY <1>1, <1>2, <1>3 DEF BeginDelta, Delta
<1> QED BY <1>1, <1>4 DEF BeginDelta, IInv, TypeOK, readVars, ReadersCollect,
                         ReleaseRecordsLive

LEMMA StageSound ==
  ASSUME IInv, StageUpdate
  PROVE  IInv'
<1>1. PICK up \in delta.updates :
        /\ staged' = ApplyOne(staged, up)
        /\ delta' = [delta EXCEPT !.updates = @ \ {up}]
  BY DEF StageUpdate
<1>2. delta \in Delta
  BY DEF StageUpdate, IInv, TypeOK
<1>3. up \in Update
  BY <1>2, ConstantsAssumption DEF Delta
<1>4. Sound(staged')
  BY <1>1, <1>3, ApplyOneSound DEF IInv
<1>5. delta' \in Delta
  BY <1>1, <1>2 DEF Delta
<1> QED BY <1>4, <1>5 DEF StageUpdate, IInv, TypeOK, Sound, readVars, ReadersCollect,
                         ReleaseRecordsLive

LEMMA CommitSound ==
  ASSUME IInv, CommitDelta
  PROVE  IInv'
<1>1. delta \in Delta
  BY DEF CommitDelta, IInv, TypeOK
<1>2. staged' = FinishDelta(staged, delta) /\ db' = staged'
  BY DEF CommitDelta
<1>3. Sound(staged') /\ RecordsLive(staged')
  BY <1>1, <1>2, FinishDeltaSound DEF IInv
<1>4. Sound(db') /\ staged' \in Tables /\ db' \in Tables /\ ReleaseRecordsLive'
  BY <1>2, <1>3 DEF Sound, ReleaseRecordsLive
<1> QED BY <1>3, <1>4 DEF CommitDelta, IInv, TypeOK, readVars, ReadersCollect,
                         ReleaseRecordsLive

LEMMA PublishSound ==
  ASSUME IInv, PublishAny
  PROVE  IInv'
<1>1. PICK passed \in UpTo(MaxBootstrap, BootstrapRows),
           docs \in [Urls -> Audiences \cup {NoDocument}] :
        /\ \A r \in passed : docs[r.url] \in {r.audience, NoDocument}
        /\ \E caveated \in SUBSET {r.url : r \in passed}, id \in Fresh,
              config \in Configs, first \in [Urls -> {r.number : r \in BootstrapRows}] :
               Publish(docs, passed, first, caveated, id, config)
  BY DEF PublishAny
<1>2. PICK caveated \in SUBSET {r.url : r \in passed}, id \in Fresh,
           config \in Configs, first \in [Urls -> {r.number : r \in BootstrapRows}] :
        Publish(docs, passed, first, caveated, id, config)
  BY <1>1
<1> DEFINE rows == {r \in passed : docs[r.url] # NoDocument}
           s == [id |-> id, parent |-> Unchecked, config |-> config,
                 is_active |-> TRUE, origin |-> "publish", members |-> {},
                 document_count |-> Cardinality({u \in Urls : docs[u] # NoDocument}),
                 chunk_count |-> Cardinality(passed)]
           R == Replacement(db, docs, rows, first, caveated, s)
<1>3. passed \subseteq BootstrapRows
  BY UpToSubset
<1>4. passed \subseteq VersionRow /\ IsFiniteSet(passed)
  BY <1>3, ConstantsAssumption, FS_Subset
<1>5. rows \in SUBSET VersionRow /\ IsFiniteSet(rows)
  <2>1. rows \subseteq passed
    OBVIOUS
  <2> HIDE DEF rows
  <2> QED BY <1>4, <2>1, FS_Subset
<1>6. Insertable(rows)
  BY <1>2 DEF Publish
<1>7. \A r \in rows : docs[r.url] # NoDocument /\ docs[r.url] = r.audience
  BY <1>1
<1>8. s \in SnapshotRow /\ s.is_active /\ s.origin = "publish"
  <2>1. IsFiniteSet({u \in Urls : docs[u] # NoDocument})
    <3>1. {u \in Urls : docs[u] # NoDocument} \subseteq Urls
      OBVIOUS
    <3> QED BY <3>1, ConstantsAssumption, FS_Subset
  <2>2. Cardinality({u \in Urls : docs[u] # NoDocument}) \in Nat
    BY <2>1, FS_CardinalityType
  <2>3. Cardinality(passed) \in Nat
    BY <1>4, FS_CardinalityType
  <2>4. id \in SnapshotIds
    BY DEF Fresh
  <2> QED BY <2>2, <2>3, <2>4 DEF SnapshotRow, Parents
<1>9. PICK x \in ExclusionLists : db' = [R EXCEPT !.excluded = x]
  BY <1>2 DEF Publish
<1>10. Sound(R) /\ RecordsLive(R)
  <2> HIDE DEF rows, s
  <2> QED BY <1>5, <1>6, <1>7, <1>8, ReplacementSound DEF IInv
<1> HIDE DEF R
<1>11. /\ db' \in Tables /\ db'.documents = R.documents
       /\ db'.versions = R.versions /\ db'.snapshots = R.snapshots
  BY <1>9, <1>10 DEF Sound, Tables
<1>12. Sound(db') /\ ReleaseRecordsLive'
  BY <1>10, <1>11, SoundFields
     DEF ReleaseRecordsLive, RecordsLive, ActiveSnapshots, LiveByFlag
<1>13. staged' = db' /\ UNCHANGED <<delta, readVars>>
  BY <1>2 DEF Publish
<1> QED BY <1>11, <1>12, <1>13 DEF IInv, TypeOK, readVars, ReadersCollect,
                         ReleaseRecordsLive

(* Every step keeps the invariant.                                          *)
LEMMA NextSound ==
  ASSUME IInv, [Next]_vars
  PROVE  IInv'
<1>1. CASE BeginAnyDelta
  BY <1>1, BeginSound
<1>2. CASE StageUpdate
  BY <1>2, StageSound
<1>3. CASE CommitDelta
  BY <1>3, CommitSound
<1>4. CASE Rollback
  <2>1. /\ staged' = db /\ db' = db /\ delta' = NoDelta
        /\ UNCHANGED <<pinned, reply, answer_log>>
    BY <1>4 DEF Rollback, readVars
  <2>2. Sound(db') /\ Sound(staged')
    BY <2>1 DEF IInv
  <2>3. TypeOK' /\ ReadersCollect'
    BY <2>1 DEF IInv, TypeOK, ReadersCollect
  <2>4. ReleaseRecordsLive'
    BY <2>1 DEF IInv, ReleaseRecordsLive
  <2> QED BY <2>2, <2>3, <2>4 DEF IInv
<1>5. CASE PublishAny
  BY <1>5, PublishSound
<1>6. CASE \E r \in Readers : ReadNext(r)
  BY <1>6, ReadSound
<1>7. CASE UNCHANGED vars
  BY <1>7 DEF vars, readVars, IInv, TypeOK, ReadersCollect,
                ReleaseRecordsLive
<1> QED BY <1>1, <1>2, <1>3, <1>4, <1>5, <1>6, <1>7 DEF Next

THEOREM Invariance == Spec => []IInv
BY InitSound, NextSound, PTL DEF Spec

(* Whatever deltas, aborted deltas, bootstraps and answers came before, the *)
(* tables hold what the schema allows and what the transactions in          *)
(* embedded.py write: version numbers start at 1, counts are numbers, and   *)
(* every pointer has the form of one.                                       *)
THEOREM TypeCorrect == Spec => []TypeOK
<1>1. IInv => TypeOK
  BY DEF IInv
<1> QED BY <1>1, Invariance, PTL

(* The committed tables and those of an open transaction always agree with  *)
(* themselves: flag and pointer name the same live version, the UNIQUE      *)
(* constraints hold without being invoked, a live passage has its           *)
(* document's audience, and supersedes_id leads to an earlier version.      *)
THEOREM StoreConsistent == Spec => []Consistent
<1>1. IInv => Consistent
  BY DEF IInv, Sound, Consistent
<1> QED BY <1>1, Invariance, PTL

(* The answer log, the manifest and the counts a reader is shown all quote  *)
(* the active release row; it is true of what retrieval serves, although    *)
(* apply_delta counts it through two different joins.                       *)
THEOREM ReleaseTold == Spec => []ReleaseRecordsLive
<1>1. IInv => ReleaseRecordsLive
  BY DEF IInv
<1> QED BY <1>1, Invariance, PTL
=============================================================================
