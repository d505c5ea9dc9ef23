---------------------------- MODULE ReleaseChain ----------------------------
(***************************************************************************)
(* What the ingestion pipeline promises of the index, with no builder, no  *)
(* transaction and no table in it: the live index moves from release to    *)
(* release, and each release is one complete set of sources merged onto    *)
(* exactly the release before it.                                          *)
(*                                                                         *)
(* A source that failed keeps what was live.  A URL that a complete crawl  *)
(* and the staff directory no longer hold is withdrawn, and a crawl with   *)
(* errors withdraws nothing.  Everything live was embedded under the       *)
(* configuration of the release that serves it.                            *)
(***************************************************************************)
EXTENDS Integers, Sequences

CONSTANTS
    Urls, PageHashes, StaffHashes, Configs, SnapshotIds,
    CrawlReleases,    \* what a crawl may bring back
    StaffAudience,    \* the audience an authored source declares
    public, Absent, NoSnapshot

VARIABLES
    offered,          \* the crawl releases completed so far, oldest first
    live,             \* what each URL serves, or Absent
    current,          \* the release being served
    source            \* the crawl it was merged from, an index of offered

vars == <<offered, live, current, source>>

Note(hash, config) == [hash |-> hash, audience |-> StaffAudience[hash],
                       vectors |-> config]

Page(hash, config) == [hash |-> hash, audience |-> public, vectors |-> config]

Fetched(crawl) == {u \in DOMAIN crawl.pages : crawl.pages[u] # Absent}

Merge(crawl, notes, failed, config) ==
    [u \in Urls |->
        IF u \in DOMAIN notes THEN Note(notes[u], config)
        ELSE IF u \in Fetched(crawl) \ failed THEN Page(crawl.pages[u], config)
        ELSE IF u \in failed \/ crawl.errors # {} THEN live[u]
        ELSE Absent]

Init ==
    /\ \E c \in CrawlReleases : offered = <<c>>
    /\ live = [u \in Urls |-> Absent]
    /\ current = NoSnapshot
    /\ source = 0

Offer == /\ \E c \in CrawlReleases : offered' = Append(offered, c)
         /\ UNCHANGED <<live, current, source>>

(* Only a page of this crawl can fail.  With a failed page the              *)
(* configuration cannot change: some of the index would keep vectors of the *)
(* old one.                                                                 *)
PublishFrom(i, config, notes, failed) ==
    LET crawl == offered[i] IN
    /\ DOMAIN notes \cap Fetched(crawl) = {}
    /\ failed \subseteq Fetched(crawl) \cup crawl.errors
    /\ crawl.errors \subseteq failed
    /\ live' = Merge(crawl, notes, failed, config)
    /\ \A u \in Urls : live'[u] # Absent => live'[u].vectors = config
    /\ source' = i

Publish ==
    /\ current' \in SnapshotIds \ {current}
    /\ UNCHANGED offered
    /\ \E i \in DOMAIN offered, config \in Configs, staffed \in SUBSET Urls :
       \E notes \in [staffed -> StaffHashes], failed \in SUBSET Urls :
           PublishFrom(i, config, notes, failed)

Next == Offer \/ Publish

Spec == Init /\ [][Next]_vars
=============================================================================
