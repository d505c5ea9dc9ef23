------------------------- MODULE MCIndexPublication -------------------------
EXTENDS IndexPublication, TLC

CONSTANT trade

MCHashes == PageHashes \cup StaffHashes

MCUpdates ==
    [url : WebUrls, hash : PageHashes, audience : {public}, vectors : Configs,
     caveats : BOOLEAN, entry : 1..MaxListed]
    \cup [url : StaffUrls, hash : StaffHashes, audience : Audiences,
          vectors : Configs, caveats : BOOLEAN, entry : {0}]

MCStaffAudience == [h \in StaffHashes |-> trade]

Symmetry == Permutations(PageHashes)
                \cup Permutations(SnapshotIds) \cup Permutations(Builders)
=============================================================================
