CONSTANTS
    public = public
    trade = trade
    Urls = {p}
    WebUrls = {p}
    StaffUrls = {}
    PageHashes = {h1, h2}
    StaffHashes = {n1}
    Hashes <- MCHashes
    Audiences = {public, trade}
    StaffAudience <- MCStaffAudience
    Caveated = {}
    Configs = {c1}
    SnapshotIds = {s1, s2, s3}
    ExclusionLists = {x1}
    Readers = {r1}
    Builders = {b1, b2}
    RebuildFlags = {FALSE}
    Updates <- MCUpdates
    BootstrapRows = {}
    MaxUpdates = 0
    MaxBootstrap = 0
    MaxCrawls = 2
    MaxListed = 2
    NoDocument = NoDocument
    NoSnapshot = NoSnapshot
    Unchecked = Unchecked
    NoDelta = NoDelta
    NoRead = NoRead
    Absent = Absent
SPECIFICATION MCSpec
SYMMETRY Symmetry
INVARIANTS IndexTypeOK NoLostRelease NoDuplicateVersions AnswersExplicable
PROPERTIES MergesInOrder
