CONSTANTS
    public = public
    trade = trade
    Urls = {p}
    WebUrls = {p}
    StaffUrls = {}
    PageHashes = {h1, h2}
    StaffHashes = {n1}
    Hashes <- MCHashes
    Audiences = {public, trade}
    StaffAudience <- MCStaffAudience
    Caveated = {}
    Configs = {c1}
    SnapshotIds = {s1, s2}
    ExclusionLists = {x1}
    Readers = {}
    Builders = {b1, b2}
    RebuildFlags = {FALSE}
    Updates <- MCUpdates
    BootstrapRows = {}
    MaxUpdates = 0
    MaxBootstrap = 0
    MaxCrawls = 2
    MaxListed = 1
    NoDocument = NoDocument
    NoSnapshot = NoSnapshot
    Unchecked = Unchecked
    NoDelta = NoDelta
    NoRead = NoRead
    Absent = Absent
SPECIFICATION IndexSpec
SYMMETRY Symmetry
INVARIANT CrawlsAdvance
