CONSTANTS
    public = public
    Urls = {u1, u2}
    Hashes = {h1}
    Audiences = {public, staff}
    Configs = {c1}
    SnapshotIds = {s1, s2}
    ExclusionLists = {x1}
    Readers = {}
    Updates <- MCUpdates
    BootstrapRows <- MCRows
    MaxUpdates = 2
    MaxBootstrap = 2
    NoDocument = NoDocument
    NoSnapshot = NoSnapshot
    Unchecked = Unchecked
    NoDelta = NoDelta
    NoRead = NoRead
SPECIFICATION Spec
SYMMETRY Symmetry
CHECK_DEADLOCK FALSE
INVARIANTS TypeOK Consistent ReleaseRecordsLive
