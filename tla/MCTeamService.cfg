SPECIFICATION MCSpec
CONSTANTS
    u1 = u1
    u2 = u2
    del = del
    swp = swp
    Nothing = Nothing
    Trusters = {"trust", "other"}
    Putters = {u1, u2, "put"}
    Getters = {"get"}
    Bundles <- SignedBundles
    Manifests <- SignedManifests
    Mortal <- Expiring
    MaxInc = 2
    Writers = {1, 2}
    Removers = {del}
    CronPasses = {u1, u2}
    GraveSweepers = {swp}
    MaxGen = 2
    MaxPuts = 2
    MaxFails = 1
    ChunksPerLease = 2
    Uploaders = {u1, u2}
    Deleters = {del}
    Reconcilers = {"rec"}
    Collectors = {"gc"}
    Sweepers = {swp}
    Readers = {"get"}
    Keys = {"key"}
    MaxIncarnations = 2
    MaxOps = 2
    MaxLoss = 1
    CandidateLimit = 2
SYMMETRY Symmetry
PROPERTIES BlobsAreSafe GenerationsAreApart ReleasesAreTrusted
CHECK_DEADLOCK FALSE
