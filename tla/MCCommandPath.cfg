SPECIFICATION MCSpec
CONSTANTS
    p1 = p1
    p2 = p2
    o1 = o1
    o2 = o2
    empty = empty
    k1 = k1
    k2 = k2
    None = None
    Proc = {p1, p2}
    Key = {k1, k2}
    Blob = {o1, o2, empty}
    Output <- MCOutput
    TTL = 2
    Patience = 1
    Capacity = 1
    MaxClock = 3
    MaxDamaged = 1
    Nothing = Nothing
    Procs = {"reader", "publisher"}
    Bundled = {"publisher"}
    Publishers = {"publisher"}
    Contents = {"x", "y"}
    Bundles <- Signed
    Manifests <- Published
    MyKey <- PublisherKey
    Lifetime = 1
    MaxTime = 2
    MaxEdits = 1
    MaxKills = 1
SYMMETRY Symmetry
INVARIANTS StoreTypeOK RowsComplete AckedHeld DisputedClosed WithinCapacity
PROPERTIES TeamRunIsTrusted
CHECK_DEADLOCK FALSE
