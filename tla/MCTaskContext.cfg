SPECIFICATION MCSpec
CONSTANTS
    r1 = r1
    r2 = r2
    Recipients = {r1, r2}
    Listeners = {r1}
    Cited = {1}
    MaxValue = 2
    DeltaLimit = 6
    MaxEvents = 4
    MaxSeq = 5
    MaxWrites = 2
    MaxGeneration = 2
    Call = {c1, c2}
    MaxLife = 3
    MaxComp = 1
    PendingRoom = 1
    RetiredRoom = 1
    id1 = id1
    id2 = id2
    id3 = id3
    prompt = prompt
    work = work
    Claim = Claim
    None = None
    Unused = Unused
SYMMETRY Symmetry
PROPERTIES TasksAreSound ContextIsKept DeliveryIsCurrent
CHECK_DEADLOCK FALSE
