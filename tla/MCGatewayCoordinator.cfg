SPECIFICATION Spec
CONSTANTS
    c1 = c1
    c2 = c2
    c3 = c3
    b1 = b1
    k1 = k1
    k2 = k2
    v1 = v1
    v2 = v2
    None = None
    Call = {c1, c2, c3}
    Binding = {b1}
    Request = {k1, k2}
    Content = {v1, v2}
    RequestOf <- MCRequestOf
    Time <- MCTime
    Window <- MCWindow
    LeaseTTL = 1
SYMMETRY MCSymmetry
CHECK_DEADLOCK FALSE
INVARIANTS TypeOK SingleFlight WriteOnce Generations ResultsBound NoOrphanWait Agreement
PROPERTIES QuarantineIsForGood StaleLeaderStaysOut ImplementsExactReuse
