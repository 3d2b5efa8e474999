SPECIFICATION Spec
CONSTANTS
    Call = {c1, c2}
    Reference = {c2}
    Files = 2
    Content = {o1, o2}
    None = None
    FineClock = TRUE
    MaxWrites = 2
    MaxDamage = 1
INVARIANT EngineIsTrue
CHECK_DEADLOCK FALSE
