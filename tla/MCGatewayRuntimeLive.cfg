SPECIFICATION FairRSpec
CONSTANTS
    None = None
    Call = {c1, c2}
    Content = {v1}
    Binding <- MCBinding
    Request <- MCBinding
    RequestOf <- MCRequestOf
    Time <- MCTime
    Window <- MCWindow
    LeaseTTL = 2
    Validity = 3
    FilesFail = TRUE
    Stamped = {v1}
    MaxClock = 2
    MaxWrites = 0
CHECK_DEADLOCK FALSE
PROPERTY EveryCallReturns
