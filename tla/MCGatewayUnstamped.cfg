SPECIFICATION RSpec
CONSTANTS
    None = None
    Call = {c1, c2}
    Content = {v1, v2}
    Binding <- MCBinding
    Request <- MCBinding
    RequestOf <- MCRequestOf
    Time <- MCTime
    Window <- MCWindow
    LeaseTTL = 1
    Validity = 1
    FilesFail = FALSE
    Stamped = {v2}
    MaxClock = 2
    MaxWrites = 2
CHECK_DEADLOCK FALSE
INVARIANT TrueResults
