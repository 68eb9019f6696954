SPECIFICATION Spec
CONSTANTS
    r1 = r1  r2 = r2  k1 = k1  k2 = k2
    Requests = {r1, r2}
    Calls = {k1, k2}
    CallId <- MCCallId
    TextWire = TRUE
INVARIANTS ResponseResolvesItsRequest
CHECK_DEADLOCK FALSE
