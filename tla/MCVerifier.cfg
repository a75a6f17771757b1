\* One request of every kind, and another to share the cache with.
SPECIFICATION VSpec
CONSTANTS
    r1 = r1
    r2 = r2
    Requests <- MCRequests
    KeyIDs = {"a", "b"}
    Remote = {"b"}
    Scopes <- MCScopes
    Slots = {1}
    slotOf <- MCSlotOf
    MaxGen = 1
    MaxGets = 2
    Inputs <- MCInputs
    TokenOf <- MCTokenOf
    NoToken = "none"
    Region = "us"
    AnyRegion = "any"
    Amz <- MCAmz
    AuthParams <- MCAuthParams
    lower <- MCLower
    Skew = 1
    Day = 2
    Week = 2
    Second = 4
    Half = 32
    MaxNow = 3
INVARIANTS KeyIsCurrent AcceptedInTime ReadAsSigned SignedByCurrentSecret DerivedForRecentDates
CHECK_DEADLOCK FALSE
