\* Three concurrent requests, a walk in pages of one and two.
SPECIFICATION MCSpec
CONSTANTS
    Requests = {r1, r2, r3}
    Tenants = {a, b}
    Names = {1, 2, 3, 4}
    Invalid = {4}
    Asked = {1, 2, 4}
    Nobody = nobody
    Lister = a
    PageSizes = {1, 2}
SYMMETRY Symmetry
INVARIANTS TypeOK FailedClaimGone RegisteredExists ListedOnce
PROPERTY OnlyOwnersRemove
CHECK_DEADLOCK FALSE
