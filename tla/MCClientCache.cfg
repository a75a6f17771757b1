\* Two concurrent requests, caches of one to three clients.
SPECIFICATION CacheSpec
CONSTANTS
    Callers = {r1, r2}
    Backend <- MCBackend
    Sizes = {0, 1, 3}
    MaxClients = 3
    MaxGets = 4
SYMMETRY Symmetry
INVARIANTS CacheTypeOK RightClient Converges
CHECK_DEADLOCK FALSE
