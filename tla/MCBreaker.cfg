\* TLC checks the safety properties on all reachable states, fair behaviour or not.
SPECIFICATION FairSpec
CONSTANTS
    Requests = {r1, r2, r3}
    N = 2
    Cooldown = 3
    MaxAttempts = 2
PROPERTIES KeepsPromise NeverWedged Recovers
