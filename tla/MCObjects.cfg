SPECIFICATION Spec
CONSTANTS
    r1 = r1
    r2 = r2
    r3 = r3
    Requests = {r1, r2, r3}
    Old = Old
    Ops <- MCOps
    Keys = {"k", "s"}
    KeyMap <- MCKeyMap
    KeyNames <- MCKeyNames
    DefaultKey = "b0"
    MaxFaults = 2
    MaxActive = 2
    Mapper = TRUE
    MaxSDK = 2
SYMMETRY Symmetry
INVARIANT CompletedIsListed
INVARIANT AnswersTruthful
INVARIANT KeysHidden
PROPERTY ConditionsHold
PROPERTY LockedStays
\* every request is done in the end
CHECK_DEADLOCK FALSE
