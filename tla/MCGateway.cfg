\* One request, with up to two changes of the store under it.
SPECIFICATION Spec
CONSTANTS
    Procs = {p}
    Request <- MCRequest
    Key <- MCKey
    Bucket <- MCBucket
    MaxChanges = 2
INVARIANTS OnlyAuthorized CORSWhereVisible ObservedOnce PanicAnswered
PROPERTY NoDocumentAfterStart
CHECK_DEADLOCK FALSE
