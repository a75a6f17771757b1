SPECIFICATION Spec
CONSTANTS
    Requests <- MCRequests
    MaxObjects = 2
INVARIANT HiddenIsDenied
INVARIANT PermittedSent
INVARIANT Accounted
\* the handler serves one request and returns
CHECK_DEADLOCK FALSE
