SPECIFICATION Spec
CONSTANTS
    Requests = {"r1", "r2"}
INVARIANT GracefulShutdown
CHECK_DEADLOCK FALSE
