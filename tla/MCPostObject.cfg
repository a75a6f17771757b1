\* Two concurrent uploads of any two forms.
SPECIFICATION Spec
CONSTANTS
    Uploads = {u1, u2}
    Form <- MCForm
    Secret = "s"
    Target <- MCTarget
    Now = 5
    Skew = 1
    MaxAge = 3
    MaxPostFields = 5
    MaxConditions = 5
    Unlimited = 9
SYMMETRY Symmetry
INVARIANTS TypeOK StoredAsSigned AcceptedInRange AcceptedKept
\* an upload ends when it is answered
CHECK_DEADLOCK FALSE
