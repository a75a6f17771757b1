SPECIFICATION BSpec
CONSTANTS
    Byte = {"a", "b"}
    Payload <- MCPayload
    K = 2
    Cut <- MCCut
    MaxLength = 4
    MaxRead = 3
    MaxXML = 3
INVARIANT BodyIntegrity
\* a body that was handed on, refused or failed is the end
CHECK_DEADLOCK FALSE
