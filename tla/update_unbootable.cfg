CONSTANTS
    MaxVersion = 3
    MaxRows = 1
    Kinds = {"cut"}
    MaxFaults = 1
    Good = {1, 2}
    Request = {r1}
    Nothing = Nothing
    Partial = Partial
SPECIFICATION Spec
CHECK_DEADLOCK FALSE
INVARIANT Bootable
