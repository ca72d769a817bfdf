CONSTANTS
    MaxVersion = 3
    MaxRows = 1
    Kinds = {"click"}
    MaxFaults = 2
    Good = {1, 2}
    Request = {r1}
    Nothing = Nothing
    Partial = Partial
SPECIFICATION Spec
CHECK_DEADLOCK FALSE
INVARIANT AppComplete
