\* A sheet that is booked, and booked again, leaves nothing to do.
CHECK_DEADLOCK FALSE
SPECIFICATION SheetSpec
CONSTANTS
    SheetCode = {x}
    Month = {1, 2}
    NoMark = NoMark
    Mark = {dented, NoMark}
    MaxRows = 3
    MaxLots = 4
    MaxRuns = 2
INVARIANT Predicted
PROPERTY RulesKept
