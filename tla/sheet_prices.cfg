\* A card is made while a row of the sheet is being resolved and booked.
CHECK_DEADLOCK FALSE
SPECIFICATION SheetSpec
CONSTANTS
    SheetCode = {x}
    Month = {1, 2}
    NoMark = NoMark
    Mark = {dented, NoMark}
    MaxRows = 3
    MaxLots = 4
    MaxRuns = 2
PROPERTIES OwnPrices
