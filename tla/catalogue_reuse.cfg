SPECIFICATION FairSpec
CONSTANTS
    Product <- TwoCards
    Batch <- NoBatch
    Of <- OfNone
    Client = {d1}
    Code = {x, y}
    NoCode = NoCode
    None = None
    PageSize = 2
    MaxChanges = 3
CHECK_DEADLOCK FALSE
PROPERTY AlwaysConverges
