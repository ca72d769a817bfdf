SPECIFICATION FairSpec
CONSTANTS
    Product <- TwoCards
    Batch <- OneBatch
    Of <- OfFirst
    Client = {d1}
    Code = {x}
    NoCode = NoCode
    None = None
    PageSize = 1
    MaxChanges = 5
CHECK_DEADLOCK FALSE
INVARIANT PushesMerge
PROPERTIES ServerDecides Converges
