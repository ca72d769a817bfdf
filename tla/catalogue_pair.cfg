SPECIFICATION Spec
CONSTANTS
    Product <- TwoCards
    Batch <- OneBatch
    Of <- OfFirst
    Client = {d1, d2}
    Code = {x}
    NoCode = NoCode
    None = None
    PageSize = 1
    MaxChanges = 3
SYMMETRY Symmetric
CHECK_DEADLOCK FALSE
INVARIANT PushesMerge
PROPERTY ServerDecides
