SPECIFICATION Spec
CONSTANTS
    d1 = d1
    d2 = d2
    receipt = receipt
    sold = sold
    cash = cash
    other = other
    product = product
    batch = batch
    sale = sale
    customer = customer
    Device <- MCDevice
    Row <- PairRow
    Ref <- PairRef
    Home <- PairHome
    CashRow <- OneCash
    Parents <- PairParents
    Enforced <- PairEnforced
    MaxSchema = 2
    MaxSeq = 2
    MaxLate = 1
    MaxRestores = 0
INVARIANTS
    TypeOK
    StampedStored
    NoColumnDropped
    ServerClosed
    AlwaysMergeable
PROPERTY Delivers
