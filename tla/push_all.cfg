SPECIFICATION FairSpec
CONSTANTS
    d1 = d1
    d2 = d2
    receipt = receipt
    sold = sold
    cash = cash
    other = other
    product = product
    batch = batch
    sale = sale
    customer = customer
    Device <- OneDevice
    Row <- SoloRow
    Ref <- SoloRef
    Home <- SoloHome
    CashRow <- NoCash
    Parents <- SoloParents
    Enforced <- SoloEnforced
    MaxSchema = 2
    MaxSeq = 2
    MaxLate = 1
    MaxRestores = 1
INVARIANTS
    IndInv
    AlwaysMergeable
PROPERTIES Delivers Arrives
