CONSTANTS
    p1 = p1
    p2 = p2
    w0 = w0
    w1 = w1
    b1 = b1
    b2 = b2
    b3 = b3
    lp1 = lp1
    lp2 = lp2
    s0 = s0
    s1 = s1
    s2 = s2
    s3 = s3
    s4 = s4
    t1 = t1
    t2 = t2
    r1 = r1
    r2 = r2
    none = none
    None = none
    Product <- TwoProducts
    Warehouse <- OneWarehouse
    Batch = {b1, b2}
    Sale = {s3}
    Thread = {t1, t2}
    DefaultWarehouse = w0
    OldLedger <- SoldOut
    LegacyId <- LegacyIds
    Pushed <- PushedRows
    PushedBatch <- PushedBatches
    MaxQty = 1
    MaxLines = 1
    MaxRows = 6
    MergeLocks = TRUE
SPECIFICATION Spec
CHECK_DEADLOCK FALSE
INVARIANT ReturnsWithinSold
