CONSTANTS
    p1 = p1
    p2 = p2
    w0 = w0
    w1 = w1
    b1 = b1
    b2 = b2
    b3 = b3
    lp1 = lp1
    lp2 = lp2
    s0 = s0
    s1 = s1
    s2 = s2
    s3 = s3
    s4 = s4
    t1 = t1
    t2 = t2
    r1 = r1
    r2 = r2
    none = none
    None = none
    Product <- TwoProducts
    Warehouse <- TwoWarehouses
    Batch = {b1, b2}
    Sale = {s3, s4}
    Thread = {t1}
    DefaultWarehouse = w0
    OldLedger <- SoldOut
    LegacyId <- LegacyIds
    Pushed <- PushedOldRows
    PushedBatch <- NoBatches
    MaxQty = 2
    MaxLines = 2
    MaxRows = 6
    MergeLocks = TRUE
SPECIFICATION Spec
CHECK_DEADLOCK FALSE
INVARIANT Projection
