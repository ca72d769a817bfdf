CONSTANTS
    p1 = p1
    w1 = w1
    w2 = w2
    b1 = b1
    b2 = b2
    b3 = b3
    b4 = b4
    s0 = s0
    s1 = s1
    s2 = s2
    t1 = t1
    t2 = t2
    none = none
    None = none
    Product = {p1}
    Warehouse = {w1, w2}
    Batch = {b1, b2, b3, b4}
    Sale = {s0, s1, s2}
    Currency = {"RUB", "EUR"}
    Thread = {t1, t2}
    DEFAULT_CURRENCY = "RUB"
    DefaultWarehouse = w1
    WarehouseCurrency <- Start
    Card <- Cards
    OldLedger <- Ledger0
    OldCash <- Cash0
    OldBatches <- Batches0
    Basket <- Baskets
    Delivery <- Deliveries
    Haul <- Hauls
    Category = {"withdrawal_other", "deposit_correction"}
    Amount = {2}
    Pieces = {1, 2}
    MaxDay = 2
    MaxServed = 2
    MaxEdits = 1
    LIST_PAGE_SIZE = 2
SPECIFICATION Spec
SYMMETRY Threads
CHECK_DEADLOCK FALSE
INVARIANTS SaleCash ReportsAgree
PROPERTIES DayIsClosed ValueFollowsGoods OverdrawnKnowingly
