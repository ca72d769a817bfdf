------------------------------- MODULE Stock -------------------------------
(***************************************************************************)
(* The stock of one database: the append-only operations ledger, the two   *)
(* cached projections of it (products.quantity and batches.quantity), and  *)
(* the requests that write it (receipts, sales, returns, transfers,        *)
(* write-offs, corrections, deletions, and the merge of a pushed batch).   *)
(*                                                                         *)
(* The routes run in a threadpool, each with a session of its own.  A      *)
(* request first reads and validates, outside any transaction that would   *)
(* protect what it read, and then writes everything in one transaction     *)
(* through record_operation.  So a request is two steps here: a check      *)
(* that leaves a plan, and a commit that carries the plan out, increments  *)
(* (SET quantity = quantity + n) applied to the values found then.         *)
(*                                                                         *)
(* Left out: money, users and their warehouses, and the card and batch     *)
(* fields no guard reads.  A product that no row names and that holds      *)
(* nothing stands for a card not yet created as well.                      *)
(***************************************************************************)
EXTENDS Integers, Sequences, FiniteSets, Bags, Functions, SequencesExt

CONSTANTS
    Product, Warehouse,
    Batch,             \* ids a new batch may take
    Sale,              \* ids a new sale may take
    Thread,            \* requests served at the same time
    None,              \* NULL
    DefaultWarehouse,
    OldLedger,         \* the rows written before batches, a sequence
    LegacyId,          \* the id migration 0008 derives for a product's batch
    Pushed,            \* rows of other devices that may be pushed
    PushedBatch,       \* the batches those rows bring, by id
    MaxQty,            \* bound: quantity typed into a form
    MaxLines,          \* bound: lines of a basket
    MaxRows,           \* bound: no request starts with this many rows stored
    MergeLocks         \* a merge keeps other writers out (SQLite)

ASSUME Bounds == {MaxQty, MaxLines, MaxRows} \subseteq Nat /\ MergeLocks \in BOOLEAN

(* The ids are of one kind each, and the legacy id of a product is its own. *)
ASSUME Ids ==
    /\ DefaultWarehouse \in Warehouse /\ Warehouse \cap Product = {}
    /\ IsFiniteSet(Product) /\ DOMAIN LegacyId = Product
    /\ \A p, q \in Product : LegacyId[p] = LegacyId[q] => p = q
    /\ LET old == {LegacyId[p] : p \in Product}
       IN  /\ Batch \cap (old \cup DOMAIN PushedBatch) = {}
           /\ (Product \cup {None}) \cap (Batch \cup old \cup DOMAIN PushedBatch) = {}

(* Rows older than batches name none. *)
ASSUME OldRows ==
    /\ OldLedger \in Seq(ToSet(OldLedger))
    /\ \A o \in ToSet(OldLedger) :
          o.product \in Product /\ o.qty \in Int /\ o.batch = None

(* What other devices push fits together and what is stored here: a batch  *)
(* comes along with the rows that name it, and a legacy batch made by      *)
(* migration 0008 is of the same product everywhere.                       *)
ASSUME PushesFit ==
    /\ IsFiniteSet(Pushed)
    /\ \A o \in Pushed :
          /\ o.product \in Product /\ o.qty \in Int
          /\ o.batch # None =>
                o.batch \in DOMAIN PushedBatch /\ PushedBatch[o.batch].product = o.product
    /\ \A b \in DOMAIN PushedBatch :
          /\ PushedBatch[b] \in [product : Product, warehouse : Warehouse,
                                 legacy : BOOLEAN, quantity : Int]
          /\ \A p \in Product : LegacyId[p] = b => PushedBatch[b].product = p

VARIABLES
    ledger,    \* bag of operations
    batches,   \* the batches that exist, by id
    stock,     \* products.quantity
    deleted,   \* products and warehouses with deleted_at set
    request    \* what each thread is about to write

vars == <<ledger, batches, stock, deleted, request>>

Qty == 1..MaxQty

(* Rows written here differ in id, which nothing reads: the ledger is a    *)
(* bag.  Rows of other devices keep theirs.                                *)
OpOf(id, type, p, q, b, s) ==
    [id |-> id, type |-> type, product |-> p, qty |-> q, batch |-> b, sale |-> s]
Op(type, p, q, b, s) == OpOf(None, type, p, q, b, s)

NewBatch(p, w, legacy) ==
    [product |-> p, warehouse |-> w, legacy |-> legacy, quantity |-> 0]

(* The batches that exist together with new ones. *)
Born(b, batch) == [x \in {b} |-> batch]

With(held, births) ==
    [b \in DOMAIN held \cup DOMAIN births |->
        IF b \in DOMAIN held THEN held[b] ELSE births[b]]

-----------------------------------------------------------------------------
(* Sums over some rows of a bag of operations *)
Total(B, S) == SumFunctionOnSet([o \in S |-> o.qty * B[o]], S)

ComputeStock(B, p) == Total(B, {o \in BagToSet(B) : o.product = p})

(* Rows of a product that name no batch: those older than batches. *)
NullBucket(B, p) == Total(B, {o \in BagToSet(B) : o.product = p /\ o.batch = None})

OfBatch(B, b) == Total(B, {o \in BagToSet(B) : o.batch = b})

ComputeBatchStock(B, held, b) ==
    OfBatch(B, b) + (IF held[b].legacy THEN NullBucket(B, held[b].product) ELSE 0)

Own(held, p) == {b \in DOMAIN held : held[b].product = p}

(* What recompute_derived asserts of the values it has just computed. *)
Balanced(B, held) ==
    \A p \in Product :
        ComputeStock(B, p) =
            SumFunctionOnSet([b \in Own(held, p) |-> ComputeBatchStock(B, held, b)],
                             Own(held, p))
            + (IF \E b \in Own(held, p) : held[b].legacy THEN 0 ELSE NullBucket(B, p))

OfSale(B, s, p, types) ==
    Total(B, {o \in BagToSet(B) : o.sale = s /\ o.product = p /\ o.type \in types})

(* Mutant: what was already returned is not counted. *)
SoldAtAll(B, s, p) == -OfSale(B, s, p, {"sale"})

Returnable(B, s, p) == -OfSale(B, s, p, {"sale", "return"})

LegacyBatches(p) == {b \in Own(batches, p) : batches[b].legacy}

-----------------------------------------------------------------------------
(* The first half of a request: read, validate, plan *)
NoRequest == [kind |-> "none", ops |-> <<>>, births |-> << >>,
              confirm |-> FALSE, counted |-> None, drop |-> None,
              overwrite |-> << >>]

Idle(t) == request[t].kind = "none"

(* A plan: rows to write, batches to create, the operator's confirmation. *)
Plan(kind, ops, births, confirm) ==
    [NoRequest EXCEPT !.kind = kind, !.ops = ops, !.births = births,
                      !.confirm = confirm]

Plans(t, plan) ==
    /\ Idle(t)
    /\ BagCardinality(ledger) < MaxRows
    /\ request' = [request EXCEPT ![t] = plan]
    /\ UNCHANGED <<ledger, batches, stock, deleted>>

FreshBatch == Batch \ (DOMAIN batches \cup
                       UNION {DOMAIN request[t].births : t \in Thread})
FreshSale == Sale \ ({o.sale : o \in BagToSet(ledger)} \cup
                     UNION {{o.sale : o \in ToSet(request[t].ops)} : t \in Thread})

(* Into a new batch of an open warehouse, or as a top-up of a batch there. *)
CheckReceipt(t, p, w, q) ==
    LET Into(b, births) ==
            Plans(t, Plan("receipt", <<Op("receipt", p, q, b, None)>>, births, TRUE))
    IN  /\ {p, w} \cap deleted = {}
        /\ \/ \E b \in FreshBatch : Into(b, Born(b, NewBatch(p, w, FALSE)))
           \/ \E b \in Own(batches, p) : batches[b].warehouse = w /\ Into(b, << >>)

(* Mutant: each line of a basket is compared with the stock on its own. *)
CoversEachLine(ops) ==
    \A i \in DOMAIN ops : -ops[i].qty <= batches[ops[i].batch].quantity

(* What all lines together take from a batch is there. *)
Covers(ops) ==
    \A b \in {o.batch : o \in ToSet(ops)} :
        -OfBatch(ToBag(ops), b) <= batches[b].quantity

(* A basket of lines, each from a picked batch, under one new sale. *)
CheckSale(t, s, lines, confirm) ==
    LET ops == [i \in DOMAIN lines |->
                   Op("sale", batches[lines[i].batch].product, -lines[i].qty,
                      lines[i].batch, s)]
    IN  /\ \A i \in DOMAIN ops : ops[i].product \notin deleted
        /\ confirm \/ Covers(ops)
        /\ Plans(t, Plan("sale", ops, << >>, confirm))

(* The goods go back to the batch they were sold from; goods sold before   *)
(* batches to a legacy batch of the product, created when there is none.   *)
CheckReturn(t, origin, q) ==
    LET p == origin.product
        Back(b, births) ==
            Plans(t, Plan("return", <<Op("return", p, q, b, origin.sale)>>, births, TRUE))
    IN  /\ origin.type = "sale" /\ origin.sale # None
        /\ q <= Returnable(ledger, origin.sale, p)
        /\ \/ origin.batch # None /\ Back(origin.batch, << >>)
           \/ /\ origin.batch = None
              /\ \E b \in LegacyBatches(p) : Back(b, << >>)
           \/ /\ origin.batch = None
              /\ LegacyBatches(p) = {}
              /\ \E b \in FreshBatch : Back(b, Born(b, NewBatch(p, DefaultWarehouse, TRUE)))

(* Out of a batch into a new one in an open warehouse (the same one when   *)
(* the operator splits a batch).                                           *)
CheckTransfer(t, b, w, q, confirm) ==
    LET p == batches[b].product
    IN  /\ {p, w} \cap deleted = {}
        /\ confirm \/ q <= batches[b].quantity
        /\ \E n \in FreshBatch :
              Plans(t, Plan("transfer",
                            <<Op("transfer", p, -q, b, None), Op("transfer", p, q, n, None)>>,
                            Born(n, NewBatch(p, w, FALSE)), confirm))

CheckWriteoff(t, b, q, confirm) ==
    /\ batches[b].product \notin deleted
    /\ confirm \/ q <= batches[b].quantity
    /\ Plans(t, Plan("writeoff", <<Op("writeoff", batches[b].product, -q, b, None)>>,
                     << >>, confirm))

CheckCorrection(t, b, d, confirm, counted) ==
    /\ batches[b].product \notin deleted
    /\ d # 0
    /\ confirm \/ -d <= batches[b].quantity
    /\ Plans(t, [Plan("correction", <<Op("correction", batches[b].product, d, b, None)>>,
                      << >>, confirm) EXCEPT !.counted = counted])

(* Mutant: the count is compared with the product, not with the batch. *)
CheckCountOfProduct(t, b, n, confirm) ==
    CheckCorrection(t, b, n - stock[batches[b].product], confirm, n)

(* A correction by the counted quantity. *)
CheckCount(t, b, n, confirm) ==
    CheckCorrection(t, b, n - batches[b].quantity, confirm, n)

(* What a product or a warehouse holds, by the cached quantities. *)
OnHand(x) ==
    IF x \in Product THEN stock[x]
    ELSE SumFunctionOnSet([b \in DOMAIN batches |-> batches[b].quantity],
                          {b \in DOMAIN batches : batches[b].warehouse = x})

(* quick_delete_product and soft_delete_warehouse: not with stock on hand, *)
(* and the last open warehouse only when confirmed.                        *)
CheckDelete(t, x, confirm) ==
    /\ x \notin deleted
    /\ OnHand(x) <= 0
    /\ x \in Product \/ confirm \/ Cardinality(Warehouse \ deleted) > 1
    /\ Plans(t, [Plan("delete", <<>>, << >>, confirm) EXCEPT !.drop = x])

-----------------------------------------------------------------------------
(* The second half: one transaction *)
MergeUnderWay == \E t \in Thread : request[t].kind = "merge"
Unlocked == MergeLocks => ~MergeUnderWay

Done(t) == request' = [request EXCEPT ![t] = NoRequest]

(* The increments of record_operation, over all rows of the transaction. *)
HeldAfter(held, ops) ==
    [b \in DOMAIN held |-> [held[b] EXCEPT !.quantity = @ + OfBatch(ops, b)]]

(* record_operation reads the product from the session: the row that the   *)
(* check loaded, so a deletion since then goes unseen, except in a return, *)
(* which loads the product only now.                                       *)
ProductAllows(r) == r.kind = "return" => r.ops[1].product \notin deleted

Commit(t) ==
    LET r == request[t]
        ops == ToBag(r.ops)
    IN  /\ r.kind \notin {"none", "merge", "delete"}
        /\ ProductAllows(r)
        /\ Unlocked
        /\ ledger' = ledger (+) ops
        /\ batches' = HeldAfter(With(batches, r.births), ops)
        /\ stock' = [p \in Product |-> stock[p] + ComputeStock(ops, p)]
        /\ Done(t)
        /\ UNCHANGED deleted

Delete(t) ==
    /\ request[t].kind = "delete"
    /\ Unlocked
    /\ deleted' = deleted \cup {request[t].drop}
    /\ Done(t)
    /\ UNCHANGED <<ledger, batches, stock>>

(* The delete button of a product's own page asks nothing, so its read *)
(* and its write are one step.                                             *)
SoftDelete(t, p) ==
    /\ Idle(t)
    /\ p \notin deleted
    /\ Unlocked
    /\ deleted' = deleted \cup {p}
    /\ UNCHANGED <<ledger, batches, stock, request>>

RestoreDeleted(t, x) ==
    /\ Idle(t)
    /\ x \in deleted
    /\ Unlocked
    /\ deleted' = deleted \ {x}
    /\ UNCHANGED <<ledger, batches, stock, request>>

(* The transaction is rolled back: two threads took the same seq, the      *)
(* product of a return is deleted, the lock was not to be had, a crash.    *)
Fail(t) ==
    /\ ~Idle(t)
    /\ Done(t)
    /\ UNCHANGED <<ledger, batches, stock, deleted>>

-----------------------------------------------------------------------------
(* A push: apply_merge appends the rows it does not have, with the batches *)
(* they bring, and sets every cached quantity that differs from the        *)
(* recomputed one; a batch that does not balance is refused.  The plan     *)
(* keeps what the recomputation read.  Every merge here brings a new row.  *)
Recomputed(B, held) ==
    [x \in {p \in Product : ComputeStock(B, p) # stock[p]} \cup
           {b \in DOMAIN held : ComputeBatchStock(B, held, b) # held[b].quantity}
        |-> IF x \in Product THEN ComputeStock(B, x) ELSE ComputeBatchStock(B, held, x)]

Arriving(rows) == rows \ BagToSet(ledger)

Grown(rows) == ledger (+) SetToBag(Arriving(rows))

Gathered(rows) ==
    With(batches, [b \in {o.batch : o \in rows} \cap DOMAIN PushedBatch |-> PushedBatch[b]])

Mergeable(rows) == Arriving(rows) # {} /\ Balanced(Grown(rows), Gathered(rows))

MergePlan(rows) ==
    [Plan("merge", SetToSeq(Arriving(rows)), Gathered(rows), TRUE)
        EXCEPT !.overwrite = Recomputed(Grown(rows), Gathered(rows))]

MergeReads(t, rows) ==
    /\ Mergeable(rows)
    /\ Unlocked
    /\ Plans(t, MergePlan(rows))

(* Mutant: only the products are recomputed after a merge. *)
OverwriteProducts(t, x, old) ==
    IF x \in DOMAIN request[t].overwrite \cap Product THEN request[t].overwrite[x] ELSE old

Overwrite(t, x, old) ==
    IF x \in DOMAIN request[t].overwrite THEN request[t].overwrite[x] ELSE old

MergeCommits(t) ==
    LET held == With(batches, request[t].births)
    IN  /\ request[t].kind = "merge"
        /\ ledger' = ledger (+) ToBag(request[t].ops)
        /\ stock' = [p \in Product |-> Overwrite(t, p, stock[p])]
        /\ batches' = [b \in DOMAIN held |->
                          [held[b] EXCEPT !.quantity = Overwrite(t, b, @)]]
        /\ Done(t)
        /\ UNCHANGED deleted

-----------------------------------------------------------------------------
(* Migration 0008: a legacy batch for every product with stock. *)
Seeded ==
    LET B == ToBag(OldLedger)
    IN  [b \in {LegacyId[p] : p \in {p \in Product : ComputeStock(B, p) > 0}} |->
            LET p == CHOOSE p \in Product : LegacyId[p] = b
            IN  [NewBatch(p, DefaultWarehouse, TRUE) EXCEPT !.quantity = ComputeStock(B, p)]]

Init ==
    /\ ledger = ToBag(OldLedger)
    /\ batches = Seeded
    /\ stock = [p \in Product |-> ComputeStock(ledger, p)]
    /\ deleted = {}
    /\ request = [t \in Thread |-> NoRequest]

Lines == [batch : DOMAIN batches, qty : Qty]
Basket == UNION {[1..n -> Lines] : n \in 1..MaxLines}

Check(t) ==
    \/ \E p \in Product, w \in Warehouse, q \in Qty : CheckReceipt(t, p, w, q)
    \/ \E s \in FreshSale, lines \in Basket, c \in BOOLEAN : CheckSale(t, s, lines, c)
    \/ \E origin \in BagToSet(ledger), q \in Qty : CheckReturn(t, origin, q)
    \/ \E b \in DOMAIN batches, w \in Warehouse, q \in Qty, c \in BOOLEAN :
          CheckTransfer(t, b, w, q, c)
    \/ \E b \in DOMAIN batches, q \in Qty, c \in BOOLEAN : CheckWriteoff(t, b, q, c)
    \/ \E b \in DOMAIN batches, d \in -MaxQty..MaxQty, c \in BOOLEAN :
          CheckCorrection(t, b, d, c, None)
    \/ \E b \in DOMAIN batches, n \in 0..MaxQty, c \in BOOLEAN : CheckCount(t, b, n, c)
    \/ \E x \in Product \cup Warehouse, c \in BOOLEAN : CheckDelete(t, x, c)
    \/ \E rows \in SUBSET Pushed : MergeReads(t, rows)

Next ==
    \E t \in Thread :
        \/ Check(t) \/ Commit(t) \/ Delete(t) \/ MergeCommits(t) \/ Fail(t)
        \/ \E p \in Product : SoftDelete(t, p)
        \/ \E x \in Product \cup Warehouse : RestoreDeleted(t, x)

Spec == Init /\ [][Next]_vars

-----------------------------------------------------------------------------
(* Properties *)

(* Every variable has its type, and a row never names a batch of another   *)
(* product (the ownership checks of the services, record_operation).       *)
TypeOK ==
    /\ \A o \in BagToSet(ledger) :
          /\ o.product \in Product
          /\ o.batch # None => o.batch \in DOMAIN batches
          /\ o.batch # None => batches[o.batch].product = o.product
    /\ DOMAIN batches \subseteq
          Batch \cup DOMAIN PushedBatch \cup {LegacyId[p] : p \in Product}
    /\ \A b \in DOMAIN batches :
          batches[b] \in [product : Product, warehouse : Warehouse,
                          legacy : BOOLEAN, quantity : Int]
    /\ stock \in [Product -> Int]
    /\ deleted \subseteq Product \cup Warehouse
    /\ \A t \in Thread : DOMAIN NoRequest \subseteq DOMAIN request[t]

(* "Cached quantity is a projection of SUM(operations.qty_delta)"           *)
(* (services/ledger.py): what the screens and the oversell checks read is  *)
(* what the ledger adds up to, for products and for batches.               *)
Projection ==
    /\ \A p \in Product : stock[p] = ComputeStock(ledger, p)
    /\ \A b \in DOMAIN batches :
          batches[b].quantity = ComputeBatchStock(ledger, batches, b)

(* rebuild_stock and every later merge succeed: recompute_derived does not *)
(* raise on the stored rows.                                               *)
Rebuildable == Balanced(ledger, batches)

(* The variables have their types, and the ledger and what is cached of it *)
(* agree: Projection and Rebuildable, whatever requests race.              *)
LedgerHolds == TypeOK /\ Projection /\ Rebuildable

(* No more of a product comes back from a sale than the sale sold.         *)
ReturnsWithinSold ==
    \A o \in BagToSet(ledger) :
        o.type = "return" =>
            OfSale(ledger, o.sale, o.product, {"return"})
                <= -OfSale(ledger, o.sale, o.product, {"sale"})

(* With one request at a time the ledger is right as well as consistent:   *)
(* it never books more returns of a sale than pieces sold (returns.py).    *)
LedgerSound == LedgerHolds /\ ReturnsWithinSold

Commits(t) == ~Idle(t) /\ request'[t] = NoRequest /\ ledger' # ledger

(* A removal the operator was not asked to confirm does not take a batch   *)
(* below zero.                                                             *)
UnconfirmedKeepsStock ==
    [][\A t \in Thread : Commits(t) /\ ~request[t].confirm =>
          \A o \in ToSet(request[t].ops) :
              o.qty < 0 => batches'[o.batch].quantity >= 0]_vars

(* After a correction by count the batch holds what was counted.           *)
CountMeansCount ==
    [][\A t \in Thread : Commits(t) /\ request[t].counted # None =>
          batches'[request[t].ops[1].batch].quantity = request[t].counted]_vars
=============================================================================
