------------------------------- MODULE Money -------------------------------
(***************************************************************************)
(* The money of one database: the cash ledger next to the operations       *)
(* ledger, the requests that write both (sales and returns) or one of them *)
(* (receipts, transfers, manual movements), the edits that move no goods   *)
(* but are read by reports (the prices of a card, the cost of a batch, the *)
(* currency of a warehouse), and every report that sums the two ledgers.   *)
(*                                                                         *)
(* A request reads and validates first and then writes all its rows in one *)
(* transaction, so it is a plan and a commit here; other requests, edits   *)
(* and midnight may come between the two, and midnight may also come       *)
(* between two rows of one commit.  A row keeps its business day, the      *)
(* local day of its entry, and the UTC day of its entry, which in the      *)
(* first hours of a local day is still the day before.                     *)
(*                                                                         *)
(* Left out: how much of a batch is there (module Stock guards that), who  *)
(* may see which warehouse (module Access), and the deletion of cards.     *)
(***************************************************************************)
EXTENDS Integers, Sequences, FiniteSets, FiniteSetsExt, SequencesExt, Functions

CONSTANTS
    Product, Warehouse, Batch, Currency, Sale, Thread,
    None,              \* NULL, and an empty field of a form
    DEFAULT_CURRENCY,
    DefaultWarehouse,
    WarehouseCurrency, \* the currencies the warehouses start with
    Card,              \* the prices the cards start with
    OldLedger, OldCash, OldBatches,   \* what is stored at the start
    Basket,            \* the baskets a clerk may submit
    Delivery,          \* the receipts a clerk may submit
    Haul,              \* the transfers a clerk may submit
    Category,          \* the categories of manual movements
    Amount,            \* bound: amounts of a manual movement, and new costs
    Pieces,            \* bound: pieces brought back at a time
    MaxDay,            \* bound: the last day
    MaxServed,         \* bound: requests served
    MaxEdits,          \* bound: edits of prices and currencies
    LIST_PAGE_SIZE

ASSUME MoneyBounds == /\ {MaxDay, MaxServed, MaxEdits, LIST_PAGE_SIZE} \subseteq Nat
                      /\ MaxDay > 0 /\ LIST_PAGE_SIZE > 0
                      /\ Amount \subseteq Nat /\ Pieces \subseteq Nat \ {0}
ASSUME MoneyIds == /\ DEFAULT_CURRENCY \in Currency /\ DefaultWarehouse \in Warehouse
                   /\ None \notin Int \cup Sale \cup Batch
                   /\ None \notin [product : Product, currency : Currency, cost : Nat]
                   /\ IsFiniteSet(Sale) /\ IsFiniteSet(Product) /\ IsFiniteSet(Currency)

VARIABLES
    ledger,    \* operations, oldest first
    cash,      \* cash_movements, oldest first
    batches,   \* the batches that exist, by id
    currency,  \* warehouses.currency
    card,      \* the cost and the minimum price of a card in each currency
    today,     \* the local day
    edits,     \* how many edits were made
    request,   \* what each thread is about to write
    served     \* how many requests were taken

vars == <<ledger, cash, batches, currency, card, today, edits, request, served>>

CASH_BUCKETS ==
    [sale |-> {"sale"}, return |-> {"return"},
     withdrawal |-> {"withdrawal_supplier", "withdrawal_other"},
     deposit |-> {"deposit_correction"}]

CASH_CATEGORIES == UNION {CASH_BUCKETS[k] : k \in DOMAIN CASH_BUCKETS}

OpType == {"sale", "return", "receipt", "transfer", "price_change"}
Price == Nat \cup {None}
Day == 0..MaxDay
NoDay == Day \cup {None}

LedgerRow == [type : OpType, product : Product, qty : Int, price : Price, cost : Price,
              batch : Batch \cup {None}, sale : Sale \cup {None},
              day : NoDay, local : NoDay, utc : NoDay]
CashRow == [category : CASH_CATEGORIES, amount : Int, currency : Currency,
            sale : Sale \cup {None}, day : NoDay, local : NoDay, utc : NoDay]
BatchRow == [product : Product, warehouse : Warehouse, cost : Price, quantity : Int,
             is_legacy : BOOLEAN]

(* A form holds whole pieces and prices that are not negative. *)
ASSUME Forms ==
    /\ Basket \subseteq Seq([batch : Batch, qty : Nat \ {0}, price : Nat])
    /\ Delivery \subseteq [product : Product, warehouse : Warehouse, qty : Nat \ {0}, cost : Price]
    /\ Haul \subseteq [batch : Batch, to : Warehouse, qty : Nat \ {0}, cost : Price]

(* The rows a database starts with were entered on some day, and name      *)
(* batches that exist.                                                     *)
Stored(r) == r.local \in 1..MaxDay /\ r.utc \in Day
ASSUME OldRows ==
    /\ OldLedger \in Seq(LedgerRow) /\ OldCash \in Seq(CashRow)
    /\ \A i \in DOMAIN OldLedger : /\ Stored(OldLedger[i])
                                   /\ OldLedger[i].batch \in DOMAIN OldBatches \cup {None}
    /\ \A i \in DOMAIN OldCash : Stored(OldCash[i])
    /\ OldBatches \in [DOMAIN OldBatches -> BatchRow] /\ DOMAIN OldBatches \subseteq Batch
    /\ IsFiniteSet(DOMAIN OldBatches)
    /\ WarehouseCurrency \in [Warehouse -> Currency]
    /\ Card \in [Product -> [Currency -> [cost : Price, min : Price]]]

NoteRequired == {"withdrawal_other", "deposit_correction"}

(* Planned rows are not entered yet. *)
Op(type, p, q, price, cost, b, s, day) ==
    [type |-> type, product |-> p, qty |-> q, price |-> price, cost |-> cost,
     batch |-> b, sale |-> s, day |-> day, local |-> None, utc |-> None]
Move(category, amount, c, s, day) ==
    [category |-> category, amount |-> amount, currency |-> c, sale |-> s, day |-> day,
     local |-> None, utc |-> None]
NewBatch(p, w, cost, legacy) ==
    [product |-> p, warehouse |-> w, cost |-> cost, quantity |-> 0, is_legacy |-> legacy]

SumBy(S, Val(_)) == SumFunctionOnSet([x \in S |-> Val(x)], S)
Default(x, y) == IF x = None THEN y ELSE x
OneOf(S) == IF S = {} THEN {} ELSE {CHOOSE x \in S : TRUE}   \* a fresh id

-----------------------------------------------------------------------------
(* Planning a request *)
NoBirth == [b \in {} |-> None]
NoRequest == [kind |-> "none", rows |-> <<>>, moves |-> <<>>, births |-> NoBirth,
              prices |-> None, confirm |-> FALSE, seen |-> 0, edits |-> 0,
              typed |-> None, card |-> None]

Free(t) == request[t].kind = "none" /\ served < MaxServed

Plan(t, plan) ==
    /\ served' = served + 1
    /\ request' = [request EXCEPT ![t] = [plan EXCEPT !.edits = edits, !.card = card]]
    /\ UNCHANGED <<ledger, cash, batches, currency, card, today, edits>>

(* A date in a form: empty, or a day up to today. *)
OpDate == {None} \cup 1..today

Currencies(bs) == {currency[batches[b].warehouse] : b \in bs}

LineCost(b, c) == Default(batches[b].cost, card[batches[b].product][c].cost)

SaleCredit(lines, c, s, day) ==
    Move("sale", SumBy(DOMAIN lines, LAMBDA i : lines[i].qty * lines[i].price), c, s, day)

BelowMinimum(lines, c) ==
    {i \in DOMAIN lines :
        LET least == card[batches[lines[i].batch].product][c].min
        IN  least # None /\ lines[i].price < least}

FreshSale == Sale \ ({ledger[i].sale : i \in DOMAIN ledger} \cup
                     {o.sale : o \in UNION {ToSet(request[t].rows) : t \in Thread}})

(* One basket, in the one currency of the warehouses its batches are in. *)
register_sale(t, lines, s, op_date, confirm) ==
    LET used == {lines[i].batch : i \in DOMAIN lines}
        c    == CHOOSE x \in Currencies(used) : TRUE
        day  == Default(op_date, today)
        row(i) == Op("sale", batches[lines[i].batch].product, -lines[i].qty,
                     lines[i].price, LineCost(lines[i].batch, c), lines[i].batch, s, day)
    IN  /\ used \subseteq DOMAIN batches
        /\ Cardinality(Currencies(used)) = 1
        /\ confirm \/ BelowMinimum(lines, c) = {}
        /\ Plan(t, [NoRequest EXCEPT !.kind = "sale",
                       !.rows = [i \in DOMAIN lines |-> row(i)],
                       !.moves = <<SaleCredit(lines, c, s, day)>>])

SumQty(s, p, type) ==
    SumBy({i \in DOMAIN ledger : /\ ledger[i].sale = s /\ ledger[i].product = p
                                 /\ ledger[i].type = type},
          LAMBDA i : ledger[i].qty)

sold_qty(s, p) == -SumQty(s, p, "sale")
returnable_qty(s, p) == sold_qty(s, p) - SumQty(s, p, "return")

(* The line the form names, or the latest line of that product in the sale. *)
_resolve_origin(origin, s, p) ==
    LET lines == {i \in DOMAIN ledger : /\ ledger[i].type = "sale"
                                        /\ ledger[i].sale = s /\ ledger[i].product = p}
    IN  IF origin \in DOMAIN ledger /\ ledger[origin].type = "sale" THEN origin
        ELSE IF lines = {} THEN None ELSE Max(lines)

(* Mutant: the money back is what the card asks today. *)
CardRefund(o) == Default(card[o.product][DEFAULT_CURRENCY].min, 0)

RefundPrice(o) == Default(o.price, 0)

FreshBatch == Batch \ (DOMAIN batches \cup UNION {DOMAIN request[t].births : t \in Thread})

legacy_batch(p) == {b \in DOMAIN batches : batches[b].is_legacy /\ batches[b].product = p}

(* The batch the goods go back to: their own, or the legacy batch of their *)
(* product, which is made if there is none.                                *)
ReturnBatch(o) ==
    IF o.batch # None THEN {o.batch}
    ELSE IF legacy_batch(o.product) # {} THEN legacy_batch(o.product)
    ELSE OneOf(FreshBatch)

register_return(t, origin, qty, into, op_date) ==
    LET o    == ledger[origin]
        day  == Default(op_date, today)
        born == into \notin DOMAIN batches
        w    == IF born THEN DefaultWarehouse ELSE batches[into].warehouse
        debit == qty * RefundPrice(o)
    IN  /\ o.type = "sale" /\ o.sale # None
        /\ qty <= returnable_qty(o.sale, o.product)
        /\ Plan(t, [NoRequest EXCEPT !.kind = "return",
                       !.rows = <<Op("return", o.product, qty, o.price, o.cost,
                                     into, o.sale, day)>>,
                       !.births = IF born
                                  THEN [b \in {into} |-> NewBatch(o.product, w, None, TRUE)]
                                  ELSE NoBirth,
                       !.moves = IF debit = 0 THEN <<>>
                                 ELSE <<Move("return", -debit, currency[w], o.sale, day)>>])

(* Into a new batch that keeps the cost, or on top of a batch that keeps   *)
(* its own; the cost typed becomes the card's, in the warehouse's currency.*)
register_receipt(t, p, w, qty, cost, into, op_date) ==
    LET c   == currency[w]
        day == Default(op_date, today)
        dear == cost # None /\ cost # card[p][c].cost
    IN  /\ \/ into \in FreshBatch
           \/ into \in DOMAIN batches /\ batches[into].product = p /\ batches[into].warehouse = w
        /\ Plan(t, [NoRequest EXCEPT !.kind = "receipt",
              !.rows = (IF dear THEN <<Op("price_change", p, 0, None, None, None, None, None)>>
                        ELSE <<>>)
                       \o <<Op("receipt", p, qty, None, cost, into, None, day)>>,
              !.births = IF into \in DOMAIN batches THEN NoBirth
                         ELSE [b \in {into} |-> NewBatch(p, w, cost, FALSE)],
              !.prices = IF dear THEN [product |-> p, currency |-> c, cost |-> cost]
                         ELSE None])

(* Mutant: the new batch starts without a cost. *)
NoCost(b, w, cost) == None

(* The cost of goods moved: what was typed, and between currencies it must *)
(* be; within one currency an empty field keeps the cost of the source.    *)
MovedCost(b, w, cost) ==
    IF currency[w] # currency[batches[b].warehouse] THEN cost
    ELSE Default(cost, batches[b].cost)

register_transfer(t, b, w, qty, cost, into, op_date) ==
    LET day == Default(op_date, today)
        row(x, q) == Op("transfer", batches[b].product, q, None, None, x, None, day)
    IN  /\ into \in FreshBatch
        /\ currency[w] # currency[batches[b].warehouse] => cost # None
        /\ Plan(t, [NoRequest EXCEPT !.kind = "transfer", !.typed = cost,
              !.rows = <<row(b, -qty), row(into, qty)>>,
              !.births = [x \in {into} |->
                             NewBatch(batches[b].product, w, MovedCost(b, w, cost), FALSE)]])

compute_balance(c) ==
    SumBy({i \in DOMAIN cash : cash[i].currency = c}, LAMBDA i : cash[i].amount)

(* Mutant: the balance asked is the one of the default currency. *)
DefaultCovers(c, amount) == compute_balance(DEFAULT_CURRENCY) + amount >= 0

CashCovers(c, amount) == compute_balance(c) + amount >= 0

record_manual_movement(t, category, amount, note, c, confirm, op_date) ==
    LET withdrawn == category \in CASH_BUCKETS.withdrawal
        signed    == IF withdrawn THEN -amount ELSE amount
    IN  /\ category \in CASH_BUCKETS.withdrawal \cup CASH_BUCKETS.deposit
        /\ amount > 0
        /\ category \in NoteRequired => note
        /\ withdrawn /\ ~confirm => CashCovers(c, signed)
        /\ Plan(t, [NoRequest EXCEPT !.kind = "manual", !.confirm = confirm,
                       !.seen = compute_balance(c),
                       !.moves = <<Move(category, signed, c, None, op_date)>>])

finance_withdraw(t, category, amount, note, c, confirm, op_date) ==
    /\ category \notin CASH_BUCKETS.deposit
    /\ record_manual_movement(t, category, amount, note, c, confirm, op_date)

mobile_finance_withdraw(t, category, amount, note, c, confirm, op_date) ==
    /\ category \notin CASH_BUCKETS.deposit
    /\ record_manual_movement(t, category, amount, note, c, confirm, op_date)

finance_deposit(t, category, amount, note, c, op_date) ==
    /\ category \notin CASH_BUCKETS.withdrawal
    /\ record_manual_movement(t, category, amount, note, c, FALSE, op_date)

mobile_finance_deposit(t, category, amount, note, c, op_date) ==
    finance_deposit(t, category, amount, note, c, op_date)

-----------------------------------------------------------------------------
(* Writing what was planned *)
Entered(row, local, utc) ==
    [row EXCEPT !.day = Default(@, local), !.local = local, !.utc = utc]
EnteredAll(rows, local, utc) == [i \in DOMAIN rows |-> Entered(rows[i], local, utc)]

(* The batches with those a plan brings, and what its rows add to one. *)
With(births) ==
    [b \in DOMAIN births \cup DOMAIN batches |->
        IF b \in DOMAIN births THEN births[b] ELSE batches[b]]
Gain(rows, b) == SumBy({i \in DOMAIN rows : rows[i].batch = b}, LAMBDA i : rows[i].qty)

(* The operations first, then the movement: midnight may fall between, at  *)
(* an hour when the UTC day is still the one that ends here.               *)
Commit(t) ==
    LET plan == request[t]
    IN  \E utc \in {today - 1, today}, late \in {0, 1} :
        /\ plan.kind # "none"
        /\ late = 1 => /\ today < MaxDay /\ utc = today
                       /\ plan.rows # <<>> /\ plan.moves # <<>>
        /\ ledger' = ledger \o EnteredAll(plan.rows, today, utc)
        /\ cash' = cash \o EnteredAll(plan.moves, today + late, utc)
        /\ today' = today + late
        /\ batches' = [b \in DOMAIN With(plan.births) |->
                          [With(plan.births)[b] EXCEPT !.quantity = @ + Gain(plan.rows, b)]]
        /\ card' = IF plan.prices = None THEN card
                   ELSE [card EXCEPT ![plan.prices.product][plan.prices.currency].cost =
                                        plan.prices.cost]
        /\ request' = [request EXCEPT ![t] = NoRequest]
        /\ UNCHANGED <<currency, edits, served>>

(* Another request took the next seq: nothing is written. *)
Rollback(t) ==
    /\ request[t].kind # "none"
    /\ request' = [request EXCEPT ![t] = NoRequest]
    /\ UNCHANGED <<ledger, cash, batches, currency, card, today, edits, served>>

Edit ==
    /\ edits < MaxEdits
    /\ edits' = edits + 1
    /\ UNCHANGED <<cash, today, request, served>>

update_warehouse(w, c) ==
    /\ Edit /\ c # currency[w] /\ currency' = [currency EXCEPT ![w] = c]
    /\ UNCHANGED <<ledger, batches, card>>

update_product(p, c, cost) ==
    /\ Edit /\ card' = [card EXCEPT ![p][c].cost = cost]
    /\ cost # card[p][c].cost
    /\ ledger' = Append(ledger, Entered(Op("price_change", p, 0, None, None, None, None, None),
                                        today, today))
    /\ UNCHANGED <<batches, currency>>

update_batch(b, cost) ==
    /\ Edit /\ cost # batches[b].cost /\ batches' = [batches EXCEPT ![b].cost = cost]
    /\ UNCHANGED <<ledger, currency, card>>

Midnight ==
    /\ today < MaxDay
    /\ today' = today + 1
    /\ UNCHANGED <<ledger, cash, batches, currency, card, edits, request, served>>

-----------------------------------------------------------------------------
(* What the reports say; a period is the days from a to z, both included *)
business_date_expr(r) == Default(r.day, r.utc)

InPeriod(r, a, z) == a <= business_date_expr(r) /\ business_date_expr(r) <= z

(* A row that names no batch is older than warehouses: it is in roubles. *)
operation_currency(r) ==
    IF r.batch = None THEN DEFAULT_CURRENCY ELSE currency[batches[r.batch].warehouse]

SalesRows(a, z, c) ==
    {i \in DOMAIN ledger : /\ ledger[i].type \in {"sale", "return"}
                           /\ InPeriod(ledger[i], a, z)
                           /\ operation_currency(ledger[i]) = c}

(* Mutant: the cost of a sold piece is looked up when the report is read. *)
CostToday(r) == IF r.batch = None THEN r.cost ELSE batches[r.batch].cost

FrozenCost(r) == r.cost

sales_profit_report(a, z, c) ==
    LET rows    == SalesRows(a, z, c)
        known   == {i \in rows : FrozenCost(ledger[i]) # None}
        money(i) == -ledger[i].qty * Default(ledger[i].price, 0)
        spent(i) == -ledger[i].qty * FrozenCost(ledger[i])
    IN  [revenue |-> SumBy(rows, money),
         returns |-> SumBy({i \in rows : ledger[i].type = "return"}, money),
         cost    |-> SumBy(known, spent),
         profit  |-> SumBy(known, money) - SumBy(known, spent),
         unknown |-> Cardinality({i \in rows \ known : ledger[i].type = "sale"})]

(* Net pieces by product, those with any left. *)
top_selling_products(a, z) ==
    LET net(p) == -SumBy({i \in DOMAIN ledger : /\ ledger[i].type \in {"sale", "return"}
                                                /\ ledger[i].product = p
                                                /\ InPeriod(ledger[i], a, z)},
                         LAMBDA i : ledger[i].qty)
    IN  {<<p, net(p)>> : p \in {q \in Product : net(q) > 0}}

CashOf(cats, a, z, c) ==
    SumBy({i \in DOMAIN cash : /\ cash[i].category \in cats /\ cash[i].currency = c
                               /\ InPeriod(cash[i], a, z)},
          LAMBDA i : cash[i].amount)

(* Mutant: money given back counts as an expense as well. *)
ExpenseWithReturns(a, z, c) == CashOf(CASH_BUCKETS.withdrawal \cup CASH_BUCKETS.return, a, z, c)

cash_expense_total(a, z, c) == CashOf(CASH_BUCKETS.withdrawal, a, z, c)

cash_flow_report(a, z, c) ==
    LET present == {cash[i].category : i \in {j \in DOMAIN cash : /\ cash[j].currency = c
                                                                   /\ InPeriod(cash[j], a, z)}}
        lines(cats) == {<<k, CashOf({k}, a, z, c)>> : k \in cats \cap present}
        income  == lines(CASH_BUCKETS.sale \cup CASH_BUCKETS.return \cup CASH_BUCKETS.deposit)
        expense == lines(CASH_BUCKETS.withdrawal)
    IN  [income |-> income, income_total |-> SumBy(income, LAMBDA l : l[2]),
         expense |-> expense, expense_total |-> SumBy(expense, LAMBDA l : l[2])]

(* A batch counts with what it cost, else with what its card says in the   *)
(* currency of its warehouse; a batch of unknown cost is left out.         *)
stock_valuation(c) ==
    LET held == {b \in DOMAIN batches : /\ batches[b].quantity > 0
                                        /\ currency[batches[b].warehouse] = c}
        known == {b \in held : LineCost(b, c) # None}
    IN  [cost |-> SumBy(known, LAMBDA b : batches[b].quantity * LineCost(b, c)),
         unknown |-> Cardinality({batches[b].product : b \in held \ known})]

(* The tiles of the dashboard and of the finance pages. *)
period_metrics(a, z, c) ==
    [revenue |-> sales_profit_report(a, z, c).revenue,
     expense |-> cash_expense_total(a, z, c),
     profit  |-> sales_profit_report(a, z, c).profit + cash_expense_total(a, z, c)]

_metrics_context(a, z, c) ==
    [gross |-> sales_profit_report(a, z, c).profit,
     net   |-> sales_profit_report(a, z, c).profit + cash_expense_total(a, z, c)]

(* The tiles of a dashboard read on day d, when weeks and months are two   *)
(* days and MaxDay days long.                                              *)
dashboard_metrics(c) ==
    [today |-> period_metrics(today, today, c),
     week  |-> period_metrics(today - (today % 2), today - (today % 2) + 1, c),
     month |-> period_metrics(0, MaxDay, c)]

(* A period typed in: unreadable or inverted means today, with an error. *)
_resolve_period(a, z) ==
    IF a = None /\ z = None THEN [from |-> today, to |-> today, error |-> FALSE]
    ELSE IF a = None \/ z = None THEN [from |-> today, to |-> today, error |-> TRUE]
    ELSE IF a > z THEN [from |-> today, to |-> today, error |-> TRUE]
    ELSE [from |-> a, to |-> z, error |-> FALSE]

(* The same for the history, where two empty fields mean every day. *)
_resolve_history_period(a, z) ==
    IF a = None /\ z = None THEN [from |-> None, to |-> None, error |-> FALSE]
    ELSE _resolve_period(a, z)

(* The page with a report shows none for a bad period, the file of the     *)
(* same form holds today's rows.                                           *)
finance_report_page(a, z, c) ==
    LET p == _resolve_period(a, z)
    IN  IF p.error THEN None ELSE cash_flow_report(p.from, p.to, c)

stream_cash_movements_csv(a, z) ==
    LET p == _resolve_period(a, z)
    IN  {i \in DOMAIN cash : InPeriod(cash[i], p.from, p.to)}

PageCount(total) == Max({1, (total + LIST_PAGE_SIZE - 1) \div LIST_PAGE_SIZE})

(* One page of one currency, the newest movement in the first place; a     *)
(* page out of range is the last, an unknown bucket is no filter.          *)
cash_history_view(c, bucket, page) ==
    LET cats == IF bucket \in DOMAIN CASH_BUCKETS THEN CASH_BUCKETS[bucket] ELSE CASH_CATEGORIES
        all  == {i \in DOMAIN cash : cash[i].currency = c /\ cash[i].category \in cats}
        place(i) == Cardinality({j \in all : j >= i})
        pages == PageCount(Cardinality(all))
        at    == Max({0, Min({page, pages - 1})})
    IN  [rows |-> {i \in all : /\ at * LIST_PAGE_SIZE < place(i)
                               /\ place(i) <= (at + 1) * LIST_PAGE_SIZE},
         page |-> at, pages |-> pages, total |-> Cardinality(all)]

is_backdated(r) == r.day # None /\ r.day # r.local

SameDay(r) == r.day = None \/ r.day = r.utc

(* The filter of the history compares with the UTC day. *)
history_view(a, z, dated) ==
    {i \in DOMAIN ledger :
        /\ a = None \/ InPeriod(ledger[i], a, z)
        /\ CASE dated = "backdated" -> ledger[i].day # None /\ ledger[i].day # ledger[i].utc
             [] dated = "same_day" -> SameDay(ledger[i])
             [] OTHER -> TRUE}

-----------------------------------------------------------------------------
Init ==
    /\ ledger = OldLedger /\ cash = OldCash /\ batches = OldBatches
    /\ currency = WarehouseCurrency
    /\ card = Card
    /\ today = 1 /\ edits = 0
    /\ request = [t \in Thread |-> NoRequest]
    /\ served = 0

Return(t, origin) == \E qty \in Pieces, d \in OpDate, into \in ReturnBatch(ledger[origin]) :
    register_return(t, origin, qty, into, d)

return_create(t) == \E origin \in DOMAIN ledger : Return(t, origin)

mobile_return_create(t) == \E s \in Sale, p \in Product :
    LET origin == _resolve_origin(None, s, p)
    IN  origin # None /\ Return(t, origin)

Sell(t) == \E lines \in Basket, d \in OpDate, s \in OneOf(FreshSale), confirm \in BOOLEAN :
    register_sale(t, lines, s, d, confirm)

Receive(t) == \E r \in Delivery, into \in DOMAIN batches \cup OneOf(FreshBatch),
                 d \in OpDate :
    register_receipt(t, r.product, r.warehouse, r.qty, r.cost, into, d)

Transfer(t) == \E h \in Haul, into \in OneOf(FreshBatch), d \in OpDate :
    h.batch \in DOMAIN batches /\ register_transfer(t, h.batch, h.to, h.qty, h.cost, into, d)

Withdraw(t) == \E k \in Category, n \in Amount, c \in Currency, confirm \in BOOLEAN,
                  note \in BOOLEAN, d \in OpDate :
    \/ finance_withdraw(t, k, n, note, c, confirm, d)
    \/ mobile_finance_withdraw(t, k, n, note, c, confirm, d)

Deposit(t) == \E k \in Category, n \in Amount, c \in Currency, note \in BOOLEAN,
                 d \in OpDate :
    \/ finance_deposit(t, k, n, note, c, d)
    \/ mobile_finance_deposit(t, k, n, note, c, d)

Change ==
    \/ \E w \in Warehouse, c \in Currency : update_warehouse(w, c)
    \/ \E p \in Product, c \in Currency, cost \in Amount : update_product(p, c, cost)
    \/ \E b \in DOMAIN batches, cost \in Amount : update_batch(b, cost)

Next ==
    \/ \E t \in Thread :
          \/ /\ Free(t)
             /\ \/ Sell(t) \/ return_create(t) \/ mobile_return_create(t)
                \/ Receive(t) \/ Transfer(t) \/ Withdraw(t) \/ Deposit(t)
          \/ Commit(t) \/ Rollback(t)
    \/ Change \/ Midnight

Spec == Init /\ [][Next]_vars

-----------------------------------------------------------------------------
(* No request is halfway; a halfway one has written nothing and may still  *)
(* be rolled back, so what holds of the rows in between holds here too.    *)
Quiet == \A t \in Thread : request[t].kind = "none"

Period == {p \in (0..MaxDay) \X (0..MaxDay) : p[1] <= p[2]}

TypeOK ==
    /\ ledger \in Seq(LedgerRow) /\ cash \in Seq(CashRow)
    /\ \A i \in DOMAIN ledger : /\ Stored(ledger[i])
                                /\ ledger[i].batch \in DOMAIN batches \cup {None}
    /\ \A i \in DOMAIN cash : Stored(cash[i])
    /\ DOMAIN batches \subseteq Batch /\ batches \in [DOMAIN batches -> BatchRow]
    /\ currency \in [Warehouse -> Currency]
    /\ card \in [Product -> [Currency -> [cost : Price, min : Price]]]
    /\ today \in 1..MaxDay /\ edits \in 0..MaxEdits /\ served \in 0..MaxServed

(* "the goods and the refund must never be booked on two different days"   *)
(* (services/returns.py; services/sales.py says the same): day by day, the *)
(* cash of a sale is what its rows of that day sold less what came back.   *)
BookedTogether == Quiet =>
    \A s \in Sale, d \in (0..MaxDay) \cup {None} :
        SumBy({i \in DOMAIN cash : cash[i].sale = s /\ cash[i].day = d},
              LAMBDA i : cash[i].amount)
        = SumBy({i \in DOMAIN ledger : ledger[i].sale = s /\ ledger[i].day = d},
                LAMBDA i : -ledger[i].qty * Default(ledger[i].price, 0))

(* The two ledgers tell one story: over any period the revenue of the      *)
(* sales report is the cash of sales and returns, summed over the          *)
(* currencies, and in each currency as long as no warehouse was relabelled.*)
RevenueIsCash == Quiet =>
    \A p \in Period :
        LET taken(c) == CashOf(CASH_BUCKETS.sale \cup CASH_BUCKETS.return, p[1], p[2], c)
            said(c)  == sales_profit_report(p[1], p[2], c).revenue
        IN  /\ SumBy(Currency, taken) = SumBy(Currency, said)
            /\ currency = WarehouseCurrency /\ edits = 0 =>
                  \A c \in Currency : taken(c) = said(c)

(* The figures agree with each other: the best sellers of all time are     *)
(* what the customers of all sales may still bring back; the expense of    *)
(* the flow report is the total of the tiles (RECONCILIATION in            *)
(* finance_reports), its whole over all days the balance; and the revenue  *)
(* of a month is that of its days.                                         *)
TilesAgree == Quiet =>
    /\ LET left(q) == SumBy(Sale, LAMBDA s : returnable_qty(s, q))
       IN  top_selling_products(0, MaxDay) = {<<q, left(q)>> : q \in {r \in Product : left(r) > 0}}
    /\ \A p \in Period, c \in Currency :
          /\ cash_flow_report(p[1], p[2], c).expense_total = cash_expense_total(p[1], p[2], c)
          /\ period_metrics(p[1], p[2], c).profit = _metrics_context(p[1], p[2], c).net
    /\ \A c \in Currency :
          LET all == cash_flow_report(0, MaxDay, c)
          IN  /\ all.income_total + all.expense_total = compute_balance(c)
              /\ dashboard_metrics(c).month.revenue =
                    SumBy(Day, LAMBDA d : period_metrics(d, d, c).revenue)

(* The lists hold what the figures count: the exported file of a period    *)
(* adds up to its flow report; the pages of the history of the cash show   *)
(* each movement once and add up to the balance, and so do the pages of    *)
(* its four filters together.                                              *)
ListsAgree == Quiet =>
    /\ \A p \in Period, c \in Currency :
          LET flow == finance_report_page(p[1], p[2], c)
              file == stream_cash_movements_csv(p[1], p[2])
          IN  flow.income_total + flow.expense_total =
                SumBy({i \in file : cash[i].currency = c}, LAMBDA i : cash[i].amount)
    /\ \A c \in Currency :
          LET view(k, n) == cash_history_view(c, k, n)
              Pages(k)   == 0..(view(k, 0).pages - 1)
              shown(k)   == SumBy(Pages(k), LAMBDA n :
                                     SumBy(view(k, n).rows, LAMBDA i : cash[i].amount))
          IN  /\ shown("") = compute_balance(c)
              /\ SumBy(DOMAIN CASH_BUCKETS, shown) = compute_balance(c)
              /\ \A i \in DOMAIN cash : cash[i].currency = c =>
                    Cardinality({n \in Pages("") : i \in view("", n).rows}) = 1

(* A refund is worth what was paid: a sale whose pieces of one product all *)
(* had one price gives back no more than it took, unless more came back    *)
(* than was sold.                                                          *)
RefundWithinPaid == Quiet =>
    \A s \in Sale :
        LET rows == {i \in DOMAIN ledger : ledger[i].sale = s}
            sold == {i \in rows : ledger[i].type = "sale"}
        IN  /\ \A i, j \in sold : ledger[i].product = ledger[j].product =>
                                     ledger[i].price = ledger[j].price
            /\ \A i \in rows : returnable_qty(s, ledger[i].product) >= 0
            => SumBy({i \in DOMAIN cash : cash[i].sale = s}, LAMBDA i : cash[i].amount) >= 0

(* The cash of a sale follows its goods, on every day and in all.  Every   *)
(* variable has its type.                                                  *)
SaleCash == TypeOK /\ BookedTogether /\ RefundWithinPaid

(* The two halves of the filter by date split the history: each row is in  *)
(* exactly one, a row of an old client in the second, and a marked row is  *)
(* in the first if it was entered when the two calendars agreed.           *)
HistorySplits == Quiet =>
    LET late == history_view(None, None, "backdated")
        same == history_view(None, None, "same_day")
    IN  /\ late \cup same = DOMAIN ledger /\ late \cap same = {}
        /\ \A i \in DOMAIN ledger :
              ledger[i].utc = ledger[i].local => (is_backdated(ledger[i]) <=> i \in late)
        /\ \A i \in DOMAIN ledger : ledger[i].day = None => i \in same

(* Whatever report one looks at, the figures are the same.                 *)
ReportsAgree == RevenueIsCash /\ TilesAgree /\ ListsAgree /\ HistorySplits

(* "No MARKED row is ever lost" (services/operations.py): what the page    *)
(* marks as entered afterwards is found by the filter for it.              *)
MarkedIsFound == Quiet =>
    \A i \in DOMAIN ledger :
        is_backdated(ledger[i]) => i \in history_view(None, None, "backdated")

NewRows(l, m) == {m[i] : i \in DOMAIN m \ DOMAIN l}

(* The figures of a day move only with rows booked on that day (or when a  *)
(* warehouse is relabelled): a price edited later, a return of today, the  *)
(* cost of a batch leave them as they were.                                *)
DayIsClosed ==
    [][<<ledger, cash, batches, card>>' # <<ledger, cash, batches, card>>
       /\ currency' = currency =>
       \A d \in 0..MaxDay, c \in Currency :
          (\A r \in NewRows(ledger, ledger') \cup NewRows(cash, cash') :
                business_date_expr(r) # d)
          => /\ sales_profit_report(d, d, c)' = sales_profit_report(d, d, c)
             /\ cash_flow_report(d, d, c)' = cash_flow_report(d, d, c)]_vars

(* The value of the stock follows the goods: a sale takes out what its     *)
(* rows call their cost, a receipt into a new batch brings in what it      *)
(* cost, and a transfer inside a currency without a new cost changes       *)
(* nothing; while nothing was edited meanwhile and no batch is below zero. *)
ValueFollowsGoods ==
    [][\A t \in Thread :
          /\ request[t].kind \in {"sale", "receipt", "transfer"} /\ ledger' # ledger
          /\ request'[t] = NoRequest /\ request[t].prices = None
          /\ request[t].edits = edits /\ request[t].card = card
          /\ \A b \in DOMAIN batches' : batches'[b].quantity >= 0
          => \A c \in Currency :
                LET gain == stock_valuation(c)'.cost - stock_valuation(c).cost
                    rows == {i \in DOMAIN ledger' \ DOMAIN ledger :
                                currency[batches'[ledger'[i].batch].warehouse] = c}
                    Known == \A i \in rows : ledger'[i].cost # None
                IN  CASE request[t].kind = "transfer" ->
                           Cardinality(rows) = 2 /\ request[t].typed = None => gain = 0
                      [] request[t].kind = "receipt" /\ request[t].births = NoBirth -> TRUE
                      [] OTHER -> Known =>
                           gain = SumBy(rows, LAMBDA i : ledger'[i].qty * ledger'[i].cost)]_vars

(* Nobody overdraws the cash unwarned: what takes the balance of a         *)
(* currency below zero is a refund, a confirmed withdrawal, or one that    *)
(* raced another: the balance sank after it was looked at.                 *)
OverdrawnKnowingly ==
    [][cash' # cash => \A c \in Currency :
          compute_balance(c) >= 0 /\ compute_balance(c)' < 0 =>
              \E t \in Thread :
                  /\ request[t] # NoRequest /\ request'[t] = NoRequest
                  /\ \/ request[t].kind = "return" \/ request[t].confirm
                     \/ compute_balance(c) < request[t].seen]_vars
=============================================================================
