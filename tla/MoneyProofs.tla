----------------------------- MODULE MoneyProofs -----------------------------
(***************************************************************************)
(* Proofs about the money, for any products, warehouses, currencies,       *)
(* baskets and requests, and any rows the two ledgers start with.          *)
(*                                                                         *)
(* A request is planned in one step and booked in another, so the          *)
(* invariant follows every plan: what it will book as goods it will book   *)
(* as money, in one sale, on one day and in one currency.                  *)
(***************************************************************************)
EXTENDS Money, Sums

-----------------------------------------------------------------------------
(* Sums over the rows of a ledger *)

(* What the rows of l that are in P weigh together. *)
Rows(l, P) == {i \in DOMAIN l : l[i] \in P}
Weights(l, weigh) == [i \in DOMAIN l |-> weigh[l[i]]]
Tally(l, P, weigh) == SumFunctionOnSet(Weights(l, weigh), Rows(l, P))

Amounts == [m \in CashRow |-> m.amount]
Quantities == [r \in LedgerRow |-> r.qty]
Worths == [r \in LedgerRow |-> -r.qty * Default(r.price, 0)]

-----------------------------------------------------------------------------
(* The invariant *)

Goods == {"sale", "return"}

(* The rows and the movements a figure is made of: those of a sale on one  *)
(* day, those of a period, and those of a period in one currency.          *)
SaleRows(s, d) == {r \in LedgerRow : r.sale = s /\ r.day = d}
SaleMoves(s, d) == {m \in CashRow : m.sale = s /\ m.day = d}
GoodsRows(p) == {r \in LedgerRow : r.type \in Goods /\ InPeriod(r, p[1], p[2])}
GoodsMoves(p) == {m \in CashRow : m.category \in Goods /\ InPeriod(m, p[1], p[2])}
RowsIn(c) == {r \in LedgerRow : operation_currency(r) = c}
MovesIn(c) == {m \in CashRow : m.currency = c}

(* The two ledgers say the same of them. *)
Agree(l, m, R, M) == Tally(m, M, Amounts) = Tally(l, R, Worths)

BySale(l, m) == \A s \in Sale, d \in NoDay : Agree(l, m, SaleRows(s, d), SaleMoves(s, d))
ByPeriod(l, m) == \A p \in Period : Agree(l, m, GoodsRows(p), GoodsMoves(p))
ByCurrency(l, m) == \A p \in Period, c \in Currency :
    Agree(l, m, GoodsRows(p) \cap RowsIn(c), GoodsMoves(p) \cap MovesIn(c))

(* Sales and returns, and nothing else, name a sale. *)
InASale(r) == r.type \in Goods <=> r.sale # None
Linked(l) == \A i \in DOMAIN l : InASale(l[i])

(* What came back was sold before, in that sale and at that price. *)
SoldBefore(l, r) == \E j \in DOMAIN l : /\ l[j].type = "sale" /\ l[j].sale = r.sale
                                        /\ l[j].product = r.product /\ l[j].price = r.price
Brought(l) == \A i \in DOMAIN l : l[i].type = "return" => SoldBefore(l, l[i])

(* The currency a row is in at the start. *)
FirstIn(c) ==
    {r \in LedgerRow : c = IF r.batch = None THEN DEFAULT_CURRENCY
                           ELSE WarehouseCurrency[OldBatches[r.batch].warehouse]}

(* What is asked of the past: that the rows of a database that existed     *)
(* before were booked as the code books them.                              *)
OldBooksAgree ==
    /\ BySale(OldLedger, OldCash)
    /\ \A p \in Period, c \in Currency :
          Agree(OldLedger, OldCash, GoodsRows(p) \cap FirstIn(c), GoodsMoves(p) \cap MovesIn(c))
    /\ Linked(OldLedger) /\ Brought(OldLedger)

(* The plan of a request, as it is before its rows are entered. *)
PlanTyped(plan) ==
    /\ plan.kind \in {"none", "sale", "return", "receipt", "transfer", "manual"}
    /\ plan.rows \in Seq(LedgerRow) /\ plan.moves \in Seq(CashRow)
    /\ DOMAIN plan.births \subseteq Batch /\ plan.births \in [DOMAIN plan.births -> BatchRow]
    /\ \/ plan.prices = None
       \/ /\ plan.prices.product \in Product /\ plan.prices.currency \in Currency
          /\ plan.prices.cost \in Nat
    /\ plan.kind = "none" => plan = NoRequest
    /\ plan.edits \in Nat /\ plan.edits <= edits

(* What it names exists, or comes with it. *)
PlanFits(plan) ==
    /\ \A i \in DOMAIN plan.rows :
          plan.rows[i].batch \in DOMAIN batches \cup DOMAIN plan.births \cup {None}
    /\ DOMAIN plan.births \cap DOMAIN batches = {}
    /\ \A i \in DOMAIN plan.rows : InASale(plan.rows[i])
    /\ plan.kind = "return" => \A i \in DOMAIN plan.rows : SoldBefore(ledger, plan.rows[i])

(* What it will book as goods it will book as money, in one sale and on    *)
(* one day, and nobody else books goods.                                   *)
PlanBalanced(plan) ==
    IF plan.kind \in Goods
    THEN /\ Tally(plan.moves, CashRow, Amounts) = Tally(plan.rows, LedgerRow, Worths)
         /\ \E s \in Sale, d \in Day :
               /\ \A i \in DOMAIN plan.rows : /\ plan.rows[i].type = plan.kind
                                              /\ plan.rows[i].sale = s /\ plan.rows[i].day = d
               /\ \A i \in DOMAIN plan.moves : /\ plan.moves[i].category = plan.kind
                                               /\ plan.moves[i].sale = s /\ plan.moves[i].day = d
    ELSE /\ \A i \in DOMAIN plan.rows : /\ plan.rows[i].type \notin Goods
                                        /\ plan.rows[i].sale = None
         /\ \A i \in DOMAIN plan.moves : /\ plan.moves[i].category \notin Goods
                                         /\ plan.moves[i].sale = None

(* The currency its row will be in. *)
PlannedIn(plan, r) ==
    IF r.batch \in DOMAIN plan.births THEN currency[plan.births[r.batch].warehouse]
    ELSE operation_currency(r)

(* While nothing was edited, it books in one currency. *)
PlanInOneCurrency(plan) ==
    edits = 0 /\ plan.kind \in Goods =>
        \E c \in Currency : /\ \A i \in DOMAIN plan.rows : PlannedIn(plan, plan.rows[i]) = c
                            /\ \A i \in DOMAIN plan.moves : plan.moves[i].currency = c

(* Only a refund, and a manual movement that was confirmed or covered when *)
(* it was planned, take money out.                                         *)
PlanCovered(plan) ==
    /\ plan.kind = "sale" => \A i \in DOMAIN plan.moves : plan.moves[i].amount >= 0
    /\ plan.kind = "manual" =>
          /\ Len(plan.moves) = 1 /\ plan.seen \in Int
          /\ \/ plan.confirm \/ plan.moves[1].amount >= 0
             \/ plan.seen + plan.moves[1].amount >= 0
    /\ plan.kind \in {"none", "receipt", "transfer"} => plan.moves = <<>>

(* What a plan will do to the value: what is sold costs what its batch or  *)
(* its card said, a new batch costs what its row says, and goods moved     *)
(* inside a currency keep their cost, as long as nothing was edited.       *)
SaleValued(plan) ==
    /\ plan.births = NoBirth
    /\ \A i \in DOMAIN plan.rows :
          LET r == plan.rows[i]
          IN  /\ r.batch \in DOMAIN batches /\ r.qty <= 0
              /\ plan.edits = edits =>
                    LET b == batches[r.batch]
                    IN  r.cost = Default(b.cost, plan.card[b.product][currency[b.warehouse]].cost)

ReceiptValued(plan) ==
    plan.prices = None /\ plan.births # NoBirth =>
        \A i \in DOMAIN plan.rows :
            /\ plan.rows[i].batch \in DOMAIN plan.births
            /\ plan.rows[i].cost = plan.births[plan.rows[i].batch].cost

TransferValued(plan) ==
    LET out == plan.rows[1]
        in  == plan.rows[2]
    IN  /\ Len(plan.rows) = 2 /\ out.qty = -in.qty /\ out.qty <= 0
        /\ out.batch \in DOMAIN batches /\ DOMAIN plan.births = {in.batch}
        /\ plan.edits = edits =>
              LET from == batches[out.batch]
                  to   == plan.births[in.batch]
              IN  /\ to.product = from.product
                  /\ plan.typed = None /\ currency[to.warehouse] = currency[from.warehouse] =>
                        to.cost = from.cost

Valued(plan) ==
    /\ IsFiniteSet(DOMAIN plan.births)
    /\ \A b \in DOMAIN plan.births : plan.births[b].quantity = 0
    /\ plan.kind = "sale" => SaleValued(plan)
    /\ plan.kind = "receipt" => ReceiptValued(plan)
    /\ plan.kind = "transfer" => TransferValued(plan)

(* No two requests bring the same batch. *)
BirthsApart ==
    \A t, u \in Thread : t # u => DOMAIN request[t].births \cap DOMAIN request[u].births = {}

GoodPlan(plan) == /\ PlanTyped(plan) /\ PlanFits(plan) /\ PlanBalanced(plan)
                  /\ PlanInOneCurrency(plan) /\ PlanCovered(plan)

Plans == /\ request = [t \in Thread |-> request[t]]
         /\ \A t \in Thread : GoodPlan(request[t])
         /\ BirthsApart

Base == TypeOK /\ Plans

Books == /\ BySale(ledger, cash) /\ ByPeriod(ledger, cash)
         /\ edits = 0 => ByCurrency(ledger, cash)
         /\ Linked(ledger) /\ Brought(ledger)

IInv == Base /\ Books

-----------------------------------------------------------------------------
(* What sums over rows do *)

LEMMA RowsTyped ==
    ASSUME NEW R, NEW l \in Seq(R), NEW w \in [R -> Int], NEW P
    PROVE  /\ IsFiniteSet(DOMAIN l) /\ IsFiniteSet(Rows(l, P))
           /\ Ints(Weights(l, w), Rows(l, P)) /\ Tally(l, P, w) \in Int
<1>1. DOMAIN l = 1..Len(l) /\ Len(l) \in Nat /\ \A i \in DOMAIN l : l[i] \in R
    OBVIOUS
<1>2. IsFiniteSet(DOMAIN l)
    BY <1>1, FS_Interval
<1>3. IsFiniteSet(Rows(l, P))
    BY <1>2, FS_Subset DEF Rows
<1>4. Ints(Weights(l, w), Rows(l, P))
    BY <1>1 DEF Ints, Rows, Weights
<1>5. QED
    BY <1>2, <1>3, <1>4, SumPick DEF Tally

(* Any sum over just those rows is their tally. *)
LEMMA TallyIs ==
    ASSUME NEW R, NEW l \in Seq(R), NEW w \in [R -> Int], NEW P,
           NEW S, \A i : i \in S <=> i \in DOMAIN l /\ l[i] \in P,
           NEW f, \A i \in S : f[i] = w[l[i]]
    PROVE  SumFunctionOnSet(f, S) = Tally(l, P, w)
<1>1. S = Rows(l, P)
    BY DEF Rows
<1>2. IsFiniteSet(Rows(l, P)) /\ Ints(Weights(l, w), Rows(l, P))
    BY RowsTyped
<1>3. \A i \in Rows(l, P) : Weights(l, w)[i] = f[i]
    BY <1>1 DEF Weights
<1>4. SumFunctionOnSet(Weights(l, w), Rows(l, P)) = SumFunctionOnSet(f, Rows(l, P))
    BY <1>2, <1>3, SumSame
<1>5. QED
    BY <1>1, <1>4 DEF Tally

(* Rows appended add what they weigh. *)
LEMMA TallyAppend ==
    ASSUME NEW R, NEW l \in Seq(R), NEW m \in Seq(R), NEW w \in [R -> Int], NEW P
    PROVE  Tally(l \o m, P, w) = Tally(l, P, w) + Tally(m, P, w)
<1> DEFINE k == l \o m
           n == Len(l)
           A == Rows(l, P)
           B == Rows(m, P)
           C == {i \in Rows(k, P) : i > n}
           f == Weights(k, w)
           g == Weights(m, w)
           h == [i \in B |-> n + i]
<1>1. /\ k \in Seq(R) /\ DOMAIN k = 1..(n + Len(m)) /\ n \in Nat /\ Len(m) \in Nat
      /\ DOMAIN l = 1..n /\ DOMAIN m = 1..Len(m)
      /\ \A i \in DOMAIN l : k[i] = l[i] /\ i <= n
      /\ \A i \in DOMAIN m : k[n + i] = m[i] /\ n + i \in DOMAIN k
      /\ \A i \in DOMAIN k : i > n => i - n \in DOMAIN m /\ i = n + (i - n)
    OBVIOUS
<1>2. /\ IsFiniteSet(Rows(k, P)) /\ Ints(f, Rows(k, P))
      /\ IsFiniteSet(A) /\ IsFiniteSet(B) /\ Ints(g, B)
    <2> HIDE DEF k
    <2>1. QED
        BY <1>1, RowsTyped
<1>3. Rows(k, P) = A \cup C /\ A \cap C = {}
    BY <1>1 DEF Rows
<1>4. IsFiniteSet(C) /\ Ints(f, A) /\ Ints(f, C)
    <2>1. C \subseteq Rows(k, P) /\ A \subseteq Rows(k, P)
        BY <1>3
    <2> HIDE DEF A, C, f, k
    <2>2. QED
        BY <1>2, <2>1, FS_Subset DEF Ints
<1>5. SumFunctionOnSet(f, A \cup C) = SumFunctionOnSet(f, A) + SumFunctionOnSet(f, C)
    <2> HIDE DEF A, C, f
    <2>1. QED
        BY <1>2, <1>3, <1>4, SumUnion
<1>6. SumFunctionOnSet(f, A) = Tally(l, P, w)
    <2>1. /\ \A i \in A : f[i] = w[l[i]]
          /\ \A i : i \in A <=> i \in DOMAIN l /\ l[i] \in P
        BY <1>1 DEF Rows, Weights
    <2> HIDE DEF A, f
    <2>2. QED
        BY <2>1, TallyIs
<1>7. SumFunctionOnSet(g, B) = SumFunctionOnSet(f, C)
    <2>1. \A i \in B : /\ i \in DOMAIN m /\ i \in Nat /\ i > 0 /\ h[i] = n + i
                       /\ n + i \in DOMAIN k /\ n + i > n /\ k[n + i] = m[i] /\ m[i] \in P
        BY <1>1 DEF Rows
    <2>2. \A i \in B : h[i] \in C /\ f[h[i]] = g[i]
        BY <2>1 DEF Rows, Weights
    <2>3. \A i, j \in B : h[i] = h[j] => i = j
        BY <1>1, <2>1
    <2>4. \A x \in C : \E i \in B : h[i] = x
        <3> SUFFICES ASSUME NEW x \in C PROVE x - n \in B /\ h[x - n] = x
            OBVIOUS
        <3>1. QED
            BY <1>1 DEF Rows
    <2>5. h \in Bijection(B, C)
        BY <2>2, <2>3, <2>4 DEF Bijection, Injection, Surjection, IsInjective
    <2> HIDE DEF B, C, f, g, h, k
    <2>6. QED
        BY <1>2, <2>2, <2>3, <2>4, <2>5, SumMap
<1>8. QED
    BY <1>3, <1>5, <1>6, <1>7 DEF Tally

(* Rows that stay in the figure when they are rewritten, with their weight.*)
LEMMA TallySame ==
    ASSUME NEW R, NEW l \in Seq(R), NEW m \in Seq(R), NEW w \in [R -> Int], NEW P, NEW Q,
           DOMAIN m = DOMAIN l,
           \A i \in DOMAIN l : (l[i] \in P <=> m[i] \in Q) /\ (l[i] \in P => w[m[i]] = w[l[i]])
    PROVE  Tally(l, P, w) = Tally(m, Q, w)
<1>1. /\ \A i : i \in Rows(m, Q) <=> i \in DOMAIN l /\ l[i] \in P
      /\ \A i \in Rows(m, Q) : Weights(m, w)[i] = w[l[i]]
    BY DEF Rows, Weights
<1>2. SumFunctionOnSet(Weights(m, w), Rows(m, Q)) = Tally(l, P, w)
    BY <1>1, TallyIs
<1>3. QED
    BY <1>2 DEF Tally

(* Rows that are all outside weigh nothing. *)
LEMMA TallyNone ==
    ASSUME NEW l, NEW P, NEW w, \A i \in DOMAIN l : l[i] \notin P
    PROVE  Tally(l, P, w) = 0
<1>1. Rows(l, P) = {}
    BY DEF Rows
<1>2. QED
    BY <1>1, SumEmpty DEF Tally

LEMMA TallyOne ==
    ASSUME NEW R, NEW r \in R, NEW w \in [R -> Int], NEW P, r \in P
    PROVE  Tally(<<r>>, P, w) = w[r]
<1>1. Rows(<<r>>, P) = {1} /\ Weights(<<r>>, w)[1] = w[r] /\ w[r] \in Int
    BY DEF Rows, Weights
<1>2. QED
    BY <1>1, SumOne DEF Tally

(* The rows of a figure may be taken by groups. *)
Grouped(l, P, K, key, Q) ==
    /\ \A i \in Rows(l, P) : key[i] \in K
    /\ \A k \in K : \A i : i \in Rows(l, Q[k]) <=> i \in Rows(l, P) /\ key[i] = k
Totals(g, l, K, Q, w) == \A k \in K : g[k] = Tally(l, Q[k], w)

LEMMA TallySplit ==
    ASSUME NEW R, NEW l \in Seq(R), NEW w \in [R -> Int], NEW P,
           NEW K, IsFiniteSet(K),
           NEW key, NEW Q, Grouped(l, P, K, key, Q), NEW g, Totals(g, l, K, Q, w)
    PROVE  Tally(l, P, w) = SumFunctionOnSet(g, K)
<1> DEFINE S == Rows(l, P)
           f == Weights(l, w)
           to == [i \in S |-> key[i]]
           rows == [k \in K |-> Rows(l, Q[k])]
<1>1. IsFiniteSet(S) /\ Ints(f, S)
    BY RowsTyped
<1>2. to \in [S -> K]
    BY DEF Grouped
<1>3. /\ \A k \in K : \A i : i \in rows[k] <=> i \in S /\ to[i] = k
      /\ \A k \in K : g[k] = SumFunctionOnSet(f, rows[k])
    BY DEF Grouped, Totals, Tally
<1>4. Tally(l, P, w) = SumFunctionOnSet(f, S)
    BY DEF Tally
<1> HIDE DEF S, f, to, rows
<1>5. SumFunctionOnSet(f, S) = SumFunctionOnSet(g, K)
    BY <1>1, <1>2, <1>3, SumSplit
<1>6. QED
    BY <1>4, <1>5

-----------------------------------------------------------------------------
(* Rows and what they weigh *)

LEMMA NoneApart == /\ None \notin Int /\ None \notin Nat /\ None \notin Sale
                   /\ None \notin Batch /\ None \notin Day
BY MoneyIds, MoneyBounds DEF Day

LEMMA Times ==
    \A a, b \in Int : a * b \in Int /\ a * 0 = 0 /\ (-a) * b = -(a * b)
                      /\ (a >= 0 /\ b >= 0 => a * b >= 0)
OBVIOUS

LEMMA WeightsTyped ==
    /\ Amounts \in [CashRow -> Int] /\ Worths \in [LedgerRow -> Int]
    /\ Quantities \in [LedgerRow -> Int]
    /\ \A m \in CashRow : Amounts[m] = m.amount
    /\ \A r \in LedgerRow : /\ Quantities[r] = r.qty
                            /\ Worths[r] = -r.qty * Default(r.price, 0)
                            /\ Default(r.price, 0) \in Nat
<1>1. \A r \in LedgerRow : r.qty \in Int /\ Default(r.price, 0) \in Nat
    BY DEF LedgerRow, Default, Price
<1>2. \A r \in LedgerRow : -r.qty * Default(r.price, 0) \in Int
    BY <1>1, Times
<1>3. \A m \in CashRow : m.amount \in Int
    BY DEF CashRow
<1>4. QED
    BY <1>1, <1>2, <1>3 DEF Amounts, Quantities, Worths

(* What entering a row does to it. *)
BookedRow(r, e, a, u) ==
    /\ r \in LedgerRow /\ e \in LedgerRow
    /\ e.type = r.type /\ e.product = r.product /\ e.qty = r.qty
    /\ e.price = r.price /\ e.cost = r.cost /\ e.batch = r.batch /\ e.sale = r.sale
    /\ e.day = Default(r.day, a) /\ e.local = a /\ e.utc = u

BookedMove(m, e, a, u) ==
    /\ m \in CashRow /\ e \in CashRow
    /\ e.category = m.category /\ e.amount = m.amount
    /\ e.currency = m.currency /\ e.sale = m.sale
    /\ e.day = Default(m.day, a) /\ e.local = a /\ e.utc = u

LEMMA EnteredRow ==
    ASSUME NEW r \in LedgerRow, NEW a \in Day, NEW u \in Day
    PROVE  BookedRow(r, Entered(r, a, u), a, u)
BY DEF LedgerRow, Entered, Default, NoDay, BookedRow

LEMMA EnteredMove ==
    ASSUME NEW m \in CashRow, NEW a \in Day, NEW u \in Day
    PROVE  BookedMove(m, Entered(m, a, u), a, u)
BY DEF CashRow, Entered, Default, NoDay, BookedMove

LEMMA EnteredRows ==
    ASSUME NEW l \in Seq(LedgerRow), NEW a \in Day, NEW u \in Day
    PROVE  /\ EnteredAll(l, a, u) \in Seq(LedgerRow)
           /\ DOMAIN EnteredAll(l, a, u) = DOMAIN l
           /\ \A i \in DOMAIN l : BookedRow(l[i], EnteredAll(l, a, u)[i], a, u)
<1> DEFINE e == EnteredAll(l, a, u)
<1>1. /\ DOMAIN l = 1..Len(l) /\ Len(l) \in Nat /\ e = [i \in 1..Len(l) |-> e[i]]
      /\ \A i \in DOMAIN l : l[i] \in LedgerRow /\ e[i] = Entered(l[i], a, u)
    BY DEF EnteredAll
<1>2. \A i \in DOMAIN l : BookedRow(l[i], e[i], a, u)
    BY <1>1, EnteredRow
<1> HIDE DEF e
<1>3. \A i \in 1..Len(l) : e[i] \in LedgerRow
    BY <1>1, <1>2 DEF BookedRow
<1>4. e \in Seq(LedgerRow) /\ DOMAIN e = DOMAIN l
    BY <1>1, <1>3
<1>5. QED
    BY <1>2, <1>4 DEF e

LEMMA EnteredMoves ==
    ASSUME NEW l \in Seq(CashRow), NEW a \in Day, NEW u \in Day
    PROVE  /\ EnteredAll(l, a, u) \in Seq(CashRow)
           /\ DOMAIN EnteredAll(l, a, u) = DOMAIN l
           /\ \A i \in DOMAIN l : BookedMove(l[i], EnteredAll(l, a, u)[i], a, u)
<1> DEFINE e == EnteredAll(l, a, u)
<1>1. /\ DOMAIN l = 1..Len(l) /\ Len(l) \in Nat /\ e = [i \in 1..Len(l) |-> e[i]]
      /\ \A i \in DOMAIN l : l[i] \in CashRow /\ e[i] = Entered(l[i], a, u)
    BY DEF EnteredAll
<1>2. \A i \in DOMAIN l : BookedMove(l[i], e[i], a, u)
    BY <1>1, EnteredMove
<1> HIDE DEF e
<1>3. \A i \in 1..Len(l) : e[i] \in CashRow
    BY <1>1, <1>2 DEF BookedMove
<1>4. e \in Seq(CashRow) /\ DOMAIN e = DOMAIN l
    BY <1>1, <1>3
<1>5. QED
    BY <1>2, <1>4 DEF e

(* What the rows of a plan add to a batch is a number. *)
LEMMA GainTyped ==
    ASSUME NEW l \in Seq(LedgerRow), NEW b
    PROVE  Gain(l, b) \in Int
<1> DEFINE S == {i \in DOMAIN l : l[i].batch = b}
           P == {r \in LedgerRow : r.batch = b}
           f == [i \in S |-> l[i].qty]
<1>1. /\ \A i : i \in S <=> i \in DOMAIN l /\ l[i] \in P
      /\ \A i \in S : f[i] = Quantities[l[i]]
    BY WeightsTyped
<1>2. Gain(l, b) = SumFunctionOnSet(f, S)
    BY DEF Gain, SumBy
<1> HIDE DEF S, P, f
<1>3. SumFunctionOnSet(f, S) = Tally(l, P, Quantities)
    BY <1>1, TallyIs, WeightsTyped
<1>4. QED
    BY <1>2, <1>3, RowsTyped, WeightsTyped

(* The balance of a currency. *)
LEMMA BalanceIs ==
    ASSUME NEW l \in Seq(CashRow), NEW c
    PROVE  LET S == {i \in DOMAIN l : l[i].currency = c}
           IN  /\ SumFunctionOnSet([i \in S |-> l[i].amount], S) = Tally(l, MovesIn(c), Amounts)
               /\ Tally(l, MovesIn(c), Amounts) \in Int
<1> DEFINE S == {i \in DOMAIN l : l[i].currency = c}
           f == [i \in S |-> l[i].amount]
<1>1. \A i \in DOMAIN l : l[i] \in CashRow
    OBVIOUS
<1>2. /\ \A i : i \in S <=> i \in DOMAIN l /\ l[i] \in MovesIn(c)
      /\ \A i \in S : f[i] = Amounts[l[i]]
    BY <1>1, WeightsTyped DEF MovesIn
<1>3. Amounts \in [CashRow -> Int]
    BY WeightsTyped
<1> HIDE DEF S, f
<1>4. SumFunctionOnSet(f, S) = Tally(l, MovesIn(c), Amounts)
    BY <1>2, <1>3, TallyIs
<1>5. Tally(l, MovesIn(c), Amounts) \in Int
    BY <1>3, RowsTyped
<1>6. QED
    BY <1>4, <1>5 DEF S, f

LEMMA BalanceTyped ==
    ASSUME cash \in Seq(CashRow), NEW c
    PROVE  /\ compute_balance(c) = Tally(cash, MovesIn(c), Amounts)
           /\ compute_balance(c) \in Int
<1>1. compute_balance(c) = Tally(cash, MovesIn(c), Amounts)
    BY BalanceIs DEF compute_balance, SumBy
<1>2. QED
    BY <1>1, BalanceIs

-----------------------------------------------------------------------------
(* Requests in flight: how other steps leave a plan *)

(* What every step keeps: the ledger only grows, batches stay where they   *)
(* are, and a relabelled warehouse is an edit.                             *)
Grown == /\ \A i \in DOMAIN ledger : i \in DOMAIN ledger' /\ ledger'[i] = ledger[i]
         /\ DOMAIN batches \subseteq DOMAIN batches'
         /\ \A b \in DOMAIN batches : batches'[b].warehouse = batches[b].warehouse
         /\ \/ edits' = edits /\ currency' = currency
            \/ edits' = edits + 1

LEMMA PlanKept ==
    ASSUME TypeOK, Grown, NEW p, GoodPlan(p), DOMAIN p.births \cap DOMAIN batches' = {}
    PROVE  GoodPlan(p)'
<1>1. PlanTyped(p)'
    <2>1. edits \in Nat /\ edits' \in Nat /\ edits <= edits'
        BY MoneyBounds DEF TypeOK, Grown
    <2>2. QED
        BY <2>1 DEF GoodPlan, PlanTyped
<1>2. PlanFits(p)'
    BY DEF GoodPlan, PlanFits, Grown, SoldBefore, InASale
<1>3. PlanBalanced(p)'
    BY DEF GoodPlan, PlanBalanced
<1>4. PlanInOneCurrency(p)'
    <2>1. edits' = 0 => edits = 0 /\ currency' = currency
        BY MoneyBounds DEF TypeOK, Grown
    <2>2. SUFFICES ASSUME edits' = 0, p.kind \in Goods
                   PROVE  \A i \in DOMAIN p.rows :
                             PlannedIn(p, p.rows[i])' = PlannedIn(p, p.rows[i])
        BY <2>1 DEF GoodPlan, PlanInOneCurrency
    <2>3. \A i \in DOMAIN p.rows :
             p.rows[i].batch \in DOMAIN batches \cup DOMAIN p.births \cup {None}
        BY DEF GoodPlan, PlanFits
    <2>4. QED
        BY <2>1, <2>2, <2>3 DEF PlannedIn, operation_currency, Grown
<1>5. PlanCovered(p)'
    BY DEF GoodPlan, PlanCovered
<1>6. QED
    BY <1>1, <1>2, <1>3, <1>4, <1>5 DEF GoodPlan

(* A request that was planned well. *)
Takes(t, new) ==
    /\ GoodPlan(new) /\ Valued(new)
    /\ DOMAIN new.births \cap UNION {DOMAIN request[u].births : u \in Thread} = {}
    /\ served < MaxServed /\ served' = served + 1
    /\ request' = [request EXCEPT ![t] = new]
    /\ UNCHANGED <<ledger, cash, batches, currency, card, today, edits>>

(* A plan that is good after the step is so under its request's name.      *)
LEMMA SamePlan ==
    ASSUME NEW u \in Thread, NEW p, p = request'[u], GoodPlan(p)'
    PROVE  GoodPlan(request[u])'
<1>1. PlanTyped(request[u])'
    BY DEF GoodPlan, PlanTyped
<1>2. PlanFits(request[u])'
    BY DEF GoodPlan, PlanFits
<1>3. PlanBalanced(request[u])'
    BY DEF GoodPlan, PlanBalanced
<1>4. PlanInOneCurrency(request[u])'
    BY DEF GoodPlan, PlanInOneCurrency, PlannedIn
<1>5. PlanCovered(request[u])'
    BY DEF GoodPlan, PlanCovered
<1>6. QED
    BY <1>1, <1>2, <1>3, <1>4, <1>5 DEF GoodPlan

LEMMA TakesKeeps ==
    ASSUME Base, NEW t \in Thread, NEW new, Takes(t, new)
    PROVE  Base' /\ Grown
<1>1. TypeOK' /\ Grown
    BY MoneyBounds DEF Base, TypeOK, Takes, Grown, Stored
<1>2. /\ \A u \in Thread : request'[u] = IF u = t THEN new ELSE request[u]
      /\ request' = [u \in Thread |-> request'[u]]
    BY DEF Base, Plans, Takes
<1>3. ASSUME NEW u \in Thread PROVE GoodPlan(request[u])'
    <2>1. PICK p : p = request'[u]
        OBVIOUS
    <2>2. GoodPlan(p) /\ DOMAIN p.births \cap DOMAIN batches' = {}
        BY <1>2, <2>1 DEF Base, Plans, Takes, GoodPlan, PlanFits
    <2>3. GoodPlan(p)'
        BY <1>1, <2>2, PlanKept DEF Base
    <2>4. QED
        BY <2>1, <2>3, SamePlan
<1>4. BirthsApart'
    BY <1>2 DEF Base, Plans, Takes, BirthsApart
<1>5. QED
    BY <1>1, <1>2, <1>3, <1>4 DEF Base, Plans

-----------------------------------------------------------------------------
(* Every request is planned well *)

LEMMA ElementOf == ASSUME NEW R, NEW l \in Seq(R) PROVE \A i \in DOMAIN l : l[i] \in R
OBVIOUS

LEMMA OneOfIn == ASSUME NEW S PROVE OneOf(S) \subseteq S
BY DEF OneOf

LEMMA DayOf == ASSUME TypeOK, NEW d \in OpDate PROVE Default(d, today) \in Day /\ today \in Day
BY MoneyBounds, NoneApart DEF TypeOK, OpDate, Default, Day

LEMMA OpTyped ==
    ASSUME NEW type \in OpType, NEW p \in Product, NEW q \in Int, NEW price \in Price,
           NEW cost \in Price, NEW b \in Batch \cup {None}, NEW s \in Sale \cup {None},
           NEW d \in NoDay
    PROVE  Op(type, p, q, price, cost, b, s, d) \in LedgerRow
BY DEF Op, LedgerRow, NoDay

LEMMA MoveTyped ==
    ASSUME NEW k \in CASH_CATEGORIES, NEW a \in Int, NEW c \in Currency,
           NEW s \in Sale \cup {None}, NEW d \in NoDay
    PROVE  Move(k, a, c, s, d) \in CashRow
BY DEF Move, CashRow, NoDay

LEMMA Categories ==
    /\ CASH_CATEGORIES = {"sale", "return", "withdrawal_supplier", "withdrawal_other",
                          "deposit_correction"}
    /\ CASH_BUCKETS.sale = {"sale"} /\ CASH_BUCKETS.return = {"return"}
    /\ CASH_BUCKETS.withdrawal = {"withdrawal_supplier", "withdrawal_other"}
    /\ CASH_BUCKETS.deposit = {"deposit_correction"}
BY DEF CASH_CATEGORIES, CASH_BUCKETS

LEMMA CostTyped ==
    ASSUME TypeOK, NEW b \in DOMAIN batches, NEW c \in Currency
    PROVE  LineCost(b, c) \in Price
BY DEF TypeOK, LineCost, Default, Price, BatchRow

(* A basket: its credit is the worth of its lines. *)
LEMMA SellTakes ==
    ASSUME Base, NEW t \in Thread, Free(t), NEW lines \in Basket, NEW d \in OpDate,
           NEW s \in OneOf(FreshSale), NEW confirm \in BOOLEAN,
           register_sale(t, lines, s, d, confirm)
    PROVE  \E new : Takes(t, new)
<1> DEFINE used == {lines[i].batch : i \in DOMAIN lines}
           c == CHOOSE x \in Currencies(used) : TRUE
           day == Default(d, today)
           row(i) == Op("sale", batches[lines[i].batch].product, -lines[i].qty,
                        lines[i].price, LineCost(lines[i].batch, c), lines[i].batch, s, day)
           rows == [i \in DOMAIN lines |-> row(i)]
           S == DOMAIN lines
           f == [i \in S |-> lines[i].qty * lines[i].price]
           amount == SumFunctionOnSet(f, S)
           move == Move("sale", amount, c, s, day)
           new == [NoRequest EXCEPT !.kind = "sale", !.rows = rows, !.moves = <<move>>,
                                    !.edits = edits, !.card = card]
<1>0. TypeOK
    BY DEF Base
<1>1. /\ lines \in Seq([batch : Batch, qty : Nat \ {0}, price : Nat])
      /\ S = 1..Len(lines) /\ Len(lines) \in Nat /\ IsFiniteSet(S)
      /\ \A i \in S : /\ lines[i].batch \in DOMAIN batches
                      /\ lines[i].qty \in Nat /\ lines[i].price \in Nat
    <2>1. lines \in Seq([batch : Batch, qty : Nat \ {0}, price : Nat])
        BY Forms
    <2>2. S = 1..Len(lines) /\ Len(lines) \in Nat
        BY <2>1
    <2>3. \A i \in S : lines[i].batch \in DOMAIN batches
        BY DEF register_sale
    <2>4. \A i \in S : lines[i].qty \in Nat /\ lines[i].price \in Nat
        <3>1. \A i \in S : lines[i] \in [batch : Batch, qty : Nat \ {0}, price : Nat]
            BY <2>1, ElementOf
        <3> HIDE DEF S
        <3>2. QED
            BY <3>1
    <2>5. IsFiniteSet(S)
        BY <2>2, FS_Interval
    <2>6. QED
        BY <2>1, <2>2, <2>3, <2>4, <2>5
<1>2. c \in Currency /\ \A i \in S : currency[batches[lines[i].batch].warehouse] = c
    <2>1. Currencies(used) \subseteq Currency
        BY <1>0, <1>1 DEF Currencies, TypeOK, BatchRow
    <2>2. IsFiniteSet(Currencies(used)) /\ Cardinality(Currencies(used)) = 1
        BY <2>1, MoneyIds, FS_Subset DEF register_sale
    <2>3. PICK x : Currencies(used) = {x}
        BY <2>2, FS_Singleton
    <2>4. \A i \in S : currency[batches[lines[i].batch].warehouse] \in Currencies(used)
        BY DEF Currencies
    <2> HIDE DEF used
    <2>5. QED
        BY <2>1, <2>3, <2>4
<1>3. s \in Sale /\ day \in Day
    BY <1>0, OneOfIn, DayOf DEF FreshSale
<1>4. ASSUME NEW i \in S
      PROVE  /\ row(i) \in LedgerRow /\ rows[i] = row(i)
             /\ Worths[row(i)] = f[i] /\ f[i] \in Int /\ f[i] >= 0
             /\ row(i).type = "sale" /\ row(i).sale = s /\ row(i).day = day
             /\ row(i).batch = lines[i].batch /\ row(i).qty <= 0
             /\ row(i).cost = LineCost(lines[i].batch, c)
    <2>1. batches[lines[i].batch].product \in Product /\ lines[i].batch \in Batch
        BY <1>0, <1>1 DEF TypeOK, BatchRow
    <2>2. LineCost(lines[i].batch, c) \in Price
        BY <1>0, <1>1, <1>2, CostTyped
    <2>3. row(i) \in LedgerRow
        <3>1. lines[i].price \in Price /\ -lines[i].qty \in Int /\ day \in NoDay
            BY <1>1, <1>3 DEF Price, NoDay
        <3> HIDE DEF c, day
        <3>2. QED
            BY <1>3, <2>1, <2>2, <3>1, OpTyped DEF OpType
    <2>4. /\ row(i).qty = -lines[i].qty /\ row(i).price = lines[i].price
          /\ row(i).type = "sale" /\ row(i).sale = s /\ row(i).day = day
          /\ row(i).batch = lines[i].batch /\ row(i).cost = LineCost(lines[i].batch, c)
        BY DEF Op
    <2>5. Default(row(i).price, 0) = lines[i].price
        BY <1>1, <2>4, NoneApart DEF Default
    <2>6. Worths[row(i)] = -(-lines[i].qty) * lines[i].price
        <3> HIDE DEF row
        <3>1. QED
            BY <2>3, <2>4, <2>5, WeightsTyped
    <2>7. -(-lines[i].qty) * lines[i].price = f[i] /\ f[i] \in Int /\ f[i] >= 0
        <3>1. PICK x \in Nat, y \in Nat : x = lines[i].qty /\ y = lines[i].price
            BY <1>1
        <3>2. f[i] = x * y /\ -(-x) = x
            BY <3>1
        <3> HIDE DEF f
        <3>3. QED
            BY <3>1, <3>2, Times
    <2>9. row(i).qty <= 0
        BY <1>1, <2>4
    <2> HIDE DEF row, f
    <2>8. QED
        BY <2>3, <2>4, <2>6, <2>7, <2>9
<1> HIDE DEF row
<1>5. rows \in Seq(LedgerRow) /\ DOMAIN rows = S
    <2>1. \A i \in S : row(i) \in LedgerRow
        BY <1>4
    <2>2. QED
        BY <1>1, <2>1
<1>6. Ints(f, S)
    BY <1>4 DEF Ints
<1> HIDE DEF rows, f
<1>7. amount = Tally(rows, LedgerRow, Worths) /\ amount \in Int /\ amount >= 0
    <2>1. amount \in Int /\ amount >= 0
        BY <1>1, <1>4, <1>6, SumPick, SumNotNegative
    <2>2. \A i : i \in S <=> i \in DOMAIN rows /\ rows[i] \in LedgerRow
        BY <1>4, <1>5
    <2>3. \A i \in S : f[i] = Worths[rows[i]]
        BY <1>4
    <2> HIDE DEF S
    <2>4. QED
        BY <1>5, <2>1, <2>2, <2>3, TallyIs, WeightsTyped
<1> HIDE DEF amount, c, day
<1>8. /\ move \in CashRow /\ move.category = "sale" /\ move.sale = s /\ move.day = day
      /\ move.currency = c /\ move.amount = amount
    BY <1>2, <1>3, <1>7, MoveTyped, Categories DEF Move, NoDay
<1> HIDE DEF move
<1>9. Tally(<<move>>, CashRow, Amounts) = amount /\ <<move>> \in Seq(CashRow)
    BY <1>8, TallyOne, WeightsTyped
<1>10. /\ new.kind = "sale" /\ new.rows = rows /\ new.moves = <<move>> /\ new.births = NoBirth
       /\ new.prices = None /\ new.edits = edits /\ DOMAIN new.births = {} /\ new.card = card
    BY DEF NoRequest, NoBirth
<1>11. Plan(t, [NoRequest EXCEPT !.kind = "sale", !.rows = rows, !.moves = <<move>>])
    BY DEF register_sale, rows, row, c, day, move, amount, f, SaleCredit, SumBy
<1>12. request' = [request EXCEPT ![t] = new]
    BY <1>11 DEF Plan, NoRequest
<1> HIDE DEF new
<1>13. PlanTyped(new)
    BY <1>0, <1>5, <1>9, <1>10, MoneyBounds DEF PlanTyped, TypeOK
<1>14. PlanFits(new)
    BY <1>1, <1>3, <1>4, <1>5, <1>10, NoneApart DEF PlanFits, InASale, Goods
<1>15. PlanBalanced(new)
    BY <1>3, <1>4, <1>5, <1>7, <1>8, <1>9, <1>10 DEF PlanBalanced, Goods
<1>16. PlanInOneCurrency(new)
    <2>1. \A i \in S : PlannedIn(new, rows[i]) = c
        <3>1. \A i \in S : rows[i].batch = lines[i].batch /\ rows[i].batch # None
            BY <1>0, <1>1, <1>4, NoneApart DEF TypeOK
        <3>2. QED
            BY <1>2, <1>10, <3>1 DEF PlannedIn, operation_currency
    <2>2. QED
        BY <1>2, <1>5, <1>8, <1>10, <2>1 DEF PlanInOneCurrency
<1>17. PlanCovered(new)
    BY <1>7, <1>8, <1>10 DEF PlanCovered
<1>20. Valued(new)
    <2>1. \A i \in S : LineCost(lines[i].batch, c) =
                      LET b == batches[lines[i].batch]
                      IN  Default(b.cost, card[b.product][currency[b.warehouse]].cost)
        BY <1>2 DEF LineCost
    <2>2. SaleValued(new)
        <3>1. ASSUME NEW i \in DOMAIN new.rows
              PROVE  LET r == new.rows[i]
                         b == batches[r.batch]
                     IN  /\ r.batch \in DOMAIN batches /\ r.qty <= 0
                         /\ r.cost = Default(b.cost, new.card[b.product][currency[b.warehouse]].cost)
            <4>1. i \in S /\ new.rows[i] = row(i) /\ new.card = card
                BY <1>4, <1>5, <1>10
            <4>2. /\ row(i).batch = lines[i].batch /\ row(i).qty <= 0
                  /\ row(i).cost = LineCost(lines[i].batch, c)
                BY <1>4, <4>1
            <4>3. QED
                BY <1>1, <2>1, <4>1, <4>2
        <3>2. QED
            BY <1>10, <3>1 DEF SaleValued
    <2>3. QED
        BY <1>10, <2>2, FS_EmptySet DEF Valued
<1>18. Takes(t, new)
    BY <1>10, <1>11, <1>12, <1>13, <1>14, <1>15, <1>16, <1>17, <1>20 DEF Takes, GoodPlan, Plan, Free
<1>19. QED
    BY <1>18

(* A return: its debit is the worth of its row, in the currency of the     *)
(* warehouse the goods go back to.                                         *)
LEMMA ReturnTakes ==
    ASSUME Base, NEW t \in Thread, Free(t), NEW origin \in DOMAIN ledger, NEW qty \in Pieces,
           NEW d \in OpDate, NEW into \in ReturnBatch(ledger[origin]),
           register_return(t, origin, qty, into, d)
    PROVE  \E new : Takes(t, new)
<1> DEFINE o == ledger[origin]
           day == Default(d, today)
           born == into \notin DOMAIN batches
           w == IF born THEN DefaultWarehouse ELSE batches[into].warehouse
           debit == qty * RefundPrice(o)
           row == Op("return", o.product, qty, o.price, o.cost, into, o.sale, day)
           births == IF born THEN [b \in {into} |-> NewBatch(o.product, w, None, TRUE)]
                     ELSE NoBirth
           move == Move("return", -debit, currency[w], o.sale, day)
           moves == IF debit = 0 THEN <<>> ELSE <<move>>
           new == [NoRequest EXCEPT !.kind = "return", !.rows = <<row>>, !.births = births,
                                    !.moves = moves, !.edits = edits, !.card = card]
<1>0. TypeOK
    BY DEF Base
<1>1. /\ o \in LedgerRow /\ o.batch \in DOMAIN batches \cup {None} /\ o.type = "sale"
      /\ o.sale \in Sale /\ day \in Day /\ qty \in Nat
    <2>1. o \in LedgerRow /\ o.batch \in DOMAIN batches \cup {None}
        BY <1>0 DEF TypeOK
    <2>2. o.type = "sale" /\ o.sale # None
        BY DEF register_return
    <2>3. day \in Day /\ qty \in Nat
        BY <1>0, MoneyBounds, DayOf
    <2> HIDE DEF o, day
    <2>4. QED
        BY <2>1, <2>2, <2>3 DEF LedgerRow
<1>2. into \in Batch /\ (born => into \in FreshBatch)
    <2>1. o.batch # None => into \in DOMAIN batches
        BY <1>1 DEF ReturnBatch
    <2>2. o.batch = None => into \in legacy_batch(o.product) \cup FreshBatch
        BY OneOfIn DEF ReturnBatch
    <2>3. DOMAIN batches \subseteq Batch /\ FreshBatch \subseteq Batch
        BY <1>0 DEF TypeOK, FreshBatch
    <2>4. QED
        BY <2>1, <2>2, <2>3 DEF legacy_batch
<1>3. w \in Warehouse /\ currency[w] \in Currency
    BY <1>0, MoneyIds DEF TypeOK, BatchRow
<1>4. debit \in Nat /\ Worths[row] = -debit /\ row \in LedgerRow
    <2>1. RefundPrice(o) = Default(o.price, 0) /\ RefundPrice(o) \in Nat
        BY <1>1, WeightsTyped DEF RefundPrice
    <2>2. debit \in Int /\ debit >= 0 /\ (-qty) * RefundPrice(o) = -debit
        BY <1>1, <2>1, Times
    <2>3. row \in LedgerRow
        <3>1. /\ o.product \in Product /\ o.price \in Price /\ o.cost \in Price
              /\ day \in NoDay /\ qty \in Int
            BY <1>1 DEF LedgerRow, NoDay
        <3> HIDE DEF o, day
        <3>2. QED
            BY <1>1, <1>2, <3>1, OpTyped DEF OpType
    <2>4. row.qty = qty /\ row.price = o.price
        BY DEF Op
    <2>5. Worths[row] = -qty * Default(o.price, 0)
        <3> HIDE DEF row, o
        <3>1. QED
            BY <2>3, <2>4, WeightsTyped
    <2> HIDE DEF row, o, debit
    <2>6. QED
        BY <2>1, <2>2, <2>3, <2>5 DEF debit
<1>5. /\ row.type = "return" /\ row.sale = o.sale /\ row.day = day /\ row.batch = into
      /\ row.product = o.product /\ row.price = o.price
    BY DEF Op
<1>6. /\ move \in CashRow /\ move.category = "return" /\ move.sale = o.sale /\ move.day = day
      /\ move.currency = currency[w] /\ move.amount = -debit
    <2>1. -debit \in Int /\ day \in NoDay /\ o.sale \in Sale \cup {None}
        BY <1>1, <1>4 DEF NoDay
    <2> HIDE DEF debit, w, day, o
    <2>2. QED
        BY <1>3, <2>1, MoveTyped, Categories DEF Move
<1>7. /\ births \in [DOMAIN births -> BatchRow]
      /\ DOMAIN births = IF born THEN {into} ELSE {}
      /\ born => births[into].warehouse = w /\ births[into].quantity = 0
    BY <1>1, <1>3 DEF NewBatch, BatchRow, NoBirth, Price, LedgerRow
<1>8. Plan(t, [NoRequest EXCEPT !.kind = "return", !.rows = <<row>>, !.births = births,
                                !.moves = moves])
    BY DEF register_return
<1>9. request' = [request EXCEPT ![t] = new]
    BY <1>8 DEF Plan, NoRequest
<1>10. /\ new.kind = "return" /\ new.rows = <<row>> /\ new.moves = moves
       /\ new.births = births /\ new.prices = None /\ new.edits = edits
    BY DEF NoRequest
<1>11. SoldBefore(ledger, row)
    BY <1>1, <1>5 DEF SoldBefore
<1>12. born => currency[w] = IF into \in DOMAIN births THEN currency[births[into].warehouse]
                             ELSE operation_currency(row)
    BY <1>7
<1>13. ~born => operation_currency(row) = currency[w] /\ into # None
    BY <1>0, <1>2, <1>5, NoneApart DEF operation_currency
<1> HIDE DEF row, o, day, w, debit, births, move, new, moves
<1>14. /\ moves \in Seq(CashRow) /\ Tally(moves, CashRow, Amounts) = -debit
       /\ \A i \in DOMAIN moves : moves[i] = move
    <2>1. CASE debit = 0
        <3>1. Tally(<<>>, CashRow, Amounts) = 0
            BY TallyNone
        <3>2. QED
            BY <2>1, <3>1 DEF moves
    <2>2. CASE debit # 0
        <3>1. Tally(<<move>>, CashRow, Amounts) = move.amount
            BY <1>6, TallyOne, WeightsTyped
        <3>2. QED
            BY <1>6, <2>2, <3>1 DEF moves
    <2>3. QED
        BY <2>1, <2>2
<1>15. Tally(<<row>>, LedgerRow, Worths) = -debit
    BY <1>4, TallyOne, WeightsTyped
<1>16. PlanTyped(new)
    BY <1>0, <1>2, <1>4, <1>7, <1>10, <1>14, MoneyBounds DEF PlanTyped, TypeOK
<1>17. PlanFits(new)
    BY <1>1, <1>5, <1>7, <1>10, <1>11, NoneApart DEF PlanFits, InASale, Goods
<1>18. PlanBalanced(new)
    BY <1>1, <1>5, <1>6, <1>10, <1>14, <1>15 DEF PlanBalanced, Goods
<1>19. PlanInOneCurrency(new)
    BY <1>3, <1>5, <1>6, <1>7, <1>10, <1>12, <1>13, <1>14 DEF PlanInOneCurrency, PlannedIn
<1>20. PlanCovered(new)
    BY <1>10 DEF PlanCovered
<1>21. DOMAIN new.births \cap UNION {DOMAIN request[u].births : u \in Thread} = {}
    BY <1>2, <1>7, <1>10 DEF FreshBatch
<1>24. Valued(new)
    <2>1. DOMAIN new.births \subseteq {into} /\ IsFiniteSet({into})
        BY <1>7, <1>10, FS_Singleton
    <2>4. IsFiniteSet(DOMAIN new.births)
        BY <2>1, FS_Subset
    <2>2. \A b \in DOMAIN new.births : new.births[b].quantity = 0
        BY <1>7, <1>10
    <2>3. QED
        BY <1>10, <2>2, <2>4 DEF Valued
<1>22. Takes(t, new)
    BY <1>8, <1>9, <1>16, <1>17, <1>18, <1>19, <1>20, <1>21, <1>24 DEF Takes, GoodPlan, Plan, Free
<1>23. QED
    BY <1>22

(* A receipt and a transfer book no goods for money, and the new batch is  *)
(* their own.                                                              *)
LEMMA ReceiveTakes ==
    ASSUME Base, NEW t \in Thread, Free(t), NEW r \in Delivery,
           NEW into \in DOMAIN batches \cup OneOf(FreshBatch), NEW d \in OpDate,
           register_receipt(t, r.product, r.warehouse, r.qty, r.cost, into, d)
    PROVE  \E new : Takes(t, new)
<1> DEFINE c == currency[r.warehouse]
           dear == r.cost # None /\ r.cost # card[r.product][c].cost
           change == Op("price_change", r.product, 0, None, None, None, None, None)
           day == Default(d, today)
           row == Op("receipt", r.product, r.qty, None, r.cost, into, None, day)
           rows == (IF dear THEN <<change>> ELSE <<>>) \o <<row>>
           births == IF into \in DOMAIN batches THEN NoBirth
                     ELSE [b \in {into} |-> NewBatch(r.product, r.warehouse, r.cost, FALSE)]
           prices == IF dear THEN [product |-> r.product, currency |-> c, cost |-> r.cost]
                     ELSE None
           new == [NoRequest EXCEPT !.kind = "receipt", !.rows = rows, !.births = births,
                                    !.prices = prices, !.edits = edits, !.card = card]
<1>0. TypeOK
    BY DEF Base
<1>25. day \in Day
    BY <1>0, DayOf
<1> HIDE DEF day
<1>1. /\ r.product \in Product /\ r.warehouse \in Warehouse /\ r.cost \in Price /\ r.qty \in Int
      /\ day \in Day /\ into \in Batch /\ c \in Currency
      /\ into \in DOMAIN batches \/ into \in FreshBatch
    <2>1. /\ r \in [product : Product, warehouse : Warehouse, qty : Nat \ {0}, cost : Price]
          /\ into \in DOMAIN batches \/ into \in FreshBatch
        BY Forms, OneOfIn
    <2>2. QED
        BY <1>0, <1>25, <2>1, MoneyBounds DEF TypeOK, FreshBatch
<1>2. /\ change \in LedgerRow /\ change.type = "price_change" /\ change.sale = None
      /\ change.batch = None
    <2>1. None \in Price /\ None \in NoDay
        BY DEF Price, NoDay
    <2>2. QED
        BY <1>1, <2>1, OpTyped DEF OpType, Op
<1>3. /\ row \in LedgerRow /\ row.type = "receipt" /\ row.sale = None /\ row.batch = into
      /\ row.cost = r.cost
    <2>1. None \in Price /\ day \in NoDay
        BY <1>1 DEF Price, NoDay
    <2>2. QED
        BY <1>1, <2>1, OpTyped DEF OpType, Op
<1> HIDE DEF change, row
<1>4. /\ rows \in Seq(LedgerRow)
      /\ \A i \in DOMAIN rows : (dear /\ rows[i] = change) \/ rows[i] = row
    BY <1>2, <1>3
<1>5. /\ births \in [DOMAIN births -> BatchRow]
      /\ DOMAIN births = IF into \in DOMAIN batches THEN {} ELSE {into}
      /\ into \in DOMAIN births => births[into].quantity = 0 /\ births[into].cost = r.cost
      /\ into \in DOMAIN batches => births = NoBirth
    BY <1>1 DEF NewBatch, BatchRow, NoBirth
<1>16. prices = None => ~dear
    BY <1>1, MoneyIds DEF Price
<1>6. \/ prices = None
      \/ /\ prices.product \in Product /\ prices.currency \in Currency /\ prices.cost \in Nat
    BY <1>1 DEF Price
<1>7. Plan(t, [NoRequest EXCEPT !.kind = "receipt", !.rows = rows, !.births = births,
                                !.prices = prices])
    BY DEF register_receipt, row, change, day
<1>8. request' = [request EXCEPT ![t] = new]
    BY <1>7 DEF Plan, NoRequest
<1>9. /\ new.kind = "receipt" /\ new.rows = rows /\ new.moves = <<>>
      /\ new.births = births /\ new.prices = prices /\ new.edits = edits
    BY DEF NoRequest
<1> HIDE DEF c, rows, births, prices, new
<1>17. Valued(new)
    <2>4. DOMAIN new.births \subseteq {into} /\ IsFiniteSet({into})
        BY <1>5, <1>9, FS_Singleton
    <2>1. IsFiniteSet(DOMAIN new.births)
        BY <2>4, FS_Subset
    <2>2. ReceiptValued(new)
        BY <1>3, <1>4, <1>5, <1>9, <1>16 DEF ReceiptValued
    <2>3. QED
        BY <1>5, <1>9, <2>1, <2>2 DEF Valued
<1>10. PlanTyped(new)
    BY <1>0, <1>1, <1>4, <1>5, <1>6, <1>9, MoneyBounds DEF PlanTyped, TypeOK
<1>11. PlanFits(new)
    BY <1>1, <1>2, <1>3, <1>4, <1>5, <1>9 DEF PlanFits, InASale, Goods
<1>12. PlanBalanced(new)
    BY <1>2, <1>3, <1>4, <1>9 DEF PlanBalanced, Goods
<1>13. PlanInOneCurrency(new) /\ PlanCovered(new)
    BY <1>9 DEF PlanInOneCurrency, PlanCovered, Goods
<1>14. DOMAIN new.births \cap UNION {DOMAIN request[u].births : u \in Thread} = {}
    BY <1>1, <1>5, <1>9 DEF FreshBatch
<1>15. Takes(t, new)
    BY <1>7, <1>8, <1>10, <1>11, <1>12, <1>13, <1>14, <1>17 DEF Takes, GoodPlan, Plan, Free
<1>18. QED
    BY <1>15

LEMMA MovedTyped ==
    ASSUME TypeOK, NEW b \in DOMAIN batches, NEW w, NEW cost \in Price
    PROVE  MovedCost(b, w, cost) \in Price
BY DEF TypeOK, MovedCost, Default, Price, BatchRow

LEMMA TransferTakes ==
    ASSUME Base, NEW t \in Thread, Free(t), NEW h \in Haul, NEW into \in OneOf(FreshBatch),
           h.batch \in DOMAIN batches,
           NEW d \in OpDate, register_transfer(t, h.batch, h.to, h.qty, h.cost, into, d)
    PROVE  \E new : Takes(t, new)
<1> DEFINE p == batches[h.batch].product
           day == Default(d, today)
           row(x, q) == Op("transfer", p, q, None, None, x, None, day)
           from == row(h.batch, -h.qty)
           to == row(into, h.qty)
           cost == MovedCost(h.batch, h.to, h.cost)
           births == [x \in {into} |-> NewBatch(p, h.to, cost, FALSE)]
           new == [NoRequest EXCEPT !.kind = "transfer", !.typed = h.cost, !.rows = <<from, to>>,
                                    !.births = births, !.edits = edits, !.card = card]
<1>0. TypeOK
    BY DEF Base
<1>25. day \in Day
    BY <1>0, DayOf
<1> HIDE DEF day
<1>1. /\ h.to \in Warehouse /\ h.qty \in Nat /\ -h.qty \in Int /\ cost \in Price
      /\ day \in Day /\ into \in FreshBatch /\ into \in Batch /\ h.batch \in Batch
      /\ p \in Product /\ h.qty \in Int
    <2>1. /\ h \in [batch : Batch, to : Warehouse, qty : Nat \ {0}, cost : Price]
          /\ into \in FreshBatch
        BY Forms, OneOfIn
    <2>2. QED
        BY <1>0, <1>25, <2>1, MoneyBounds, MovedTyped DEF TypeOK, FreshBatch, BatchRow
<1>2. /\ from \in LedgerRow /\ from.type = "transfer" /\ from.sale = None
      /\ from.batch = h.batch /\ from.qty = -h.qty /\ to.qty = h.qty
      /\ to \in LedgerRow /\ to.type = "transfer" /\ to.sale = None /\ to.batch = into
    <2>1. None \in Price /\ day \in NoDay
        BY <1>1 DEF Price, NoDay
    <2> HIDE DEF p
    <2>2. from \in LedgerRow /\ to \in LedgerRow
        BY <1>1, <2>1, OpTyped DEF OpType
    <2>3. QED
        BY <2>2 DEF Op
<1> HIDE DEF cost
<1>3. /\ births \in [DOMAIN births -> BatchRow] /\ DOMAIN births = {into}
      /\ births[into].product = p /\ births[into].warehouse = h.to /\ births[into].cost = cost
      /\ births[into].quantity = 0
    BY <1>1 DEF NewBatch, BatchRow
<1>4. Plan(t, [NoRequest EXCEPT !.kind = "transfer", !.typed = h.cost, !.rows = <<from, to>>,
                                !.births = births])
    BY DEF register_transfer, cost, day
<1>5. request' = [request EXCEPT ![t] = new]
    BY <1>4 DEF Plan, NoRequest
<1>6. /\ new.kind = "transfer" /\ new.rows = <<from, to>> /\ new.moves = <<>>
      /\ new.births = births /\ new.prices = None /\ new.edits = edits /\ new.typed = h.cost
    BY DEF NoRequest
<1>14. h.cost = None /\ currency[h.to] = currency[batches[h.batch].warehouse] =>
          cost = batches[h.batch].cost
    BY DEF MovedCost, Default, cost
<1> HIDE DEF from, to, births, new
<1>15. Valued(new)
    <2>1. IsFiniteSet(DOMAIN new.births)
        BY <1>3, <1>6, FS_Singleton
    <2>2. new.rows[1] = from /\ new.rows[2] = to /\ Len(new.rows) = 2
        BY <1>6
    <2>3. TransferValued(new)
        BY <1>1, <1>2, <1>3, <1>6, <1>14, <2>2 DEF TransferValued
    <2>4. QED
        BY <1>3, <1>6, <2>1, <2>3 DEF Valued
<1>7. PlanTyped(new)
    BY <1>0, <1>1, <1>2, <1>3, <1>6, MoneyBounds DEF PlanTyped, TypeOK
<1>8. PlanFits(new)
    BY <1>1, <1>2, <1>3, <1>6 DEF PlanFits, InASale, Goods, FreshBatch
<1>9. PlanBalanced(new)
    BY <1>2, <1>6 DEF PlanBalanced, Goods
<1>10. PlanInOneCurrency(new) /\ PlanCovered(new)
    BY <1>6 DEF PlanInOneCurrency, PlanCovered, Goods
<1>11. DOMAIN new.births \cap UNION {DOMAIN request[u].births : u \in Thread} = {}
    BY <1>1, <1>3, <1>6 DEF FreshBatch
<1>12. Takes(t, new)
    BY <1>4, <1>5, <1>7, <1>8, <1>9, <1>10, <1>11, <1>15 DEF Takes, GoodPlan, Plan, Free
<1>13. QED
    BY <1>12

(* A manual movement is in no sale, and one that is not confirmed leaves   *)
(* the balance it saw above zero.                                          *)
LEMMA MovementTakes ==
    ASSUME Base, NEW t \in Thread, Free(t), NEW category, NEW amount \in Amount, NEW note,
           NEW c \in Currency, NEW confirm \in BOOLEAN, NEW d \in OpDate,
           record_manual_movement(t, category, amount, note, c, confirm, d)
    PROVE  \E new : Takes(t, new)
<1> DEFINE signed == IF category \in CASH_BUCKETS.withdrawal THEN -amount ELSE amount
           move == Move(category, signed, c, None, d)
           new == [NoRequest EXCEPT !.kind = "manual", !.confirm = confirm,
                       !.seen = compute_balance(c), !.moves = <<move>>,
                       !.edits = edits, !.card = card]
<1>0. TypeOK
    BY DEF Base
<1>1. /\ category \in CASH_CATEGORIES /\ category \notin Goods /\ amount \in Nat
      /\ signed \in Int /\ d \in NoDay
    BY <1>0, MoneyBounds, Categories DEF record_manual_movement, Goods, TypeOK, OpDate, NoDay, Day
<1>2. /\ move \in CashRow /\ move.category = category /\ move.sale = None
      /\ move.amount = signed
    <2> HIDE DEF signed
    <2>1. QED
        BY <1>1, MoveTyped DEF Move
<1>3. confirm \/ signed >= 0 \/ compute_balance(c) + signed >= 0
    BY <1>1 DEF record_manual_movement, CashCovers
<1>4. Plan(t, [NoRequest EXCEPT !.kind = "manual", !.confirm = confirm,
                       !.seen = compute_balance(c), !.moves = <<move>>])
    BY DEF record_manual_movement
<1>5. request' = [request EXCEPT ![t] = new]
    BY <1>4 DEF Plan, NoRequest
<1>6. /\ new.kind = "manual" /\ new.rows = <<>> /\ new.moves = <<move>> /\ new.births = NoBirth
      /\ new.prices = None /\ new.edits = edits /\ new.confirm = confirm
      /\ new.seen = compute_balance(c) /\ DOMAIN new.births = {}
    BY DEF NoRequest, NoBirth
<1> HIDE DEF signed, move, new
<1>7. PlanTyped(new) /\ PlanFits(new)
    BY <1>0, <1>2, <1>6, MoneyBounds DEF PlanTyped, PlanFits, TypeOK
<1>8. PlanBalanced(new) /\ PlanInOneCurrency(new)
    BY <1>1, <1>2, <1>6 DEF PlanBalanced, PlanInOneCurrency, Goods
<1>9. PlanCovered(new)
    <2>1. compute_balance(c) \in Int
        BY <1>0, BalanceTyped DEF TypeOK
    <2>2. QED
        BY <1>2, <1>3, <1>6, <2>1 DEF PlanCovered
<1>12. Valued(new)
    BY <1>6, FS_EmptySet DEF Valued
<1>10. Takes(t, new)
    BY <1>4, <1>5, <1>6, <1>7, <1>8, <1>9, <1>12 DEF Takes, GoodPlan, Plan, Free
<1>11. QED
    BY <1>10

-----------------------------------------------------------------------------
(* Every step keeps the types and the plans *)

LEMMA NoRequestGood == ASSUME TypeOK PROVE GoodPlan(NoRequest)
<1>1. /\ NoRequest.kind = "none" /\ NoRequest.rows = <<>> /\ NoRequest.moves = <<>>
      /\ NoRequest.births = NoBirth /\ DOMAIN NoBirth = {} /\ NoRequest.prices = None
      /\ NoRequest.edits = 0
    BY DEF NoRequest, NoBirth
<1>2. edits \in Nat
    BY MoneyBounds DEF TypeOK
<1>3. QED
    BY <1>1, <1>2 DEF GoodPlan, PlanTyped, PlanFits, PlanBalanced, PlanInOneCurrency,
                      PlanCovered, Goods

(* A step that plans nothing. *)
LEMMA PlansStay ==
    ASSUME Base, Grown, NEW t, request' \in {request, [request EXCEPT ![t] = NoRequest]},
           \A u \in Thread : \/ request'[u] = NoRequest
                             \/ DOMAIN request[u].births \cap DOMAIN batches' = {}
    PROVE  Plans'
<1>1. /\ \A u \in Thread : request'[u] \in {request[u], NoRequest}
      /\ request' = [u \in Thread |-> request'[u]]
      /\ DOMAIN NoRequest.births = {}
    BY DEF Base, Plans, NoRequest, NoBirth
<1>2. ASSUME NEW u \in Thread PROVE GoodPlan(request[u])'
    <2>1. PICK p : p = request'[u]
        OBVIOUS
    <2>2. GoodPlan(p) /\ DOMAIN p.births \cap DOMAIN batches' = {}
        <3>1. CASE request'[u] = NoRequest
            BY <1>1, <2>1, <3>1, NoRequestGood DEF Base
        <3>2. CASE request'[u] # NoRequest
            BY <1>1, <2>1, <3>2 DEF Base, Plans
        <3>3. QED
            BY <3>1, <3>2
    <2>3. GoodPlan(p)'
        BY <2>2, PlanKept DEF Base
    <2>4. QED
        BY <2>1, <2>3, SamePlan
<1>3. BirthsApart'
    BY <1>1 DEF Base, Plans, BirthsApart
<1>4. QED
    BY <1>1, <1>2, <1>3 DEF Plans

LEMMA Appended ==
    ASSUME NEW R, NEW l \in Seq(R), NEW m \in Seq(R)
    PROVE  /\ l \o m \in Seq(R) /\ DOMAIN l \subseteq DOMAIN (l \o m)
           /\ \A i \in DOMAIN l : (l \o m)[i] = l[i]
           /\ \A i \in DOMAIN (l \o m) : i \notin DOMAIN l => \E j \in DOMAIN m : (l \o m)[i] = m[j]
<1>1. /\ DOMAIN l = 1..Len(l) /\ Len(l) \in Nat /\ DOMAIN m = 1..Len(m) /\ Len(m) \in Nat
      /\ l \o m \in Seq(R) /\ DOMAIN (l \o m) = 1..(Len(l) + Len(m))
    OBVIOUS
<1>2. ASSUME NEW i \in DOMAIN (l \o m), i \notin DOMAIN l
      PROVE  i - Len(l) \in DOMAIN m /\ (l \o m)[i] = m[i - Len(l)]
    BY <1>1, <1>2
<1>3. QED
    BY <1>1, <1>2

LEMMA CardTyped ==
    ASSUME NEW k \in [Product -> [Currency -> [cost : Price, min : Price]]],
           NEW p \in Product, NEW c \in Currency, NEW cost \in Price
    PROVE  [k EXCEPT ![p][c].cost = cost] \in [Product -> [Currency -> [cost : Price, min : Price]]]
<1>1. [k[p][c] EXCEPT !.cost = cost] \in [cost : Price, min : Price]
    OBVIOUS
<1>2. [k[p] EXCEPT ![c] = [k[p][c] EXCEPT !.cost = cost]] \in [Currency -> [cost : Price, min : Price]]
    BY <1>1
<1>3. QED
    BY <1>2

(* What a commit writes: its rows, entered on one day, and its movements,  *)
(* entered on that day or the next.                                        *)
Written(t, rows, moves, utc, to) ==
    /\ request[t].rows \in Seq(LedgerRow) /\ request[t].moves \in Seq(CashRow)
    /\ rows \in Seq(LedgerRow) /\ moves \in Seq(CashRow)
    /\ ledger' = ledger \o rows /\ cash' = cash \o moves
    /\ DOMAIN rows = DOMAIN request[t].rows
    /\ \A i \in DOMAIN rows : BookedRow(request[t].rows[i], rows[i], today, utc)
    /\ DOMAIN moves = DOMAIN request[t].moves
    /\ \A i \in DOMAIN moves : BookedMove(request[t].moves[i], moves[i], to, utc)
    /\ today \in Day /\ today \in 1..MaxDay /\ to \in 1..MaxDay /\ today' = to
    /\ utc \in Day /\ to \in Day

LEMMA CommitWrites ==
    ASSUME Base, NEW t \in Thread, Commit(t)
    PROVE  \E utc, to, rows, moves : Written(t, rows, moves, utc, to)
<1>1. PICK utc \in {today - 1, today}, late \in {0, 1} :
          /\ late = 1 => today < MaxDay
          /\ ledger' = ledger \o EnteredAll(request[t].rows, today, utc)
          /\ cash' = cash \o EnteredAll(request[t].moves, today + late, utc)
          /\ today' = today + late
    BY DEF Commit
<1>2. /\ today \in 1..MaxDay /\ MaxDay \in Nat
      /\ request[t].rows \in Seq(LedgerRow) /\ request[t].moves \in Seq(CashRow)
    BY MoneyBounds DEF Base, TypeOK, Plans, GoodPlan, PlanTyped
<1>3. utc \in Day /\ today \in Day /\ today + late \in Day /\ today + late \in 1..MaxDay
    BY <1>1, <1>2 DEF Day
<1>4. PICK to : to = today + late
    OBVIOUS
<1> DEFINE rows == EnteredAll(request[t].rows, today, utc)
           moves == EnteredAll(request[t].moves, to, utc)
<1>5. /\ rows \in Seq(LedgerRow) /\ DOMAIN rows = DOMAIN request[t].rows
      /\ \A i \in DOMAIN rows : BookedRow(request[t].rows[i], rows[i], today, utc)
    BY <1>2, <1>3, EnteredRows
<1>6. /\ moves \in Seq(CashRow) /\ DOMAIN moves = DOMAIN request[t].moves
      /\ \A i \in DOMAIN moves : BookedMove(request[t].moves[i], moves[i], to, utc)
    BY <1>2, <1>3, <1>4, EnteredMoves
<1>7. ledger' = ledger \o rows /\ cash' = cash \o moves
    BY <1>1, <1>4
<1> HIDE DEF rows, moves
<1>8. Written(t, rows, moves, utc, to)
    BY <1>1, <1>2, <1>3, <1>4, <1>5, <1>6, <1>7 DEF Written
<1>9. QED
    BY <1>3, <1>4, <1>8

(* The rows of a commit name batches that exist then. *)
LEMMA CommitFits ==
    ASSUME Base, NEW t \in Thread, Commit(t)
    PROVE  /\ DOMAIN batches' = DOMAIN batches \cup DOMAIN request[t].births
           /\ DOMAIN request[t].births \cap DOMAIN batches = {}
           /\ \A b \in DOMAIN batches' :
                 LET old == IF b \in DOMAIN batches THEN batches[b] ELSE request[t].births[b]
                 IN  /\ old \in BatchRow
                     /\ batches'[b] = [old EXCEPT !.quantity = @ + Gain(request[t].rows, b)]
                     /\ batches'[b] \in BatchRow
                     /\ batches'[b].product = old.product
                     /\ batches'[b].warehouse = old.warehouse /\ batches'[b].cost = old.cost
                     /\ batches'[b].quantity = old.quantity + Gain(request[t].rows, b)
           /\ DOMAIN batches' \subseteq Batch /\ batches' \in [DOMAIN batches' -> BatchRow]
<1> DEFINE plan == request[t]
           old(b) == IF b \in DOMAIN batches THEN batches[b] ELSE plan.births[b]
<1>1. /\ DOMAIN batches \subseteq Batch /\ batches \in [DOMAIN batches -> BatchRow]
      /\ DOMAIN plan.births \subseteq Batch /\ plan.births \in [DOMAIN plan.births -> BatchRow]
      /\ DOMAIN plan.births \cap DOMAIN batches = {} /\ plan.rows \in Seq(LedgerRow)
    BY DEF Base, TypeOK, Plans, GoodPlan, PlanTyped, PlanFits
<1>2. /\ DOMAIN batches' = DOMAIN batches \cup DOMAIN plan.births
      /\ \A b \in DOMAIN batches' :
            batches'[b] = [With(plan.births)[b] EXCEPT !.quantity = @ + Gain(plan.rows, b)]
      /\ batches' = [b \in DOMAIN batches' |-> batches'[b]]
    BY DEF Commit, With
<1>3. \A b \in DOMAIN batches' : With(plan.births)[b] = old(b) /\ old(b) \in BatchRow
    BY <1>1, <1>2 DEF With
<1>4. ASSUME NEW b \in DOMAIN batches'
      PROVE  /\ batches'[b] = [old(b) EXCEPT !.quantity = @ + Gain(plan.rows, b)]
             /\ batches'[b] \in BatchRow
             /\ batches'[b].product = old(b).product
             /\ batches'[b].warehouse = old(b).warehouse /\ batches'[b].cost = old(b).cost
             /\ batches'[b].quantity = old(b).quantity + Gain(plan.rows, b)
    <2>1. Gain(plan.rows, b) \in Int
        BY <1>1, GainTyped
    <2>2. old(b) \in BatchRow /\ batches'[b] = [old(b) EXCEPT !.quantity = @ + Gain(plan.rows, b)]
        BY <1>2, <1>3
    <2> HIDE DEF old
    <2>3. QED
        BY <2>1, <2>2 DEF BatchRow
<1> HIDE DEF old
<1>5. DOMAIN batches' \subseteq Batch /\ batches' \in [DOMAIN batches' -> BatchRow]
    BY <1>1, <1>2, <1>4
<1>6. QED
    BY <1>1, <1>2, <1>3, <1>4, <1>5 DEF old

(* The ledgers after it: the rows of before, then its own. *)
LEMMA WrittenAppends ==
    ASSUME NEW t, NEW rows, NEW moves, NEW utc, NEW to, Written(t, rows, moves, utc, to),
           ledger \in Seq(LedgerRow), cash \in Seq(CashRow)
    PROVE  /\ ledger' \in Seq(LedgerRow) /\ cash' \in Seq(CashRow)
           /\ \A i \in DOMAIN ledger : i \in DOMAIN ledger' /\ ledger'[i] = ledger[i]
           /\ \A i \in DOMAIN cash : i \in DOMAIN cash' /\ cash'[i] = cash[i]
           /\ \A i \in DOMAIN ledger' : i \notin DOMAIN ledger =>
                                           \E j \in DOMAIN rows : ledger'[i] = rows[j]
           /\ \A i \in DOMAIN cash' : i \notin DOMAIN cash =>
                                         \E j \in DOMAIN moves : cash'[i] = moves[j]
<1>1. ledger' = ledger \o rows /\ rows \in Seq(LedgerRow)
    BY DEF Written
<1>2. cash' = cash \o moves /\ moves \in Seq(CashRow)
    BY DEF Written
<1>3. /\ ledger' \in Seq(LedgerRow) /\ DOMAIN ledger \subseteq DOMAIN ledger'
      /\ \A i \in DOMAIN ledger : ledger'[i] = ledger[i]
      /\ \A i \in DOMAIN ledger' : i \notin DOMAIN ledger =>
                                      \E j \in DOMAIN rows : ledger'[i] = rows[j]
    BY <1>1, Appended
<1>4. /\ cash' \in Seq(CashRow) /\ DOMAIN cash \subseteq DOMAIN cash'
      /\ \A i \in DOMAIN cash : cash'[i] = cash[i]
      /\ \A i \in DOMAIN cash' : i \notin DOMAIN cash =>
                                    \E j \in DOMAIN moves : cash'[i] = moves[j]
    BY <1>2, Appended
<1>5. QED
    BY <1>3, <1>4

LEMMA CommitKeeps ==
    ASSUME Base, NEW t \in Thread, Commit(t)
    PROVE  Base' /\ Grown
<1> DEFINE plan == request[t]
<1>1. PICK utc, to, rows, moves : Written(t, rows, moves, utc, to)
    BY CommitWrites
<1>2. /\ ledger \in Seq(LedgerRow) /\ cash \in Seq(CashRow)
      /\ \A i \in DOMAIN ledger : /\ Stored(ledger[i])
                                  /\ ledger[i].batch \in DOMAIN batches \cup {None}
      /\ \A i \in DOMAIN cash : Stored(cash[i])
      /\ \A i \in DOMAIN plan.rows :
            plan.rows[i].batch \in DOMAIN batches \cup DOMAIN plan.births \cup {None}
      /\ edits \in 0..MaxEdits /\ served \in 0..MaxServed
    BY DEF Base, TypeOK, Plans, GoodPlan, PlanFits
<1>3. /\ ledger' \in Seq(LedgerRow) /\ cash' \in Seq(CashRow)
      /\ \A i \in DOMAIN ledger : i \in DOMAIN ledger' /\ ledger'[i] = ledger[i]
      /\ \A i \in DOMAIN cash : i \in DOMAIN cash' /\ cash'[i] = cash[i]
      /\ \A i \in DOMAIN ledger' : i \notin DOMAIN ledger =>
                                      \E j \in DOMAIN rows : ledger'[i] = rows[j]
      /\ \A i \in DOMAIN cash' : i \notin DOMAIN cash =>
                                    \E j \in DOMAIN moves : cash'[i] = moves[j]
    BY <1>1, <1>2, WrittenAppends
<1>4. today \in 1..MaxDay /\ today' \in 1..MaxDay
    BY <1>1 DEF Written
<1>5. /\ DOMAIN batches' = DOMAIN batches \cup DOMAIN plan.births
      /\ DOMAIN batches' \subseteq Batch /\ batches' \in [DOMAIN batches' -> BatchRow]
      /\ \A b \in DOMAIN batches : batches'[b].warehouse = batches[b].warehouse
    BY CommitFits
<1>6. \A i \in DOMAIN rows : Stored(rows[i]) /\ rows[i].batch \in DOMAIN batches' \cup {None}
    BY <1>1, <1>2, <1>4, <1>5 DEF Written, BookedRow, Stored
<1>7. \A i \in DOMAIN moves : Stored(moves[i])
    BY <1>1, <1>4 DEF Written, BookedMove, Stored
<1>8. card' \in [Product -> [Currency -> [cost : Price, min : Price]]]
    <2>1. card \in [Product -> [Currency -> [cost : Price, min : Price]]]
        BY DEF Base, TypeOK
    <2>2. \/ card' = card
          \/ /\ plan.prices.product \in Product /\ plan.prices.currency \in Currency
             /\ plan.prices.cost \in Price
             /\ card' = [card EXCEPT ![plan.prices.product][plan.prices.currency].cost =
                                        plan.prices.cost]
        BY DEF Commit, Base, Plans, GoodPlan, PlanTyped, Price
    <2> HIDE DEF plan
    <2>3. CASE card' = [card EXCEPT ![plan.prices.product][plan.prices.currency].cost =
                                       plan.prices.cost]
        BY <2>1, <2>2, <2>3, CardTyped, Zenon
    <2>4. QED
        BY <2>1, <2>2, <2>3
<1>9. UNCHANGED <<currency, edits, served>> /\ request' = [request EXCEPT ![t] = NoRequest]
    BY DEF Commit
<1>10. TypeOK'
    <2>1. \A i \in DOMAIN ledger' : /\ Stored(ledger'[i])
                                     /\ ledger'[i].batch \in DOMAIN batches' \cup {None}
        BY <1>2, <1>3, <1>5, <1>6
    <2>2. \A i \in DOMAIN cash' : Stored(cash'[i])
        BY <1>2, <1>3, <1>7
    <2>3. currency \in [Warehouse -> Currency]
        BY DEF Base, TypeOK
    <2>4. QED
        BY <1>2, <1>3, <1>4, <1>5, <1>8, <1>9, <2>1, <2>2, <2>3 DEF TypeOK, Stored
<1>11. Grown
    BY <1>3, <1>5, <1>9 DEF Grown
<1>12. Plans'
    <2>1. \A u \in Thread : \/ request'[u] = NoRequest
                            \/ DOMAIN request[u].births \cap DOMAIN batches' = {}
        BY <1>5, <1>9 DEF Base, Plans, GoodPlan, PlanFits, BirthsApart
    <2>2. request' \in {request, [request EXCEPT ![t] = NoRequest]}
        BY <1>9
    <2>3. QED
        BY <1>11, <2>1, <2>2, PlansStay
<1>13. QED
    BY <1>10, <1>11, <1>12 DEF Base

(* Steps that plan nothing and book nothing. *)
LEMMA StillKeeps ==
    ASSUME Base, \/ \E t \in Thread : Rollback(t)
                 \/ Midnight
                 \/ UNCHANGED vars
    PROVE  Base' /\ Grown
<1>1. TypeOK' /\ Grown
    BY MoneyBounds DEF Base, TypeOK, Grown, Rollback, Midnight, vars, Stored
<1>2. Plans'
    <2>1. \E t : request' \in {request, [request EXCEPT ![t] = NoRequest]}
        BY DEF Rollback, Midnight, vars
    <2>2. \A u \in Thread : DOMAIN request[u].births \cap DOMAIN batches' = {}
        BY DEF Rollback, Midnight, vars, Base, Plans, GoodPlan, PlanFits
    <2>3. QED
        BY <1>1, <2>1, <2>2, PlansStay
<1>3. QED
    BY <1>1, <1>2 DEF Base

(* Edits of warehouses, cards and batches. *)
LEMMA EditCounts ==
    ASSUME TypeOK, Edit PROVE edits' = edits + 1 /\ edits' \in 0..MaxEdits
BY MoneyBounds DEF TypeOK, Edit

LEMMA ChangeKeeps ==
    ASSUME Base, Change
    PROVE  /\ Base' /\ Grown /\ edits' # 0 /\ edits' # edits
           /\ request' = request /\ cash' = cash /\ today' = today
           /\ DOMAIN batches' = DOMAIN batches
           /\ \/ ledger' = ledger
              \/ \E r \in LedgerRow : /\ ledger' = Append(ledger, r)
                                      /\ r.type = "price_change" /\ r.sale = None
<1>0. TypeOK
    BY DEF Base
<1>1. /\ edits' = edits + 1 /\ edits' \in 0..MaxEdits /\ edits \in Nat
      /\ UNCHANGED <<cash, today, request, served>>
    BY <1>0, EditCounts, MoneyBounds
       DEF Change, update_warehouse, update_product, update_batch, Edit, TypeOK
<1>2. /\ TypeOK' /\ Grown /\ DOMAIN batches' = DOMAIN batches
      /\ \/ ledger' = ledger
         \/ \E r \in LedgerRow : /\ ledger' = Append(ledger, r)
                                 /\ r.type = "price_change" /\ r.sale = None
    <2>1. CASE \E w \in Warehouse, c \in Currency : update_warehouse(w, c)
        <3>1. currency' \in [Warehouse -> Currency] /\ UNCHANGED <<ledger, batches, card>>
            BY <1>0, <2>1 DEF TypeOK, update_warehouse
        <3>2. QED
            BY <1>0, <1>1, <3>1 DEF TypeOK, Grown, Stored
    <2>2. CASE \E p \in Product, c \in Currency, cost \in Amount : update_product(p, c, cost)
        <3>1. PICK p \in Product, c \in Currency, cost \in Amount : update_product(p, c, cost)
            BY <2>2
        <3>2. cost \in Price
            BY MoneyBounds DEF Price
        <3> DEFINE r == Entered(Op("price_change", p, 0, None, None, None, None, None), today, today)
        <3>3. r \in LedgerRow /\ r.type = "price_change" /\ r.sale = None /\ r.batch = None /\ Stored(r)
            <4>1. None \in Price /\ None \in NoDay /\ today \in Day
                BY <1>0, MoneyBounds DEF Price, NoDay, TypeOK, Day
            <4> DEFINE o == Op("price_change", p, 0, None, None, None, None, None)
            <4>2. o \in LedgerRow /\ o.type = "price_change" /\ o.sale = None /\ o.batch = None
                BY <4>1, OpTyped DEF OpType, Op
            <4> HIDE DEF o
            <4>3. BookedRow(o, Entered(o, today, today), today, today)
                BY <4>1, <4>2, EnteredRow
            <4>4. QED
                BY <1>0, <4>1, <4>2, <4>3 DEF BookedRow, Stored, TypeOK, o
        <3>4. ledger' = Append(ledger, r) /\ UNCHANGED <<batches, currency>>
            BY <3>1 DEF update_product
        <3>5. card' \in [Product -> [Currency -> [cost : Price, min : Price]]]
            <4>1. card' = [card EXCEPT ![p][c].cost = cost]
                BY <3>1 DEF update_product
            <4>2. card \in [Product -> [Currency -> [cost : Price, min : Price]]]
                BY <1>0 DEF TypeOK
            <4>3. QED
                BY <3>2, <4>1, <4>2, CardTyped, Zenon
        <3> HIDE DEF r
        <3>6. /\ ledger \in Seq(LedgerRow) /\ Append(ledger, r) \in Seq(LedgerRow)
              /\ \A i \in DOMAIN ledger : i \in DOMAIN ledger' /\ ledger'[i] = ledger[i]
              /\ \A i \in DOMAIN ledger' : ledger'[i] = r \/ i \in DOMAIN ledger
            BY <1>0, <3>3, <3>4 DEF TypeOK
        <3>7. TypeOK'
            <4>1. \A i \in DOMAIN ledger' : /\ Stored(ledger'[i])
                                            /\ ledger'[i].batch \in DOMAIN batches \cup {None}
                BY <1>0, <3>3, <3>6 DEF TypeOK
            <4>2. QED
                BY <1>0, <1>1, <3>4, <3>5, <3>6, <4>1 DEF TypeOK, Stored
        <3>8. QED
            BY <1>1, <3>3, <3>4, <3>6, <3>7 DEF Grown
    <2>3. CASE \E b \in DOMAIN batches, cost \in Amount : update_batch(b, cost)
        <3>1. PICK b \in DOMAIN batches, cost \in Amount : update_batch(b, cost)
            BY <2>3
        <3>2. /\ batches' = [batches EXCEPT ![b].cost = cost] /\ UNCHANGED <<ledger, currency, card>>
              /\ cost \in Price
            BY <3>1, MoneyBounds DEF update_batch, Price
        <3>3. /\ batches' \in [DOMAIN batches -> BatchRow]
              /\ \A x \in DOMAIN batches : batches'[x].warehouse = batches[x].warehouse
            BY <1>0, <3>2 DEF TypeOK, BatchRow
        <3>4. QED
            BY <1>0, <1>1, <3>2, <3>3 DEF TypeOK, Grown, Stored
    <2>4. QED
        BY <2>1, <2>2, <2>3 DEF Change
<1>3. Plans'
    <2>1. /\ \A u \in Thread : DOMAIN request[u].births \cap DOMAIN batches' = {}
          /\ \E t : request' \in {request, [request EXCEPT ![t] = NoRequest]}
        BY <1>1, <1>2 DEF Base, Plans, GoodPlan, PlanFits
    <2>2. QED
        BY <1>2, <2>1, PlansStay
<1>4. QED
    BY <1>1, <1>2, <1>3 DEF Base

(* The latest of some rows is one of them. *)
LEMMA MaxIn ==
    ASSUME NEW S, IsFiniteSet(S), S \subseteq Int, S # {}
    PROVE  Max(S) \in S
<1> DEFINE Q == {T \in SUBSET S : T = {} \/ \E x \in T : \A y \in T : x >= y}
<1>1. {} \in Q
    OBVIOUS
<1>2. ASSUME NEW T \in SUBSET S, NEW x \in S, T \in Q, x \notin T
      PROVE  T \cup {x} \in Q
    <2>1. CASE T = {}
        BY <2>1
    <2>2. CASE T # {}
        <3>1. PICK m \in T : \A y \in T : m >= y
            BY <1>2, <2>2
        <3>2. x >= m => \A y \in T \cup {x} : x >= y
            BY <3>1
        <3>3. ~(x >= m) => \A y \in T \cup {x} : m >= y
            BY <3>1
        <3>4. QED
            BY <3>2, <3>3
    <2>3. QED
        BY <2>1, <2>2
<1>3. \A T \in SUBSET S, x \in S : T \in Q /\ x \notin T => T \cup {x} \in Q
    BY <1>2
<1> HIDE DEF Q
<1>4. \A T \in SUBSET S : T \in Q
    BY <1>1, <1>3, SetInduction
<1>5. S \in Q
    BY <1>4
<1>6. QED
    BY <1>5 DEF Q, Max

(* A step of Next is one of five kinds. *)
LEMMA StepKinds ==
    ASSUME Base, [Next]_vars
    PROVE  \/ \E t \in Thread : \E new : Takes(t, new)
           \/ \E t \in Thread : Commit(t)
           \/ \E t \in Thread : Rollback(t)
           \/ Change
           \/ Midnight \/ UNCHANGED vars
<1>1. ASSUME NEW t \in Thread, Free(t),
             \/ Sell(t) \/ return_create(t) \/ mobile_return_create(t)
             \/ Receive(t) \/ Transfer(t) \/ Withdraw(t) \/ Deposit(t)
      PROVE  \E new : Takes(t, new)
    <2>1. ASSUME Sell(t) PROVE \E new : Takes(t, new)
        BY <1>1, <2>1, SellTakes DEF Sell
    <2>2. ASSUME NEW origin \in DOMAIN ledger, Return(t, origin)
          PROVE  \E new : Takes(t, new)
        BY <1>1, <2>2, ReturnTakes DEF Return
    <2>3. ASSUME mobile_return_create(t) PROVE \E origin \in DOMAIN ledger : Return(t, origin)
        <3>1. PICK s \in Sale, p \in Product :
                  LET origin == _resolve_origin(None, s, p)
                  IN  origin # None /\ Return(t, origin)
            BY <2>3 DEF mobile_return_create
        <3> DEFINE lines == {i \in DOMAIN ledger : /\ ledger[i].type = "sale"
                                                   /\ ledger[i].sale = s /\ ledger[i].product = p}
        <3>2. None \notin DOMAIN ledger
            BY NoneApart DEF Base, TypeOK
        <3>3. lines # {} => Max(lines) \in lines
            <4>1. ledger \in Seq(LedgerRow)
                BY DEF Base, TypeOK
            <4>2. IsFiniteSet(DOMAIN ledger)
                BY <4>1, RowsTyped, WeightsTyped
            <4>3. IsFiniteSet(lines) /\ lines \subseteq Int
                BY <4>1, <4>2, FS_Subset
            <4> HIDE DEF lines
            <4>4. QED
                BY <4>3, MaxIn
        <3>4. QED
            BY <3>1, <3>2, <3>3 DEF _resolve_origin
    <2>4. ASSUME Receive(t) PROVE \E new : Takes(t, new)
        BY <1>1, <2>4, ReceiveTakes DEF Receive
    <2>5. ASSUME Transfer(t) PROVE \E new : Takes(t, new)
        BY <1>1, <2>5, TransferTakes DEF Transfer
    <2>6. ASSUME Withdraw(t) \/ Deposit(t) PROVE \E new : Takes(t, new)
        <3>1. PICK k \in Category, n \in Amount, note \in BOOLEAN, c \in Currency,
                   confirm \in BOOLEAN, d \in OpDate :
                  record_manual_movement(t, k, n, note, c, confirm, d)
            BY <2>6 DEF Withdraw, Deposit, finance_withdraw, mobile_finance_withdraw,
                        finance_deposit, mobile_finance_deposit, OpDate
        <3>2. QED
            BY <1>1, <3>1, MovementTakes
    <2>7. QED
        BY <1>1, <2>1, <2>2, <2>3, <2>4, <2>5, <2>6 DEF return_create
<1>2. QED
    BY <1>1 DEF Next

(* A database starts with what is stored and nobody at work. *)
LEMMA BaseInit == Init => Base
<1> SUFFICES ASSUME Init PROVE Base
    OBVIOUS
<1>1. TypeOK
    BY MoneyBounds, OldRows DEF Init, TypeOK, Stored
<1>2. \A t \in Thread : request[t] = NoRequest /\ request = [u \in Thread |-> request[u]]
    BY DEF Init
<1>3. Plans
    <2>1. DOMAIN NoRequest.births = {}
        BY DEF NoRequest, NoBirth
    <2>2. GoodPlan(NoRequest)
        BY <1>1, NoRequestGood
    <2>3. request = [u \in Thread |-> request[u]]
        BY DEF Init
    <2>4. QED
        BY <1>2, <2>1, <2>2, <2>3 DEF Plans, BirthsApart
<1>4. QED
    BY <1>1, <1>3 DEF Base

LEMMA BaseNext ==
    ASSUME Base, [Next]_vars
    PROVE  Base' /\ Grown
BY StepKinds, TakesKeeps, CommitKeeps, StillKeeps, ChangeKeeps

LEMMA BaseAlways == Spec => []Base
<1>1. Base /\ [Next]_vars => Base'
    BY BaseNext
<1>2. QED
    BY BaseInit, <1>1, PTL DEF Spec

-----------------------------------------------------------------------------
(* The books: what one step adds to both ledgers it adds to both alike *)

Joined(k, l, m) == k = l \o m

LEMMA TallyJoined ==
    ASSUME NEW R, NEW l \in Seq(R), NEW m \in Seq(R), NEW k, Joined(k, l, m),
           NEW w \in [R -> Int], NEW P
    PROVE  Tally(k, P, w) = Tally(l, P, w) + Tally(m, P, w)
BY TallyAppend DEF Joined

LEMMA LedgerJoined ==
    ASSUME NEW l \in Seq(LedgerRow), NEW m \in Seq(LedgerRow), NEW k, Joined(k, l, m), NEW P
    PROVE  Tally(k, P, Worths) = Tally(l, P, Worths) + Tally(m, P, Worths)
<1>1. Worths \in [LedgerRow -> Int]
    BY WeightsTyped
<1>2. QED
    BY <1>1, TallyJoined

LEMMA CashJoined ==
    ASSUME NEW l \in Seq(CashRow), NEW m \in Seq(CashRow), NEW k, Joined(k, l, m), NEW P
    PROVE  Tally(k, P, Amounts) = Tally(l, P, Amounts) + Tally(m, P, Amounts)
<1>1. Amounts \in [CashRow -> Int]
    BY WeightsTyped
<1>2. QED
    BY <1>1, TallyJoined

LEMMA BothAppend ==
    ASSUME NEW l \in Seq(LedgerRow), NEW rows \in Seq(LedgerRow), NEW a, Joined(a, l, rows),
           NEW m \in Seq(CashRow), NEW moves \in Seq(CashRow), NEW b, Joined(b, m, moves),
           NEW R, NEW M, Agree(l, m, R, M), Agree(rows, moves, R, M)
    PROVE  Agree(a, b, R, M)
<1>1. Tally(a, R, Worths) = Tally(l, R, Worths) + Tally(rows, R, Worths)
    BY LedgerJoined
<1>2. Tally(b, M, Amounts) = Tally(m, M, Amounts) + Tally(moves, M, Amounts)
    BY CashJoined
<1>3. QED
    BY <1>1, <1>2 DEF Agree

LEMMA NeitherAdds ==
    ASSUME NEW rows, NEW moves, NEW R, NEW M,
           \A i \in DOMAIN rows : rows[i] \notin R,
           \A i \in DOMAIN moves : moves[i] \notin M
    PROVE  Agree(rows, moves, R, M)
BY TallyNone DEF Agree

(* A plan that is all inside a figure, or all outside. *)
LEMMA WholePlan ==
    ASSUME Base, NEW t \in Thread, NEW rows, NEW moves, NEW utc, NEW to,
           Written(t, rows, moves, utc, to), request[t].kind \in Goods,
           NEW R, NEW M,
           \/ (\A i \in DOMAIN rows : rows[i] \in R) /\ (\A i \in DOMAIN moves : moves[i] \in M)
           \/ (\A i \in DOMAIN rows : rows[i] \notin R) /\ (\A i \in DOMAIN moves : moves[i] \notin M)
    PROVE  Agree(rows, moves, R, M)
<1>1. CASE (\A i \in DOMAIN rows : rows[i] \in R) /\ (\A i \in DOMAIN moves : moves[i] \in M)
    <2>1. PICK a, b : a = request[t].rows /\ b = request[t].moves
        OBVIOUS
    <2>2. /\ a \in Seq(LedgerRow) /\ rows \in Seq(LedgerRow) /\ DOMAIN rows = DOMAIN a
          /\ b \in Seq(CashRow) /\ moves \in Seq(CashRow) /\ DOMAIN moves = DOMAIN b
          /\ \A i \in DOMAIN a : BookedRow(a[i], rows[i], today, utc)
          /\ \A i \in DOMAIN b : BookedMove(b[i], moves[i], to, utc)
        BY <2>1 DEF Written
    <2>3. \A i \in DOMAIN a : /\ a[i] \in LedgerRow /\ rows[i] \in R
                              /\ Worths[rows[i]] = Worths[a[i]]
        BY <1>1, <2>2, WeightsTyped DEF BookedRow
    <2>4. \A i \in DOMAIN b : /\ b[i] \in CashRow /\ moves[i] \in M
                              /\ Amounts[moves[i]] = Amounts[b[i]]
        BY <1>1, <2>2, WeightsTyped DEF BookedMove
    <2>0. Worths \in [LedgerRow -> Int] /\ Amounts \in [CashRow -> Int]
        BY WeightsTyped
    <2>5. Tally(a, LedgerRow, Worths) = Tally(rows, R, Worths)
        <3>1. \A i \in DOMAIN a : /\ a[i] \in LedgerRow <=> rows[i] \in R
                                  /\ Worths[rows[i]] = Worths[a[i]]
            BY <2>3
        <3>2. /\ a \in Seq(LedgerRow) /\ rows \in Seq(LedgerRow)
              /\ DOMAIN rows = DOMAIN a
            BY <2>2
        <3>3. QED
            BY <2>0, <3>1, <3>2, TallySame
    <2>6. Tally(b, CashRow, Amounts) = Tally(moves, M, Amounts)
        <3>1. \A i \in DOMAIN b : /\ b[i] \in CashRow <=> moves[i] \in M
                                  /\ Amounts[moves[i]] = Amounts[b[i]]
            BY <2>4
        <3>2. /\ b \in Seq(CashRow) /\ moves \in Seq(CashRow)
              /\ DOMAIN moves = DOMAIN b
            BY <2>2
        <3>3. QED
            BY <2>0, <3>1, <3>2, TallySame
    <2>7. Tally(b, CashRow, Amounts) = Tally(a, LedgerRow, Worths)
        BY <2>1 DEF Base, Plans, GoodPlan, PlanBalanced
    <2>8. QED
        BY <2>5, <2>6, <2>7 DEF Agree
<1>2. CASE (\A i \in DOMAIN rows : rows[i] \notin R) /\ (\A i \in DOMAIN moves : moves[i] \notin M)
    BY <1>2, NeitherAdds
<1>3. QED
    BY <1>1, <1>2

(* What a commit of a sale or a return writes: all in one sale, on one day;*)
(* what another writes is in no sale.                                      *)
LEMMA WrittenGoods ==
    ASSUME Base, NEW t \in Thread, NEW rows, NEW moves, NEW utc, NEW to,
           Written(t, rows, moves, utc, to), request[t].kind \in Goods
    PROVE  \E s \in Sale, d \in Day :
              /\ \A i \in DOMAIN rows :
                    /\ rows[i] \in LedgerRow /\ rows[i].type \in Goods
                    /\ rows[i].sale = s /\ rows[i].day = d
              /\ \A i \in DOMAIN moves :
                    /\ moves[i] \in CashRow /\ moves[i].category \in Goods
                    /\ moves[i].sale = s /\ moves[i].day = d
<1>1. PICK s \in Sale, d \in Day :
          /\ \A i \in DOMAIN request[t].rows :
                /\ request[t].rows[i].type \in Goods
                /\ request[t].rows[i].sale = s /\ request[t].rows[i].day = d
          /\ \A i \in DOMAIN request[t].moves :
                /\ request[t].moves[i].category \in Goods
                /\ request[t].moves[i].sale = s /\ request[t].moves[i].day = d
    BY DEF Base, Plans, GoodPlan, PlanBalanced
<1>2. d # None
    BY NoneApart
<1>3. /\ \A i \in DOMAIN rows : i \in DOMAIN request[t].rows
                                /\ BookedRow(request[t].rows[i], rows[i], today, utc)
      /\ \A i \in DOMAIN moves : i \in DOMAIN request[t].moves
                                 /\ BookedMove(request[t].moves[i], moves[i], to, utc)
    BY DEF Written
<1>4. \A i \in DOMAIN rows : /\ rows[i] \in LedgerRow /\ rows[i].type \in Goods
                             /\ rows[i].sale = s /\ rows[i].day = d
    BY <1>1, <1>2, <1>3 DEF BookedRow, Default
<1>5. \A i \in DOMAIN moves : /\ moves[i] \in CashRow /\ moves[i].category \in Goods
                              /\ moves[i].sale = s /\ moves[i].day = d
    BY <1>1, <1>2, <1>3 DEF BookedMove, Default
<1>6. QED
    BY <1>4, <1>5

LEMMA WrittenOther ==
    ASSUME Base, NEW t \in Thread, NEW rows, NEW moves, NEW utc, NEW to,
           Written(t, rows, moves, utc, to), request[t].kind \notin Goods
    PROVE  /\ \A i \in DOMAIN rows : rows[i].type \notin Goods /\ rows[i].sale = None
           /\ \A i \in DOMAIN moves : moves[i].category \notin Goods /\ moves[i].sale = None
<1>1. /\ \A i \in DOMAIN request[t].rows : /\ request[t].rows[i].type \notin Goods
                                           /\ request[t].rows[i].sale = None
      /\ \A i \in DOMAIN request[t].moves : /\ request[t].moves[i].category \notin Goods
                                            /\ request[t].moves[i].sale = None
    BY DEF Base, Plans, GoodPlan, PlanBalanced
<1>2. QED
    BY <1>1 DEF Written, BookedRow, BookedMove

(* So a commit adds the same to the money and to the goods of every sale   *)
(* on every day, and of every period.                                      *)
LEMMA CommitAgrees ==
    ASSUME Base, NEW t \in Thread, NEW rows, NEW moves, NEW utc, NEW to,
           Written(t, rows, moves, utc, to)
    PROVE  /\ \A s \in Sale, d \in NoDay : Agree(rows, moves, SaleRows(s, d), SaleMoves(s, d))
           /\ \A p \in Period : Agree(rows, moves, GoodsRows(p), GoodsMoves(p))
<1>1. CASE request[t].kind \notin Goods
    <2>1. \A s \in Sale, d \in NoDay :
              /\ \A i \in DOMAIN rows : rows[i] \notin SaleRows(s, d)
              /\ \A i \in DOMAIN moves : moves[i] \notin SaleMoves(s, d)
        BY <1>1, WrittenOther, NoneApart DEF SaleRows, SaleMoves
    <2>2. \A p \in Period :
              /\ \A i \in DOMAIN rows : rows[i] \notin GoodsRows(p)
              /\ \A i \in DOMAIN moves : moves[i] \notin GoodsMoves(p)
        BY <1>1, WrittenOther DEF GoodsRows, GoodsMoves
    <2>3. QED
        BY <2>1, <2>2, NeitherAdds
<1>2. CASE request[t].kind \in Goods
    <2>1. PICK x \in Sale, y \in Day :
              /\ \A i \in DOMAIN rows :
                    /\ rows[i] \in LedgerRow /\ rows[i].type \in Goods
                    /\ rows[i].sale = x /\ rows[i].day = y
              /\ \A i \in DOMAIN moves :
                    /\ moves[i] \in CashRow /\ moves[i].category \in Goods
                    /\ moves[i].sale = x /\ moves[i].day = y
        BY <1>2, WrittenGoods
    <2>2. ASSUME NEW s \in Sale, NEW d \in NoDay
          PROVE  Agree(rows, moves, SaleRows(s, d), SaleMoves(s, d))
        <3>1. CASE s = x /\ d = y
            <4>1. /\ \A i \in DOMAIN rows : rows[i] \in SaleRows(s, d)
                  /\ \A i \in DOMAIN moves : moves[i] \in SaleMoves(s, d)
                BY <2>1, <3>1 DEF SaleRows, SaleMoves
            <4>2. QED
                BY <1>2, <4>1, WholePlan
        <3>2. CASE ~(s = x /\ d = y)
            <4>1. /\ \A i \in DOMAIN rows : rows[i] \notin SaleRows(s, d)
                  /\ \A i \in DOMAIN moves : moves[i] \notin SaleMoves(s, d)
                BY <2>1, <3>2 DEF SaleRows, SaleMoves
            <4>2. QED
                BY <4>1, NeitherAdds
        <3>3. QED
            BY <3>1, <3>2
    <2>3. ASSUME NEW p \in Period
          PROVE  Agree(rows, moves, GoodsRows(p), GoodsMoves(p))
        <3>1. y # None
            BY NoneApart
        <3>2. CASE p[1] <= y /\ y <= p[2]
            <4>1. /\ \A i \in DOMAIN rows : rows[i] \in GoodsRows(p)
                  /\ \A i \in DOMAIN moves : moves[i] \in GoodsMoves(p)
                BY <2>1, <3>1, <3>2
                   DEF GoodsRows, GoodsMoves, InPeriod, business_date_expr, Default
            <4>2. QED
                BY <1>2, <4>1, WholePlan
        <3>3. CASE ~(p[1] <= y /\ y <= p[2])
            <4>1. /\ \A i \in DOMAIN rows : rows[i] \notin GoodsRows(p)
                  /\ \A i \in DOMAIN moves : moves[i] \notin GoodsMoves(p)
                BY <2>1, <3>1, <3>3
                   DEF GoodsRows, GoodsMoves, InPeriod, business_date_expr, Default
            <4>2. QED
                BY <4>1, NeitherAdds
        <3>4. QED
            BY <3>2, <3>3
    <2>4. QED
        BY <2>2, <2>3
<1>3. QED
    BY <1>1, <1>2

(* The money of a period is that of its currencies. *)
LEMMA Inhabited ==
    ASSUME TypeOK
    PROVE  \A i \in DOMAIN ledger : operation_currency(ledger[i]) \in Currency
<1>1. ASSUME NEW i \in DOMAIN ledger
      PROVE  operation_currency(ledger[i]) \in Currency
    <2>1. CASE ledger[i].batch = None
        BY <2>1, MoneyIds DEF operation_currency
    <2>2. CASE ledger[i].batch # None
        <3>1. ledger[i].batch \in DOMAIN batches
            BY <2>2 DEF TypeOK
        <3>2. batches[ledger[i].batch].warehouse \in Warehouse
            BY <3>1 DEF TypeOK, BatchRow
        <3>3. QED
            BY <2>2, <3>2 DEF operation_currency, TypeOK
    <2>3. QED
        BY <2>1, <2>2
<1>2. QED
    BY <1>1

Revenues(p, g) ==
    \A c \in Currency : g[c] = Tally(ledger, GoodsRows(p) \cap RowsIn(c), Worths)
Takings(p, g) ==
    \A c \in Currency : g[c] = Tally(cash, GoodsMoves(p) \cap MovesIn(c), Amounts)

LEMMA ByCurrencies ==
    ASSUME TypeOK, NEW p \in Period, NEW g
    PROVE  /\ Revenues(p, g) => Tally(ledger, GoodsRows(p), Worths) = SumFunctionOnSet(g, Currency)
           /\ Takings(p, g) => Tally(cash, GoodsMoves(p), Amounts) = SumFunctionOnSet(g, Currency)
<1>1. IsFiniteSet(Currency) /\ Worths \in [LedgerRow -> Int] /\ Amounts \in [CashRow -> Int]
    BY MoneyIds, WeightsTyped
<1>2. ASSUME Revenues(p, g)
      PROVE  Tally(ledger, GoodsRows(p), Worths) = SumFunctionOnSet(g, Currency)
    <2> DEFINE P == GoodsRows(p)
               key == [i \in DOMAIN ledger |-> operation_currency(ledger[i])]
               Q == [c \in Currency |-> GoodsRows(p) \cap RowsIn(c)]
    <2>1. \A i \in Rows(ledger, P) : key[i] \in Currency
        BY Inhabited DEF Rows
    <2>2. \A c \in Currency : \A i : i \in Rows(ledger, Q[c]) <=> i \in Rows(ledger, P) /\ key[i] = c
        <3>1. \A r \in LedgerRow, c \in Currency : r \in RowsIn(c) <=> operation_currency(r) = c
            BY DEF RowsIn
        <3>2. \A i \in DOMAIN ledger : ledger[i] \in LedgerRow
            BY DEF TypeOK
        <3>3. \A c \in Currency : Q[c] = GoodsRows(p) \cap RowsIn(c)
            OBVIOUS
        <3> HIDE DEF Q
        <3>4. QED
            BY <3>1, <3>2, <3>3 DEF Rows
    <2>3. \A c \in Currency : g[c] = Tally(ledger, Q[c], Worths)
        BY <1>2 DEF Revenues
    <2>4. ledger \in Seq(LedgerRow)
        BY DEF TypeOK
    <2>5. Grouped(ledger, P, Currency, key, Q) /\ Totals(g, ledger, Currency, Q, Worths)
        BY <2>1, <2>2, <2>3 DEF Grouped, Totals
    <2> HIDE DEF P, Q, key
    <2>6. Tally(ledger, P, Worths) = SumFunctionOnSet(g, Currency)
        BY <1>1, <2>4, <2>5, TallySplit
    <2>7. QED
        BY <2>6 DEF P
<1>3. ASSUME Takings(p, g)
      PROVE  Tally(cash, GoodsMoves(p), Amounts) = SumFunctionOnSet(g, Currency)
    <2> DEFINE P == GoodsMoves(p)
               key == [i \in DOMAIN cash |-> cash[i].currency]
               Q == [c \in Currency |-> GoodsMoves(p) \cap MovesIn(c)]
    <2>1. \A i \in DOMAIN cash : cash[i] \in CashRow /\ cash[i].currency \in Currency
        <3>1. \A i \in DOMAIN cash : cash[i] \in CashRow
            BY DEF TypeOK
        <3>2. \A m \in CashRow : m.currency \in Currency
            BY DEF CashRow
        <3>3. QED
            BY <3>1, <3>2
    <2>2. \A c \in Currency : \A i : i \in Rows(cash, Q[c]) <=> i \in Rows(cash, P) /\ key[i] = c
        <3>1. \A r \in CashRow, c \in Currency : r \in MovesIn(c) <=> r.currency = c
            BY DEF MovesIn
        <3>3. \A c \in Currency : Q[c] = GoodsMoves(p) \cap MovesIn(c)
            OBVIOUS
        <3> HIDE DEF Q
        <3>4. QED
            BY <2>1, <3>1, <3>3 DEF Rows
    <2>3. \A c \in Currency : g[c] = Tally(cash, Q[c], Amounts)
        BY <1>3 DEF Takings
    <2>4. cash \in Seq(CashRow) /\ \A i \in Rows(cash, P) : key[i] \in Currency
        BY <2>1 DEF TypeOK, Rows
    <2>5. Grouped(cash, P, Currency, key, Q) /\ Totals(g, cash, Currency, Q, Amounts)
        BY <2>2, <2>3, <2>4 DEF Grouped, Totals
    <2> HIDE DEF P, Q, key
    <2>6. Tally(cash, P, Amounts) = SumFunctionOnSet(g, Currency)
        BY <1>1, <2>4, <2>5, TallySplit
    <2>7. QED
        BY <2>6 DEF P
<1>4. QED
    BY <1>2, <1>3

(* At the start the books agree, because the past was booked so. *)
LEMMA BooksInit ==
    ASSUME OldBooksAgree, Init PROVE Books
<1>1. /\ ledger = OldLedger /\ cash = OldCash /\ batches = OldBatches
      /\ currency = WarehouseCurrency
    BY DEF Init
<1>2. TypeOK
    BY BaseInit DEF Base
<1>3. \A c : RowsIn(c) = FirstIn(c)
    BY <1>1 DEF RowsIn, FirstIn, operation_currency
<1>4. ByCurrency(ledger, cash)
    BY <1>1, <1>3 DEF OldBooksAgree, ByCurrency
<1>5. ASSUME NEW p \in Period PROVE Agree(ledger, cash, GoodsRows(p), GoodsMoves(p))
    <2> DEFINE g == [c \in Currency |-> Tally(ledger, GoodsRows(p) \cap RowsIn(c), Worths)]
    <2>1. Revenues(p, g) /\ Takings(p, g)
        BY <1>4 DEF ByCurrency, Agree, Revenues, Takings
    <2> HIDE DEF g
    <2>2. QED
        BY <1>2, <2>1, ByCurrencies DEF Agree
<1>6. QED
    BY <1>1, <1>4, <1>5 DEF OldBooksAgree, Books, ByPeriod

LEMMA TallyAlike ==
    ASSUME NEW l \in Seq(LedgerRow), NEW P, NEW Q, \A i \in DOMAIN l : l[i] \in P <=> l[i] \in Q
    PROVE  Tally(l, P, Worths) = Tally(l, Q, Worths)
<1>1. Rows(l, P) = Rows(l, Q)
    BY DEF Rows
<1>2. QED
    BY <1>1 DEF Tally

(* The rows of before are in the currency they were in, as long as nothing *)
(* was edited.                                                             *)
LEMMA SameCurrency ==
    ASSUME TypeOK, Grown, edits' = edits, ledger \in Seq(LedgerRow), cash \in Seq(CashRow),
           NEW p \in Period, NEW c \in Currency,
           Agree(ledger, cash, GoodsRows(p) \cap RowsIn(c), GoodsMoves(p) \cap MovesIn(c)),
           NEW R, R = RowsIn(c)'
    PROVE  Agree(ledger, cash, GoodsRows(p) \cap R, GoodsMoves(p) \cap MovesIn(c))
<1>1. \A i \in DOMAIN ledger : operation_currency(ledger[i])' = operation_currency(ledger[i])
    <2>1. currency' = currency
        BY MoneyBounds DEF Grown, TypeOK
    <2>2. \A i \in DOMAIN ledger : /\ ledger'[i] = ledger[i]
                                   /\ ledger[i].batch # None => ledger[i].batch \in DOMAIN batches
        BY DEF TypeOK, Grown
    <2>3. QED
        BY <2>1, <2>2 DEF operation_currency, Grown
<1>2. \A i \in DOMAIN ledger : /\ ledger[i] \in LedgerRow
                               /\ ledger[i] \in RowsIn(c) <=> ledger[i] \in R
    <2>1. \A i \in DOMAIN ledger : ledger[i] \in LedgerRow /\ ledger'[i] = ledger[i]
        BY DEF TypeOK, Grown
    <2>2. R = {r \in LedgerRow : operation_currency(r)' = c}
        BY DEF RowsIn, operation_currency
    <2>3. \A i \in DOMAIN ledger : ledger[i] \in R <=> operation_currency(ledger[i])' = c
        BY <2>1, <2>2 DEF operation_currency
    <2>4. \A i \in DOMAIN ledger : ledger[i] \in RowsIn(c) <=> operation_currency(ledger[i]) = c
        BY <2>1 DEF RowsIn
    <2>5. QED
        BY <1>1, <2>1, <2>3, <2>4
<1>3. PICK P, Q : P = GoodsRows(p) \cap RowsIn(c) /\ Q = GoodsRows(p) \cap R
    OBVIOUS
<1>4. \A i \in DOMAIN ledger : ledger[i] \in P <=> ledger[i] \in Q
    BY <1>2, <1>3
<1>5. Tally(ledger, P, Worths) = Tally(ledger, Q, Worths)
    BY <1>4, TallyAlike
<1>6. QED
    BY <1>3, <1>5 DEF Agree

(* What is written while nothing was edited is in one currency. *)
LEMMA CommitInOneCurrency ==
    ASSUME Base, NEW t \in Thread, Commit(t), NEW rows, NEW moves, NEW utc, NEW to,
           Written(t, rows, moves, utc, to), edits = 0, NEW p \in Period, NEW c \in Currency,
           NEW R, R = RowsIn(c)'
    PROVE  Agree(rows, moves, GoodsRows(p) \cap R, GoodsMoves(p) \cap MovesIn(c))
<1>1. CASE request[t].kind \notin Goods
    <2>1. /\ \A i \in DOMAIN rows : rows[i] \notin GoodsRows(p)
          /\ \A i \in DOMAIN moves : moves[i] \notin GoodsMoves(p)
        BY <1>1, WrittenOther DEF GoodsRows, GoodsMoves
    <2>2. QED
        BY <2>1, NeitherAdds
<1>2. CASE request[t].kind \in Goods
    <2>1. PICK x \in Sale, y \in Day :
              /\ \A i \in DOMAIN rows :
                    /\ rows[i] \in LedgerRow /\ rows[i].type \in Goods
                    /\ rows[i].sale = x /\ rows[i].day = y
              /\ \A i \in DOMAIN moves :
                    /\ moves[i] \in CashRow /\ moves[i].category \in Goods
                    /\ moves[i].sale = x /\ moves[i].day = y
        BY <1>2, WrittenGoods
    <2>2. PICK k \in Currency :
              /\ \A i \in DOMAIN request[t].rows : PlannedIn(request[t], request[t].rows[i]) = k
              /\ \A i \in DOMAIN request[t].moves : request[t].moves[i].currency = k
        BY <1>2 DEF Base, Plans, GoodPlan, PlanInOneCurrency
    <2>3. \A i \in DOMAIN moves : moves[i] \in MovesIn(c) <=> k = c
        BY <2>1, <2>2 DEF Written, BookedMove, MovesIn
    <2>4. \A i \in DOMAIN rows : rows[i] \in R <=> k = c
        <3>1. \A i \in DOMAIN rows :
                  /\ rows[i].batch = request[t].rows[i].batch
                  /\ request[t].rows[i].batch \in
                        DOMAIN batches \cup DOMAIN request[t].births \cup {None}
                  /\ PlannedIn(request[t], request[t].rows[i]) = k
            BY <2>2 DEF Written, BookedRow, Base, Plans, GoodPlan, PlanFits
        <3>2. \A b \in DOMAIN batches \cup DOMAIN request[t].births :
                  batches'[b].warehouse = IF b \in DOMAIN request[t].births
                                          THEN request[t].births[b].warehouse
                                          ELSE batches[b].warehouse
            BY CommitFits
        <3>3. currency' = currency /\ None \notin DOMAIN request[t].births
            BY NoneApart DEF Commit, Base, Plans, GoodPlan, PlanTyped
        <3>4. ASSUME NEW r \in LedgerRow, NEW o,
                     r.batch = o.batch, PlannedIn(request[t], o) = k,
                     o.batch \in DOMAIN batches \cup DOMAIN request[t].births \cup {None}
              PROVE  (IF r.batch = None THEN DEFAULT_CURRENCY
                      ELSE currency'[batches'[r.batch].warehouse]) = k
            <4>1. CASE o.batch = None
                BY <3>3, <3>4, <4>1 DEF PlannedIn, operation_currency
            <4>2. CASE o.batch # None
                BY <3>2, <3>3, <3>4, <4>2 DEF PlannedIn, operation_currency
            <4>3. QED
                BY <4>1, <4>2
        <3>5. R = {r \in LedgerRow : (IF r.batch = None THEN DEFAULT_CURRENCY
                                      ELSE currency'[batches'[r.batch].warehouse]) = c}
            BY DEF RowsIn, operation_currency
        <3>6. QED
            BY <2>1, <3>1, <3>4, <3>5
    <2>5. y # None
        BY NoneApart
    <2>6. CASE k = c /\ p[1] <= y /\ y <= p[2]
        <3>1. /\ \A i \in DOMAIN rows : rows[i] \in GoodsRows(p) \cap R
              /\ \A i \in DOMAIN moves : moves[i] \in GoodsMoves(p) \cap MovesIn(c)
            BY <2>1, <2>3, <2>4, <2>5, <2>6
               DEF GoodsRows, GoodsMoves, InPeriod, business_date_expr, Default
        <3>2. QED
            BY <1>2, <3>1, WholePlan
    <2>7. CASE ~(k = c /\ p[1] <= y /\ y <= p[2])
        <3>1. /\ \A i \in DOMAIN rows : rows[i] \notin GoodsRows(p) \cap R
              /\ \A i \in DOMAIN moves : moves[i] \notin GoodsMoves(p) \cap MovesIn(c)
            BY <2>1, <2>3, <2>4, <2>5, <2>7
               DEF GoodsRows, GoodsMoves, InPeriod, business_date_expr, Default
        <3>2. QED
            BY <3>1, NeitherAdds
    <2>8. QED
        BY <2>6, <2>7
<1>3. QED
    BY <1>1, <1>2

(* What came back was sold: a commit of a return brings what it planned.   *)
LEMMA CommitLinks ==
    ASSUME Base, NEW t \in Thread, Commit(t), NEW rows, NEW moves, NEW utc, NEW to,
           Written(t, rows, moves, utc, to), Linked(ledger), Brought(ledger)
    PROVE  Linked(ledger') /\ Brought(ledger')
<1>1. /\ \A i \in DOMAIN ledger : i \in DOMAIN ledger' /\ ledger'[i] = ledger[i]
      /\ \A i \in DOMAIN ledger' : i \notin DOMAIN ledger =>
                                      \E j \in DOMAIN rows : ledger'[i] = rows[j]
    BY WrittenAppends DEF Base, TypeOK
<1>2. ASSUME NEW j \in DOMAIN rows
      PROVE  InASale(rows[j]) /\ (rows[j].type = "return" => SoldBefore(ledger, rows[j]))
    <2>1. /\ rows[j].type = request[t].rows[j].type /\ rows[j].sale = request[t].rows[j].sale
          /\ rows[j].product = request[t].rows[j].product
          /\ rows[j].price = request[t].rows[j].price
          /\ j \in DOMAIN request[t].rows
        BY DEF Written, BookedRow
    <2>2. InASale(request[t].rows[j])
        BY <2>1 DEF Base, Plans, GoodPlan, PlanFits
    <2>3. rows[j].type = "return" => request[t].kind = "return"
        BY <2>1 DEF Base, Plans, GoodPlan, PlanBalanced, Goods
    <2>4. rows[j].type = "return" => SoldBefore(ledger, request[t].rows[j])
        BY <2>1, <2>3 DEF Base, Plans, GoodPlan, PlanFits
    <2>5. QED
        BY <2>1, <2>2, <2>4 DEF InASale, SoldBefore
<1>3. Linked(ledger')
    BY <1>1, <1>2 DEF Linked
<1>4. \A r : SoldBefore(ledger, r) => SoldBefore(ledger', r)
    BY <1>1 DEF SoldBefore
<1>5. Brought(ledger')
    BY <1>1, <1>2, <1>4 DEF Brought
<1>6. QED
    BY <1>3, <1>5

(* A commit keeps the books. *)
LEMMA CommitBooks ==
    ASSUME Base, Books, NEW t \in Thread, Commit(t)
    PROVE  Books'
<1>1. PICK utc, to, rows, moves : Written(t, rows, moves, utc, to)
    BY CommitWrites
<1>2. /\ ledger \in Seq(LedgerRow) /\ rows \in Seq(LedgerRow) /\ Joined(ledger', ledger, rows)
      /\ cash \in Seq(CashRow) /\ moves \in Seq(CashRow) /\ Joined(cash', cash, moves)
    BY <1>1 DEF Base, TypeOK, Written, Joined
<1>3. ASSUME NEW R, NEW M, Agree(ledger, cash, R, M), Agree(rows, moves, R, M)
      PROVE  Agree(ledger', cash', R, M)
    BY <1>2, <1>3, BothAppend
<1>4. BySale(ledger', cash')
    <2>1. ASSUME NEW s \in Sale, NEW d \in NoDay
          PROVE  Agree(ledger', cash', SaleRows(s, d), SaleMoves(s, d))
        <3>1. Agree(ledger, cash, SaleRows(s, d), SaleMoves(s, d))
            BY DEF Books, BySale
        <3>2. Agree(rows, moves, SaleRows(s, d), SaleMoves(s, d))
            BY <1>1, CommitAgrees
        <3>3. QED
            BY <1>3, <3>1, <3>2
    <2>2. QED
        BY <2>1 DEF BySale
<1>5. ByPeriod(ledger', cash')
    <2>1. ASSUME NEW p \in Period
          PROVE  Agree(ledger', cash', GoodsRows(p), GoodsMoves(p))
        <3>1. Agree(ledger, cash, GoodsRows(p), GoodsMoves(p))
            BY DEF Books, ByPeriod
        <3>2. Agree(rows, moves, GoodsRows(p), GoodsMoves(p))
            BY <1>1, CommitAgrees
        <3>3. QED
            BY <1>3, <3>1, <3>2
    <2>2. QED
        BY <2>1 DEF ByPeriod
<1>6. edits' = 0 => ByCurrency(ledger, cash)'
    <2>1. SUFFICES ASSUME edits = 0 PROVE ByCurrency(ledger, cash)'
        BY DEF Commit
    <2>2. edits' = edits
        BY DEF Commit
    <2>3. ASSUME NEW p \in Period, NEW c \in Currency, NEW R, R = RowsIn(c)'
          PROVE  Agree(ledger', cash', GoodsRows(p) \cap R, GoodsMoves(p) \cap MovesIn(c))
        <3>1. Agree(ledger, cash, GoodsRows(p) \cap RowsIn(c), GoodsMoves(p) \cap MovesIn(c))
            BY <2>1 DEF Books, ByCurrency
        <3>2. TypeOK /\ Grown
            BY CommitKeeps DEF Base
        <3>3. Agree(ledger, cash, GoodsRows(p) \cap R, GoodsMoves(p) \cap MovesIn(c))
            BY <1>2, <2>2, <2>3, <3>1, <3>2, SameCurrency
        <3>4. Agree(rows, moves, GoodsRows(p) \cap R, GoodsMoves(p) \cap MovesIn(c))
            BY <1>1, <2>1, <2>3, CommitInOneCurrency
        <3>5. QED
            BY <1>3, <3>3, <3>4
    <2>4. QED
        BY <2>3 DEF ByCurrency, GoodsRows, GoodsMoves, MovesIn
<1>7. Linked(ledger') /\ Brought(ledger')
    BY <1>1, CommitLinks DEF Books
<1>8. QED
    BY <1>4, <1>5, <1>6, <1>7 DEF Books

(* An edit books no goods; after it nothing is claimed of the currencies. *)
LEMMA ChangeBooks ==
    ASSUME Base, Books, Change
    PROVE  Books'
<1>1. /\ edits' # 0 /\ cash' = cash
      /\ \/ ledger' = ledger
         \/ \E r \in LedgerRow : /\ ledger' = Append(ledger, r)
                                 /\ r.type = "price_change" /\ r.sale = None
    BY ChangeKeeps
<1>2. CASE ledger' = ledger
    BY <1>1, <1>2 DEF Books
<1>3. ASSUME NEW r \in LedgerRow, ledger' = Append(ledger, r), r.type = "price_change", r.sale = None
      PROVE  Books'
    <2>1. ledger \in Seq(LedgerRow) /\ cash \in Seq(CashRow)
        BY DEF Base, TypeOK
    <2> DEFINE rows == <<r>>
               moves == <<>>
    <2>2. /\ rows \in Seq(LedgerRow) /\ moves \in Seq(CashRow)
          /\ Joined(ledger', ledger, rows) /\ Joined(cash', cash, moves)
          /\ \A i \in DOMAIN rows : rows[i] = r
          /\ DOMAIN moves = {}
        BY <1>1, <1>3, <2>1 DEF Joined
    <2>3. /\ \A i \in DOMAIN ledger : i \in DOMAIN ledger' /\ ledger'[i] = ledger[i]
          /\ \A i \in DOMAIN ledger' : i \notin DOMAIN ledger => ledger'[i] = r
        BY <1>3, <2>1
    <2> HIDE DEF rows, moves
    <2>4. ASSUME NEW R, NEW M, Agree(ledger, cash, R, M), r \notin R
          PROVE  Agree(ledger', cash', R, M)
        <3>1. Agree(rows, moves, R, M)
            BY <2>2, <2>4, NeitherAdds
        <3>2. QED
            BY <2>1, <2>2, <2>4, <3>1, BothAppend
    <2>5. BySale(ledger', cash')
        <3>1. \A s \in Sale, d \in NoDay : r \notin SaleRows(s, d)
            BY <1>3, NoneApart DEF SaleRows
        <3>2. QED
            BY <2>4, <3>1 DEF Books, BySale
    <2>6. ByPeriod(ledger', cash')
        <3>1. \A p \in Period : r \notin GoodsRows(p)
            BY <1>3 DEF GoodsRows, Goods
        <3>2. QED
            BY <2>4, <3>1 DEF Books, ByPeriod
    <2>7. Linked(ledger') /\ Brought(ledger')
        <3>1. InASale(r) /\ r.type # "return"
            BY <1>3 DEF InASale, Goods
        <3>2. \A x : SoldBefore(ledger, x) => SoldBefore(ledger', x)
            BY <2>3 DEF SoldBefore
        <3>3. QED
            BY <2>3, <3>1, <3>2 DEF Books, Linked, Brought
    <2>8. QED
        BY <1>1, <2>5, <2>6, <2>7 DEF Books
<1>4. QED
    BY <1>1, <1>2, <1>3

LEMMA OtherBooks ==
    ASSUME Base, Books,
           UNCHANGED <<ledger, cash, edits>>, UNCHANGED <<batches, currency>>
    PROVE  Books'
<1>1. \A c : RowsIn(c)' = RowsIn(c)
    BY DEF RowsIn, operation_currency
<1>2. edits' = 0 => ByCurrency(ledger, cash)'
    BY <1>1 DEF Books, ByCurrency, GoodsRows, GoodsMoves, MovesIn
<1>3. QED
    BY <1>2 DEF Books

(* The money is what the goods were worth, after any number of steps. *)
THEOREM BooksAgree ==
    ASSUME OldBooksAgree
    PROVE  Spec => []IInv
<1>1. Init => IInv
    BY BaseInit, BooksInit DEF IInv
<1>2. IInv /\ [Next]_vars => IInv'
    <2> SUFFICES ASSUME Base, Books, [Next]_vars PROVE Base' /\ Books'
        BY DEF IInv
    <2>1. ASSUME NEW t \in Thread, Commit(t) PROVE Books'
        BY <2>1, CommitBooks
    <2>2. ASSUME Change PROVE Books'
        BY <2>2, ChangeBooks
    <2>3. ASSUME NEW t \in Thread, NEW new, Takes(t, new) PROVE Books'
        BY <2>3, OtherBooks DEF Takes, Plan
    <2>4. ASSUME NEW t \in Thread, Rollback(t) PROVE Books'
        BY <2>4, OtherBooks DEF Rollback
    <2>5. ASSUME Midnight \/ UNCHANGED vars PROVE Books'
        BY <2>5, OtherBooks DEF Midnight, vars
    <2>6. QED
        BY <2>1, <2>2, <2>3, <2>4, <2>5, BaseNext, StepKinds
<1>3. QED
    BY <1>1, <1>2, PTL DEF Spec

-----------------------------------------------------------------------------
(* What the reports sum *)

(* The sums of the module over the rows of a set are tallies. *)
LEMMA SumOfCash ==
    ASSUME TypeOK, NEW P, NEW S, \A i : i \in S <=> i \in DOMAIN cash /\ cash[i] \in P
    PROVE  SumBy(S, LAMBDA i : cash[i].amount) = Tally(cash, P, Amounts)
<1> DEFINE f == [i \in S |-> cash[i].amount]
<1>1. cash \in Seq(CashRow) /\ \A i \in DOMAIN cash : cash[i] \in CashRow
    BY DEF TypeOK
<1>2. Amounts \in [CashRow -> Int] /\ \A i \in S : f[i] = Amounts[cash[i]]
    BY <1>1, WeightsTyped
<1> HIDE DEF f
<1>3. SumFunctionOnSet(f, S) = Tally(cash, P, Amounts)
    BY <1>1, <1>2, TallyIs
<1>4. QED
    BY <1>3 DEF SumBy, f

LEMMA SumOfGoods ==
    ASSUME TypeOK, NEW P, NEW S, \A i : i \in S <=> i \in DOMAIN ledger /\ ledger[i] \in P
    PROVE  SumBy(S, LAMBDA i : -ledger[i].qty * Default(ledger[i].price, 0))
           = Tally(ledger, P, Worths)
<1> DEFINE f == [i \in S |-> -ledger[i].qty * Default(ledger[i].price, 0)]
<1>1. ledger \in Seq(LedgerRow) /\ \A i \in DOMAIN ledger : ledger[i] \in LedgerRow
    BY DEF TypeOK
<1>2. Worths \in [LedgerRow -> Int] /\ \A i \in S : f[i] = Worths[ledger[i]]
    BY <1>1, WeightsTyped
<1> HIDE DEF f
<1>3. SumFunctionOnSet(f, S) = Tally(ledger, P, Worths)
    BY <1>1, <1>2, TallyIs
<1>4. QED
    BY <1>3 DEF SumBy, f

LEMMA SumOfPieces ==
    ASSUME TypeOK, NEW P, NEW S, \A i : i \in S <=> i \in DOMAIN ledger /\ ledger[i] \in P
    PROVE  SumBy(S, LAMBDA i : ledger[i].qty) = Tally(ledger, P, Quantities)
<1> DEFINE f == [i \in S |-> ledger[i].qty]
<1>1. ledger \in Seq(LedgerRow) /\ \A i \in DOMAIN ledger : ledger[i] \in LedgerRow
    BY DEF TypeOK
<1>2. Quantities \in [LedgerRow -> Int] /\ \A i \in S : f[i] = Quantities[ledger[i]]
    BY <1>1, WeightsTyped
<1> HIDE DEF f
<1>3. SumFunctionOnSet(f, S) = Tally(ledger, P, Quantities)
    BY <1>1, <1>2, TallyIs
<1>4. QED
    BY <1>3 DEF SumBy, f

LEMMA TallyParts ==
    ASSUME NEW R, NEW l \in Seq(R), NEW w \in [R -> Int], NEW A, NEW B, A \cap B = {}
    PROVE  Tally(l, A \cup B, w) = Tally(l, A, w) + Tally(l, B, w)
<1>1. /\ Rows(l, A \cup B) = Rows(l, A) \cup Rows(l, B) /\ Rows(l, A) \cap Rows(l, B) = {}
    BY DEF Rows
<1>2. /\ IsFiniteSet(Rows(l, A)) /\ Ints(Weights(l, w), Rows(l, A))
      /\ IsFiniteSet(Rows(l, B)) /\ Ints(Weights(l, w), Rows(l, B))
    BY RowsTyped
<1> DEFINE f == Weights(l, w)
           X == Rows(l, A)
           Y == Rows(l, B)
<1> HIDE DEF f, X, Y
<1>3. IsFiniteSet(X) /\ IsFiniteSet(Y) /\ X \cap Y = {} /\ Ints(f, X) /\ Ints(f, Y)
    BY <1>1, <1>2 DEF f, X, Y
<1>4. SumFunctionOnSet(f, X \cup Y) = SumFunctionOnSet(f, X) + SumFunctionOnSet(f, Y)
    BY <1>3, SumUnion
<1>5. QED
    BY <1>1, <1>4 DEF Tally, f, X, Y

(* Pieces of one price are worth that price times their number. *)
LEMMA TallyPriced ==
    ASSUME NEW l \in Seq(LedgerRow), NEW P, NEW u \in Nat,
           \A i \in Rows(l, P) : Default(l[i].price, 0) = u
    PROVE  Tally(l, P, Worths) = (-u) * Tally(l, P, Quantities)
<1> DEFINE S == Rows(l, P)
           f == Weights(l, Quantities)
           g == Weights(l, Worths)
<1>1. Worths \in [LedgerRow -> Int] /\ Quantities \in [LedgerRow -> Int]
    BY WeightsTyped
<1>2. IsFiniteSet(S) /\ Ints(f, S)
    BY <1>1, RowsTyped
<1>3. \A i \in S : g[i] = (-u) * f[i]
    <2>1. \A i \in S : i \in DOMAIN l /\ l[i] \in LedgerRow
        BY DEF Rows
    <2>2. \A i \in S : /\ f[i] = l[i].qty /\ l[i].qty \in Int
                       /\ g[i] = -l[i].qty * u
        BY <2>1, WeightsTyped DEF Weights, LedgerRow
    <2>3. \A a \in Int, b \in Nat : -a * b = (-b) * a
        OBVIOUS
    <2> HIDE DEF S, f, g
    <2>4. QED
        BY <2>2, <2>3
<1> HIDE DEF S, f, g
<1>4. SumFunctionOnSet(g, S) = (-u) * SumFunctionOnSet(f, S)
    BY <1>2, <1>3, SumTimes
<1>5. QED
    BY <1>4 DEF S, f, g, Tally

-----------------------------------------------------------------------------
(* The cash of a sale *)

InSale(s) == {r \in LedgerRow : r.sale = s}
PaidInSale(s) == {m \in CashRow : m.sale = s}
OfProduct(s, q) == {r \in LedgerRow : r.sale = s /\ r.product = q}
OfType(s, q, type) == {r \in LedgerRow : r.sale = s /\ r.product = q /\ r.type = type}

LEMMA Returnable ==
    ASSUME TypeOK, Linked(ledger), NEW s \in Sale, NEW q \in Product
    PROVE  Tally(ledger, OfProduct(s, q), Quantities) = -returnable_qty(s, q)
<1> DEFINE S(type) == {i \in DOMAIN ledger : /\ ledger[i].sale = s /\ ledger[i].product = q
                                             /\ ledger[i].type = type}
<1>1. ledger \in Seq(LedgerRow) /\ Quantities \in [LedgerRow -> Int]
      /\ \A i \in DOMAIN ledger : ledger[i] \in LedgerRow
    BY WeightsTyped DEF TypeOK
<1>2. ASSUME NEW type PROVE SumQty(s, q, type) = Tally(ledger, OfType(s, q, type), Quantities)
    <2>1. \A i : i \in S(type) <=> i \in DOMAIN ledger /\ ledger[i] \in OfType(s, q, type)
        BY <1>1 DEF OfType
    <2>2. SumBy(S(type), LAMBDA i : ledger[i].qty) = Tally(ledger, OfType(s, q, type), Quantities)
        BY <2>1, SumOfPieces
    <2>3. QED
        BY <2>2 DEF SumQty
<1> DEFINE A == OfType(s, q, "sale")
           B == OfType(s, q, "return")
<1>3. A \cap B = {}
    BY DEF OfType
<1>4. \A i \in DOMAIN ledger : ledger[i] \in A \cup B <=> ledger[i] \in OfProduct(s, q)
    <2>1. \A i \in DOMAIN ledger : ledger[i].sale = s => ledger[i].type \in {"sale", "return"}
        BY MoneyIds, NoneApart DEF Linked, InASale, Goods
    <2>2. QED
        BY <1>1, <2>1 DEF OfType, OfProduct
<1> HIDE DEF A, B
<1>5. /\ Tally(ledger, A \cup B, Quantities) = Tally(ledger, A, Quantities) + Tally(ledger, B, Quantities)
      /\ Tally(ledger, A, Quantities) \in Int /\ Tally(ledger, B, Quantities) \in Int
    BY <1>1, <1>3, TallyParts, RowsTyped
<1>6. Tally(ledger, A \cup B, Quantities) = Tally(ledger, OfProduct(s, q), Quantities)
    <2>1. Rows(ledger, A \cup B) = Rows(ledger, OfProduct(s, q))
        BY <1>4 DEF Rows
    <2>2. QED
        BY <2>1 DEF Tally
<1>7. SumQty(s, q, "sale") = Tally(ledger, A, Quantities)
      /\ SumQty(s, q, "return") = Tally(ledger, B, Quantities)
    BY <1>2 DEF A, B
<1>8. QED
    BY <1>5, <1>6, <1>7 DEF returnable_qty, sold_qty

LEMMA ReturnableTyped ==
    ASSUME TypeOK, NEW s, NEW q
    PROVE  returnable_qty(s, q) \in Int
<1> DEFINE T(type) == {i \in DOMAIN ledger : /\ ledger[i].sale = s /\ ledger[i].product = q
                                             /\ ledger[i].type = type}
<1>1. ledger \in Seq(LedgerRow) /\ Quantities \in [LedgerRow -> Int]
    BY WeightsTyped DEF TypeOK
<1>2. ASSUME NEW type PROVE SumQty(s, q, type) \in Int
    <2>1. \A i : i \in T(type) <=> i \in DOMAIN ledger /\ ledger[i] \in OfType(s, q, type)
        BY <1>1 DEF OfType
    <2>2. SumBy(T(type), LAMBDA i : ledger[i].qty) = Tally(ledger, OfType(s, q, type), Quantities)
        BY <2>1, SumOfPieces
    <2>3. QED
        BY <1>1, <2>2, RowsTyped DEF SumQty
<1>3. QED
    BY <1>2 DEF returnable_qty, sold_qty

(* The days a row may be booked on, the day nobody named included. *)
LEMMA DaysFinite == IsFiniteSet(Day) /\ IsFiniteSet(NoDay)
<1>1. IsFiniteSet(0..MaxDay)
    BY MoneyBounds, FS_Interval
<1>2. QED
    BY <1>1, FS_AddElement DEF Day, NoDay

(* In all, a sale took what its goods were worth. *)
LEMMA SaleWorth ==
    ASSUME TypeOK, BySale(ledger, cash), NEW s \in Sale
    PROVE  Tally(cash, PaidInSale(s), Amounts) = Tally(ledger, InSale(s), Worths)
<1> DEFINE g == [d \in NoDay |-> Tally(ledger, SaleRows(s, d), Worths)]
           P == PaidInSale(s)
           Q == [d \in NoDay |-> SaleMoves(s, d)]
           key == [i \in DOMAIN cash |-> cash[i].day]
           P2 == InSale(s)
           Q2 == [d \in NoDay |-> SaleRows(s, d)]
           key2 == [i \in DOMAIN ledger |-> ledger[i].day]
<1>1. /\ ledger \in Seq(LedgerRow) /\ cash \in Seq(CashRow)
      /\ Worths \in [LedgerRow -> Int] /\ Amounts \in [CashRow -> Int]
      /\ IsFiniteSet(NoDay)
    BY WeightsTyped, DaysFinite DEF TypeOK
<1>2. \A i \in DOMAIN cash : cash[i] \in CashRow /\ cash[i].day \in NoDay
    <2>1. \A i \in DOMAIN cash : cash[i] \in CashRow
        BY DEF TypeOK
    <2>2. \A m \in CashRow : m.day \in NoDay
        BY DEF CashRow
    <2>3. QED
        BY <2>1, <2>2
<1>3. \A i \in DOMAIN ledger : ledger[i] \in LedgerRow /\ ledger[i].day \in NoDay
    <2>1. \A i \in DOMAIN ledger : ledger[i] \in LedgerRow
        BY DEF TypeOK
    <2>2. \A m \in LedgerRow : m.day \in NoDay
        BY DEF LedgerRow
    <2>3. QED
        BY <2>1, <2>2
<1>4. Grouped(cash, P, NoDay, key, Q) /\ Totals(g, cash, NoDay, Q, Amounts)
    <2>1. Grouped(cash, P, NoDay, key, Q)
        BY <1>2 DEF Grouped, Rows, PaidInSale, SaleMoves
    <2>2. Totals(g, cash, NoDay, Q, Amounts)
        BY DEF Totals, BySale, Agree
    <2>3. QED
        BY <2>1, <2>2
<1>5. Grouped(ledger, P2, NoDay, key2, Q2) /\ Totals(g, ledger, NoDay, Q2, Worths)
    <2>1. Grouped(ledger, P2, NoDay, key2, Q2)
        BY <1>3 DEF Grouped, Rows, InSale, SaleRows
    <2>2. Totals(g, ledger, NoDay, Q2, Worths)
        BY DEF Totals
    <2>3. QED
        BY <2>1, <2>2
<1> HIDE DEF g, P, Q, key, P2, Q2, key2
<1>6. Tally(cash, P, Amounts) = SumFunctionOnSet(g, NoDay)
    BY <1>1, <1>4, TallySplit
<1>7. Tally(ledger, P2, Worths) = SumFunctionOnSet(g, NoDay)
    BY <1>1, <1>5, TallySplit
<1>8. QED
    BY <1>6, <1>7 DEF P, P2

(* Its goods are worth something as long as no more came back than was     *)
(* sold and all pieces of a product had one price.                         *)
LEMMA WorthOfSale ==
    ASSUME TypeOK, Linked(ledger), Brought(ledger), NEW s \in Sale,
           \A i, j \in DOMAIN ledger :
               /\ ledger[i].sale = s /\ ledger[i].type = "sale"
               /\ ledger[j].sale = s /\ ledger[j].type = "sale"
               /\ ledger[i].product = ledger[j].product
               => ledger[i].price = ledger[j].price,
           \A i \in DOMAIN ledger :
               ledger[i].sale = s => returnable_qty(s, ledger[i].product) >= 0
    PROVE  Tally(ledger, InSale(s), Worths) >= 0
<1> DEFINE g == [q \in Product |-> Tally(ledger, OfProduct(s, q), Worths)]
           P == InSale(s)
           Q == [q \in Product |-> OfProduct(s, q)]
           key == [i \in DOMAIN ledger |-> ledger[i].product]
<1>1. /\ ledger \in Seq(LedgerRow) /\ Worths \in [LedgerRow -> Int]
      /\ Quantities \in [LedgerRow -> Int] /\ IsFiniteSet(Product)
    BY WeightsTyped, MoneyIds DEF TypeOK
<1>2. \A i \in DOMAIN ledger : ledger[i] \in LedgerRow /\ ledger[i].product \in Product
    <2>1. \A i \in DOMAIN ledger : ledger[i] \in LedgerRow
        BY DEF TypeOK
    <2>2. \A r \in LedgerRow : r.product \in Product
        BY DEF LedgerRow
    <2>3. QED
        BY <2>1, <2>2
<1>3. ASSUME NEW q \in Product
      PROVE  Tally(ledger, OfProduct(s, q), Worths) >= 0
    <2> DEFINE S == Rows(ledger, OfProduct(s, q))
    <2>1. CASE S = {}
        BY <2>1, SumEmpty DEF Tally
    <2>2. CASE S # {}
        <3>1. \A i : i \in S <=> i \in DOMAIN ledger /\ ledger[i].sale = s /\ ledger[i].product = q
            BY <1>2 DEF Rows, OfProduct
        <3>2. \A i \in S : \E j \in S : ledger[j].type = "sale" /\ ledger[j].price = ledger[i].price
            <4>1. \A i \in S : ledger[i].type = "sale" \/ ledger[i].type = "return"
                BY <3>1, NoneApart DEF Linked, InASale, Goods
            <4>2. QED
                BY <3>1, <4>1 DEF Brought, SoldBefore
        <3>3. PICK k \in S : ledger[k].type = "sale"
            BY <2>2, <3>2
        <3>4. \A i \in S : ledger[i].price = ledger[k].price
            BY <3>1, <3>2, <3>3
        <3>5. PICK u : u = Default(ledger[k].price, 0)
            OBVIOUS
        <3>6. u \in Nat
            BY <1>2, <3>1, <3>5, WeightsTyped
        <3>7. \A i \in S : Default(ledger[i].price, 0) = u
            BY <3>4, <3>5
        <3>8. Tally(ledger, OfProduct(s, q), Worths)
              = (-u) * Tally(ledger, OfProduct(s, q), Quantities)
            BY <1>1, <3>6, <3>7, TallyPriced
        <3>9. returnable_qty(s, q) >= 0
            BY <3>1, <3>3
        <3>10. /\ Tally(ledger, OfProduct(s, q), Quantities) = -returnable_qty(s, q)
               /\ Tally(ledger, OfProduct(s, q), Quantities) \in Int
            BY <1>1, Returnable, RowsTyped
        <3>11. \A a, b \in Int : a <= 0 /\ b >= 0 => (-b) * a >= 0
            OBVIOUS
        <3>12. returnable_qty(s, q) \in Int
            BY ReturnableTyped
        <3> HIDE DEF S
        <3>13. QED
            BY <3>6, <3>8, <3>9, <3>10, <3>11, <3>12
    <2>3. QED
        BY <2>1, <2>2
<1>4. Grouped(ledger, P, Product, key, Q) /\ Totals(g, ledger, Product, Q, Worths)
    <2>1. Grouped(ledger, P, Product, key, Q)
        BY <1>2 DEF Grouped, Rows, InSale, OfProduct
    <2>2. Totals(g, ledger, Product, Q, Worths)
        BY DEF Totals
    <2>3. QED
        BY <2>1, <2>2
<1>5. Ints(g, Product) /\ \A q \in Product : g[q] >= 0
    BY <1>1, <1>3, RowsTyped DEF Ints
<1> HIDE DEF g, P, Q, key
<1>6. Tally(ledger, P, Worths) = SumFunctionOnSet(g, Product)
    BY <1>1, <1>4, TallySplit
<1>7. SumFunctionOnSet(g, Product) >= 0
    BY <1>1, <1>5, SumNotNegative
<1>8. QED
    BY <1>6, <1>7 DEF P

(* SaleCash, for every catalogue, basket and number of requests: the cash  *)
(* of a sale follows its goods on every day (services/sales.py and         *)
(* services/returns.py book both with one date), and a refund never gives  *)
(* back more than was paid.  The rows stored before were booked so too.    *)
THEOREM SaleCashHolds ==
    ASSUME OldBooksAgree
    PROVE  Spec => []SaleCash
<1>1. IInv => SaleCash
    <2> SUFFICES ASSUME TypeOK, Books PROVE BookedTogether /\ RefundWithinPaid
        BY DEF IInv, Base, SaleCash
    <2>1. \A i \in DOMAIN cash : cash[i] \in CashRow
        BY DEF TypeOK
    <2>2. \A i \in DOMAIN ledger : ledger[i] \in LedgerRow
        BY DEF TypeOK
    <2>3. BookedTogether
        <3>1. ASSUME NEW s \in Sale, NEW d \in NoDay
              PROVE  SumBy({i \in DOMAIN cash : cash[i].sale = s /\ cash[i].day = d},
                           LAMBDA i : cash[i].amount)
                     = SumBy({i \in DOMAIN ledger : ledger[i].sale = s /\ ledger[i].day = d},
                             LAMBDA i : -ledger[i].qty * Default(ledger[i].price, 0))
            <4> DEFINE C == {i \in DOMAIN cash : cash[i].sale = s /\ cash[i].day = d}
                       L == {i \in DOMAIN ledger : ledger[i].sale = s /\ ledger[i].day = d}
            <4>1. \A i : i \in C <=> i \in DOMAIN cash /\ cash[i] \in SaleMoves(s, d)
                BY <2>1 DEF SaleMoves
            <4>2. \A i : i \in L <=> i \in DOMAIN ledger /\ ledger[i] \in SaleRows(s, d)
                BY <2>2 DEF SaleRows
            <4> HIDE DEF C, L
            <4>3. SumBy(C, LAMBDA i : cash[i].amount) = Tally(cash, SaleMoves(s, d), Amounts)
                BY <4>1, SumOfCash
            <4>4. SumBy(L, LAMBDA i : -ledger[i].qty * Default(ledger[i].price, 0))
                  = Tally(ledger, SaleRows(s, d), Worths)
                BY <4>2, SumOfGoods
            <4>5. Tally(cash, SaleMoves(s, d), Amounts) = Tally(ledger, SaleRows(s, d), Worths)
                BY DEF Books, BySale, Agree
            <4>6. QED
                BY <4>3, <4>4, <4>5 DEF C, L
        <3>2. QED
            BY <3>1 DEF BookedTogether, NoDay, Day
    <2>4. RefundWithinPaid
        <3> DEFINE rows(s) == {i \in DOMAIN ledger : ledger[i].sale = s}
                   sold(s) == {i \in rows(s) : ledger[i].type = "sale"}
                   C(s) == {i \in DOMAIN cash : cash[i].sale = s}
        <3>1. ASSUME NEW s \in Sale,
                     \A i, j \in sold(s) : ledger[i].product = ledger[j].product =>
                                              ledger[i].price = ledger[j].price,
                     \A i \in rows(s) : returnable_qty(s, ledger[i].product) >= 0
              PROVE  SumBy(C(s), LAMBDA i : cash[i].amount) >= 0
            <4>1. \A i : i \in C(s) <=> i \in DOMAIN cash /\ cash[i] \in PaidInSale(s)
                BY <2>1 DEF PaidInSale
            <4>2. SumBy(C(s), LAMBDA i : cash[i].amount) = Tally(cash, PaidInSale(s), Amounts)
                BY <4>1, SumOfCash
            <4>3. Tally(cash, PaidInSale(s), Amounts) = Tally(ledger, InSale(s), Worths)
                BY SaleWorth DEF Books
            <4>4. Tally(ledger, InSale(s), Worths) >= 0
                BY <3>1, WorthOfSale DEF Books
            <4>5. QED
                BY <4>2, <4>3, <4>4
        <3>2. QED
            BY <3>1 DEF RefundWithinPaid
    <2>5. QED
        BY <2>3, <2>4
<1>2. QED
    BY <1>1, BooksAgree, PTL

-----------------------------------------------------------------------------
(* The reports *)

CashIn(cats, a, z, c) ==
    {m \in CashRow : m.category \in cats /\ m.currency = c /\ InPeriod(m, a, z)}

LEMMA CashOfIs ==
    ASSUME TypeOK, NEW cats, NEW a, NEW z, NEW c
    PROVE  CashOf(cats, a, z, c) = Tally(cash, CashIn(cats, a, z, c), Amounts)
<1> DEFINE S == {i \in DOMAIN cash : /\ cash[i].category \in cats /\ cash[i].currency = c
                                     /\ InPeriod(cash[i], a, z)}
<1>1. \A i : i \in S <=> i \in DOMAIN cash /\ cash[i] \in CashIn(cats, a, z, c)
    <2>1. \A i \in DOMAIN cash : cash[i] \in CashRow
        BY DEF TypeOK
    <2>2. QED
        BY <2>1 DEF CashIn
<1> HIDE DEF S
<1>2. SumBy(S, LAMBDA i : cash[i].amount) = Tally(cash, CashIn(cats, a, z, c), Amounts)
    BY <1>1, SumOfCash
<1>3. QED
    BY <1>2 DEF S, CashOf

LEMMA CashOfTyped ==
    ASSUME TypeOK, NEW cats, NEW a, NEW z, NEW c
    PROVE  CashOf(cats, a, z, c) \in Int
<1>1. cash \in Seq(CashRow) /\ Amounts \in [CashRow -> Int]
    BY WeightsTyped DEF TypeOK
<1>2. QED
    BY <1>1, CashOfIs, RowsTyped

RevenueRows(a, z, c) ==
    {r \in LedgerRow : r.type \in Goods /\ InPeriod(r, a, z) /\ operation_currency(r) = c}

LEMMA RevenueIs ==
    ASSUME TypeOK, NEW a, NEW z, NEW c
    PROVE  /\ sales_profit_report(a, z, c).revenue = Tally(ledger, RevenueRows(a, z, c), Worths)
           /\ sales_profit_report(a, z, c).revenue \in Int
<1>1. ledger \in Seq(LedgerRow) /\ Worths \in [LedgerRow -> Int]
      /\ \A i \in DOMAIN ledger : ledger[i] \in LedgerRow
    BY WeightsTyped DEF TypeOK
<1>2. \A i : i \in SalesRows(a, z, c) <=> i \in DOMAIN ledger /\ ledger[i] \in RevenueRows(a, z, c)
    BY <1>1 DEF SalesRows, RevenueRows, Goods
<1>3. SumBy(SalesRows(a, z, c), LAMBDA i : -ledger[i].qty * Default(ledger[i].price, 0))
      = Tally(ledger, RevenueRows(a, z, c), Worths)
    BY <1>2, SumOfGoods
<1>4. sales_profit_report(a, z, c).revenue = Tally(ledger, RevenueRows(a, z, c), Worths)
    BY <1>3 DEF sales_profit_report
<1>5. QED
    BY <1>1, <1>4, RowsTyped

(* The revenue is the cash, over all currencies; in each while nothing was *)
(* edited.                                                                 *)
LEMMA RevenueAgrees ==
    ASSUME TypeOK, Books PROVE RevenueIsCash
<1> DEFINE Kinds == CASH_BUCKETS.sale \cup CASH_BUCKETS.return
<1>1. Kinds = Goods
    BY DEF CASH_BUCKETS, Goods
<1>2. ASSUME NEW p \in Period, NEW c \in Currency
      PROVE  /\ CashOf(Kinds, p[1], p[2], c) = Tally(cash, GoodsMoves(p) \cap MovesIn(c), Amounts)
             /\ sales_profit_report(p[1], p[2], c).revenue
                = Tally(ledger, GoodsRows(p) \cap RowsIn(c), Worths)
    <2>1. CashIn(Goods, p[1], p[2], c) = GoodsMoves(p) \cap MovesIn(c)
        BY DEF CashIn, GoodsMoves, MovesIn
    <2>2. RevenueRows(p[1], p[2], c) = GoodsRows(p) \cap RowsIn(c)
        BY DEF RevenueRows, GoodsRows, RowsIn
    <2>3. CashOf(Goods, p[1], p[2], c) = Tally(cash, CashIn(Goods, p[1], p[2], c), Amounts)
        BY CashOfIs
    <2>4. sales_profit_report(p[1], p[2], c).revenue
          = Tally(ledger, RevenueRows(p[1], p[2], c), Worths)
        BY RevenueIs
    <2>5. QED
        BY <1>1, <2>1, <2>2, <2>3, <2>4
<1> HIDE DEF Kinds
<1>3. ASSUME NEW p \in Period
      PROVE  SumBy(Currency, LAMBDA c : CashOf(Kinds, p[1], p[2], c))
             = SumBy(Currency, LAMBDA c : sales_profit_report(p[1], p[2], c).revenue)
    <2> DEFINE f == [c \in Currency |-> CashOf(Kinds, p[1], p[2], c)]
               g == [c \in Currency |-> sales_profit_report(p[1], p[2], c).revenue]
    <2>1. Takings(p, f) /\ Revenues(p, g)
        BY <1>2 DEF Takings, Revenues
    <2> HIDE DEF f, g
    <2>2. Tally(cash, GoodsMoves(p), Amounts) = SumFunctionOnSet(f, Currency)
        BY <2>1, ByCurrencies
    <2>3. Tally(ledger, GoodsRows(p), Worths) = SumFunctionOnSet(g, Currency)
        BY <2>1, ByCurrencies
    <2>4. Tally(cash, GoodsMoves(p), Amounts) = Tally(ledger, GoodsRows(p), Worths)
        BY DEF Books, ByPeriod, Agree
    <2>5. SumFunctionOnSet(f, Currency) = SumFunctionOnSet(g, Currency)
        BY <2>2, <2>3, <2>4
    <2>6. QED
        BY <2>5 DEF f, g, SumBy
<1>4. ASSUME NEW p \in Period, edits = 0, NEW c \in Currency
      PROVE  CashOf(Kinds, p[1], p[2], c) = sales_profit_report(p[1], p[2], c).revenue
    BY <1>2, <1>4 DEF Books, ByCurrency, Agree
<1>5. QED
    BY <1>3, <1>4 DEF RevenueIsCash, Kinds

(* A period that holds every day holds every row. *)
LEMMA EveryDay ==
    ASSUME TypeOK
    PROVE  /\ \A i \in DOMAIN ledger : /\ business_date_expr(ledger[i]) \in Day
                                       /\ InPeriod(ledger[i], 0, MaxDay)
           /\ \A i \in DOMAIN cash : /\ business_date_expr(cash[i]) \in Day
                                     /\ InPeriod(cash[i], 0, MaxDay)
<1>1. \A i \in DOMAIN ledger : ledger[i].day \in NoDay /\ ledger[i].utc \in Day
    <2>1. \A i \in DOMAIN ledger : ledger[i] \in LedgerRow /\ Stored(ledger[i])
        BY DEF TypeOK
    <2>2. \A r \in LedgerRow : r.day \in NoDay
        BY DEF LedgerRow
    <2>3. QED
        BY <2>1, <2>2 DEF Stored
<1>2. \A i \in DOMAIN cash : cash[i].day \in NoDay /\ cash[i].utc \in Day
    <2>1. \A i \in DOMAIN cash : cash[i] \in CashRow /\ Stored(cash[i])
        BY DEF TypeOK
    <2>2. \A r \in CashRow : r.day \in NoDay
        BY DEF CashRow
    <2>3. QED
        BY <2>1, <2>2 DEF Stored
<1>3. \A d \in Day : 0 <= d /\ d <= MaxDay
    BY MoneyBounds DEF Day
<1>4. QED
    BY <1>1, <1>2, <1>3 DEF InPeriod, business_date_expr, Default, NoDay

(* The best sellers of all time are what may still be brought back. *)
LEMMA SoldIsLeft ==
    ASSUME TypeOK, Linked(ledger), NEW q \in Product
    PROVE  -SumBy({i \in DOMAIN ledger : /\ ledger[i].type \in {"sale", "return"}
                                         /\ ledger[i].product = q
                                         /\ InPeriod(ledger[i], 0, MaxDay)},
                  LAMBDA i : ledger[i].qty)
           = SumBy(Sale, LAMBDA s : returnable_qty(s, q))
<1> DEFINE S == {i \in DOMAIN ledger : /\ ledger[i].type \in {"sale", "return"}
                                       /\ ledger[i].product = q
                                       /\ InPeriod(ledger[i], 0, MaxDay)}
           P == {r \in LedgerRow : r.type \in Goods /\ r.product = q}
           Q == [s \in Sale |-> OfProduct(s, q)]
           key == [i \in DOMAIN ledger |-> ledger[i].sale]
           g == [s \in Sale |-> Tally(ledger, OfProduct(s, q), Quantities)]
           h == [s \in Sale |-> returnable_qty(s, q)]
<1>1. /\ ledger \in Seq(LedgerRow) /\ Quantities \in [LedgerRow -> Int] /\ IsFiniteSet(Sale)
    BY WeightsTyped, MoneyIds DEF TypeOK
<1>2. \A i \in DOMAIN ledger : ledger[i] \in LedgerRow /\ ledger[i].sale \in Sale \cup {None}
    <2>1. \A i \in DOMAIN ledger : ledger[i] \in LedgerRow
        BY DEF TypeOK
    <2>2. \A r \in LedgerRow : r.sale \in Sale \cup {None}
        BY DEF LedgerRow
    <2>3. QED
        BY <2>1, <2>2
<1>3. \A i : i \in S <=> i \in DOMAIN ledger /\ ledger[i] \in P
    BY <1>2, EveryDay DEF Goods
<1>4. Grouped(ledger, P, Sale, key, Q) /\ Totals(g, ledger, Sale, Q, Quantities)
    <2>1. \A i \in DOMAIN ledger : ledger[i].type \in Goods <=> ledger[i].sale \in Sale
        BY <1>2, NoneApart DEF Linked, InASale
    <2>2. Grouped(ledger, P, Sale, key, Q)
        BY <1>2, <2>1 DEF Grouped, Rows, OfProduct
    <2>3. Totals(g, ledger, Sale, Q, Quantities)
        BY DEF Totals
    <2>4. QED
        BY <2>2, <2>3
<1>5. Ints(g, Sale) /\ \A s \in Sale : h[s] = (-1) * g[s]
    <2>1. \A s \in Sale : g[s] \in Int /\ g[s] = -returnable_qty(s, q)
        BY <1>1, RowsTyped, Returnable
    <2>2. \A s \in Sale : returnable_qty(s, q) \in Int
        BY ReturnableTyped
    <2>3. \A a, b \in Int : a = -b => b = (-1) * a
        OBVIOUS
    <2>4. \A s \in Sale : h[s] = returnable_qty(s, q)
        OBVIOUS
    <2> HIDE DEF g, h
    <2>5. QED
        BY <2>1, <2>2, <2>3, <2>4 DEF Ints
<1> HIDE DEF S, P, Q, key, g, h
<1>6. SumBy(S, LAMBDA i : ledger[i].qty) = Tally(ledger, P, Quantities)
    BY <1>3, SumOfPieces
<1>7. Tally(ledger, P, Quantities) = SumFunctionOnSet(g, Sale)
    BY <1>1, <1>4, TallySplit
<1>8. SumFunctionOnSet(h, Sale) = (-1) * SumFunctionOnSet(g, Sale)
    BY <1>1, <1>5, SumTimes
<1>9. SumFunctionOnSet(g, Sale) \in Int
    BY <1>1, <1>5, SumPick
<1>10. SumBy(Sale, LAMBDA s : returnable_qty(s, q)) = SumFunctionOnSet(h, Sale)
    BY DEF SumBy, h
<1>11. -SumBy(S, LAMBDA i : ledger[i].qty) = SumBy(Sale, LAMBDA s : returnable_qty(s, q))
    BY <1>6, <1>7, <1>8, <1>9, <1>10
<1>12. QED
    BY <1>11 DEF S

LEMMA CategoriesFinite ==
    /\ IsFiniteSet(CASH_CATEGORIES)
    /\ CASH_CATEGORIES = CASH_BUCKETS.sale \cup CASH_BUCKETS.return
                         \cup CASH_BUCKETS.deposit \cup CASH_BUCKETS.withdrawal
    /\ CASH_BUCKETS.withdrawal \cap
          (CASH_BUCKETS.sale \cup CASH_BUCKETS.return \cup CASH_BUCKETS.deposit) = {}
<1>1. CASH_CATEGORIES = {"sale", "return", "withdrawal_supplier", "withdrawal_other",
                         "deposit_correction"}
    BY Categories
<1>2. IsFiniteSet({"sale", "return", "withdrawal_supplier", "withdrawal_other",
                   "deposit_correction"})
    <2>1. \A S, x : IsFiniteSet(S) => IsFiniteSet(S \cup {x})
        BY FS_AddElement
    <2>2. IsFiniteSet((((({} \cup {"sale"}) \cup {"return"}) \cup {"withdrawal_supplier"})
                       \cup {"withdrawal_other"}) \cup {"deposit_correction"})
        BY <2>1, FS_EmptySet, Zenon
    <2>3. QED
        BY <2>2
<1>3. QED
    BY <1>1, <1>2 DEF CASH_BUCKETS

(* The lines of the flow report add up to the cash of their categories. *)
Present(a, z, c) == {cash[i].category : i \in {j \in DOMAIN cash :
                        /\ cash[j].currency = c /\ InPeriod(cash[j], a, z)}}
Lines(cats, a, z, c) == {<<k, CashOf({k}, a, z, c)>> : k \in cats \cap Present(a, z, c)}

LEMMA LinesTotal ==
    ASSUME TypeOK, NEW a, NEW z, NEW c, NEW cats \in SUBSET CASH_CATEGORIES,
           NEW lines, lines = Lines(cats, a, z, c)
    PROVE  SumBy(lines, LAMBDA l : l[2]) = CashOf(cats, a, z, c)
<1> DEFINE present == Present(a, z, c)
           P == CashIn(cats, a, z, c)
           f == [k \in cats |-> CashOf({k}, a, z, c)]
           Q == [k \in cats |-> CashIn({k}, a, z, c)]
           key == [i \in DOMAIN cash |-> cash[i].category]
           shown == cats \cap present
           h == [k \in shown |-> <<k, CashOf({k}, a, z, c)>>]
           g == [l \in lines |-> l[2]]
<1>1. /\ cash \in Seq(CashRow) /\ Amounts \in [CashRow -> Int] /\ IsFiniteSet(cats)
      /\ \A i \in DOMAIN cash : cash[i] \in CashRow
    BY WeightsTyped, CategoriesFinite, FS_Subset DEF TypeOK
<1>2. Grouped(cash, P, cats, key, Q) /\ Totals(f, cash, cats, Q, Amounts)
    <2>1. Grouped(cash, P, cats, key, Q)
        BY <1>1 DEF Grouped, Rows, CashIn
    <2>2. Totals(f, cash, cats, Q, Amounts)
        BY CashOfIs DEF Totals
    <2>3. QED
        BY <2>1, <2>2
<1>3. Ints(f, cats)
    BY CashOfTyped DEF Ints
<1>4. \A k \in cats \ shown : f[k] = 0
    <2> SUFFICES ASSUME NEW k \in cats, k \notin present PROVE CashOf({k}, a, z, c) = 0
        OBVIOUS
    <2>1. \A i \in DOMAIN cash : cash[i] \notin CashIn({k}, a, z, c)
        BY DEF CashIn, Present
    <2>2. Tally(cash, CashIn({k}, a, z, c), Amounts) = 0
        BY <2>1, TallyNone
    <2>3. QED
        BY <2>2, CashOfIs
<1>5. h \in Bijection(shown, lines) /\ \A k \in shown : g[h[k]] = f[k]
    BY DEF Bijection, Injection, Surjection, IsInjective, Lines
<1>6. shown \in SUBSET cats /\ IsFiniteSet(shown) /\ Ints(f, shown)
    BY <1>1, <1>3, FS_Subset DEF Ints
<1> HIDE DEF P, Q, key, f, g, h, shown
<1>7. Tally(cash, P, Amounts) = SumFunctionOnSet(f, cats)
    BY <1>1, <1>2, TallySplit
<1>8. SumFunctionOnSet(f, cats) = SumFunctionOnSet(f, shown)
    BY <1>1, <1>3, <1>4, <1>6, SumFilter
<1>9. SumFunctionOnSet(f, shown) = SumFunctionOnSet(g, lines)
    BY <1>5, <1>6, SumMap
<1>10. CashOf(cats, a, z, c) = Tally(cash, P, Amounts)
    BY CashOfIs DEF P
<1>11. SumFunctionOnSet(g, lines) = CashOf(cats, a, z, c)
    BY <1>7, <1>8, <1>9, <1>10
<1>12. QED
    BY <1>11 DEF g, SumBy

LEMMA FlowTotals ==
    ASSUME TypeOK, NEW a, NEW z, NEW c
    PROVE  /\ cash_flow_report(a, z, c).income_total
              = CashOf(CASH_BUCKETS.sale \cup CASH_BUCKETS.return \cup CASH_BUCKETS.deposit, a, z, c)
           /\ cash_flow_report(a, z, c).expense_total = CashOf(CASH_BUCKETS.withdrawal, a, z, c)
<1>1. ASSUME NEW cats \in SUBSET CASH_CATEGORIES
      PROVE  SumBy(Lines(cats, a, z, c), LAMBDA l : l[2]) = CashOf(cats, a, z, c)
    BY LinesTotal
<1>2. /\ CASH_BUCKETS.sale \cup CASH_BUCKETS.return \cup CASH_BUCKETS.deposit
             \in SUBSET CASH_CATEGORIES
      /\ CASH_BUCKETS.withdrawal \in SUBSET CASH_CATEGORIES
    BY CategoriesFinite
<1>3. QED
    BY <1>1, <1>2 DEF cash_flow_report, Lines, Present

(* The whole flow is the balance. *)
LEMMA FlowIsBalance ==
    ASSUME TypeOK, NEW c
    PROVE  cash_flow_report(0, MaxDay, c).income_total
           + cash_flow_report(0, MaxDay, c).expense_total = compute_balance(c)
<1> DEFINE In == CASH_BUCKETS.sale \cup CASH_BUCKETS.return \cup CASH_BUCKETS.deposit
           Out == CASH_BUCKETS.withdrawal
           A == CashIn(In, 0, MaxDay, c)
           B == CashIn(Out, 0, MaxDay, c)
           S == {i \in DOMAIN cash : cash[i].currency = c}
<1>1. cash \in Seq(CashRow) /\ Amounts \in [CashRow -> Int]
    BY WeightsTyped DEF TypeOK
<1>2. A \cap B = {}
    BY CategoriesFinite DEF CashIn
<1>3. \A i : i \in S <=> i \in DOMAIN cash /\ cash[i] \in A \cup B
    <2>1. \A i \in DOMAIN cash : /\ cash[i] \in CashRow /\ InPeriod(cash[i], 0, MaxDay)
                                 /\ cash[i].category \in CASH_CATEGORIES
        <3>1. \A i \in DOMAIN cash : cash[i] \in CashRow
            BY DEF TypeOK
        <3>2. \A m \in CashRow : m.category \in CASH_CATEGORIES
            BY DEF CashRow
        <3>3. QED
            BY <3>1, <3>2, EveryDay
    <2>2. CASH_CATEGORIES = In \cup Out
        BY CategoriesFinite
    <2>3. QED
        BY <2>1, <2>2 DEF CashIn
<1>4. /\ CashOf(In, 0, MaxDay, c) = Tally(cash, A, Amounts)
      /\ CashOf(Out, 0, MaxDay, c) = Tally(cash, B, Amounts)
    BY CashOfIs
<1>5. /\ cash_flow_report(0, MaxDay, c).income_total = CashOf(In, 0, MaxDay, c)
      /\ cash_flow_report(0, MaxDay, c).expense_total = CashOf(Out, 0, MaxDay, c)
    BY FlowTotals
<1>6. compute_balance(c) = SumBy(S, LAMBDA i : cash[i].amount)
    BY DEF compute_balance
<1> HIDE DEF In, Out, A, B, S
<1>7. Tally(cash, A \cup B, Amounts) = Tally(cash, A, Amounts) + Tally(cash, B, Amounts)
    BY <1>1, <1>2, TallyParts
<1>8. SumBy(S, LAMBDA i : cash[i].amount) = Tally(cash, A \cup B, Amounts)
    BY <1>3, SumOfCash
<1>9. QED
    BY <1>4, <1>5, <1>6, <1>7, <1>8

(* The revenue of a month is that of its days. *)
LEMMA MonthIsDays ==
    ASSUME TypeOK, NEW c
    PROVE  dashboard_metrics(c).month.revenue
           = SumFunctionOnSet([d \in Day |-> period_metrics(d, d, c).revenue], Day)
<1> DEFINE g == [d \in Day |-> sales_profit_report(d, d, c).revenue]
           P == RevenueRows(0, MaxDay, c)
           Q == [d \in Day |-> RevenueRows(d, d, c)]
           key == [i \in DOMAIN ledger |-> business_date_expr(ledger[i])]
<1>1. /\ ledger \in Seq(LedgerRow) /\ Worths \in [LedgerRow -> Int] /\ IsFiniteSet(Day)
      /\ \A i \in DOMAIN ledger : ledger[i] \in LedgerRow
    BY WeightsTyped, DaysFinite DEF TypeOK
<1>2. Grouped(ledger, P, Day, key, Q) /\ Totals(g, ledger, Day, Q, Worths)
    <2>1. \A i \in DOMAIN ledger : /\ business_date_expr(ledger[i]) \in Day
                                   /\ InPeriod(ledger[i], 0, MaxDay)
        BY EveryDay
    <2>2. \A d \in Day : d \in Int
        BY DEF Day
    <2>3. \A i \in DOMAIN ledger, d \in Day :
              InPeriod(ledger[i], d, d) <=> business_date_expr(ledger[i]) = d
        BY <2>1, <2>2 DEF InPeriod
    <2>4. Grouped(ledger, P, Day, key, Q)
        BY <1>1, <2>1, <2>3 DEF Grouped, Rows, RevenueRows
    <2>5. Totals(g, ledger, Day, Q, Worths)
        BY RevenueIs DEF Totals
    <2>6. QED
        BY <2>4, <2>5
<1>3. dashboard_metrics(c).month.revenue = Tally(ledger, P, Worths)
    BY RevenueIs DEF dashboard_metrics, period_metrics
<1>4. g = [d \in Day |-> period_metrics(d, d, c).revenue]
    BY DEF period_metrics
<1> HIDE DEF g, P, Q, key
<1>5. Tally(ledger, P, Worths) = SumFunctionOnSet(g, Day)
    BY <1>1, <1>2, TallySplit
<1>6. QED
    BY <1>3, <1>4, <1>5

LEMMA TilesDo ==
    ASSUME TypeOK, Linked(ledger) PROVE TilesAgree
<1>1. LET left(q) == SumBy(Sale, LAMBDA s : returnable_qty(s, q))
      IN  top_selling_products(0, MaxDay) = {<<q, left(q)>> : q \in {r \in Product : left(r) > 0}}
    <2> DEFINE left(q) == SumBy(Sale, LAMBDA s : returnable_qty(s, q))
               net(q) == -SumBy({i \in DOMAIN ledger : /\ ledger[i].type \in {"sale", "return"}
                                                       /\ ledger[i].product = q
                                                       /\ InPeriod(ledger[i], 0, MaxDay)},
                                LAMBDA i : ledger[i].qty)
    <2>1. \A q \in Product : net(q) = left(q)
        BY SoldIsLeft
    <2>2. top_selling_products(0, MaxDay) = {<<q, net(q)>> : q \in {r \in Product : net(r) > 0}}
        BY DEF top_selling_products
    <2> HIDE DEF left, net
    <2>3. top_selling_products(0, MaxDay) = {<<q, left(q)>> : q \in {r \in Product : left(r) > 0}}
        BY <2>1, <2>2
    <2>4. QED
        BY <2>3 DEF left
<1>2. \A p \in Period, c \in Currency :
          /\ cash_flow_report(p[1], p[2], c).expense_total = cash_expense_total(p[1], p[2], c)
          /\ period_metrics(p[1], p[2], c).profit = _metrics_context(p[1], p[2], c).net
    BY FlowTotals DEF cash_expense_total, period_metrics, _metrics_context
<1>3. \A c \in Currency :
          LET all == cash_flow_report(0, MaxDay, c)
          IN  /\ all.income_total + all.expense_total = compute_balance(c)
              /\ dashboard_metrics(c).month.revenue =
                    SumBy(Day, LAMBDA d : period_metrics(d, d, c).revenue)
    <2> SUFFICES ASSUME NEW c \in Currency
                 PROVE  /\ cash_flow_report(0, MaxDay, c).income_total
                           + cash_flow_report(0, MaxDay, c).expense_total = compute_balance(c)
                        /\ dashboard_metrics(c).month.revenue =
                              SumBy(Day, LAMBDA d : period_metrics(d, d, c).revenue)
        OBVIOUS
    <2>1. dashboard_metrics(c).month.revenue
          = SumBy(Day, LAMBDA d : period_metrics(d, d, c).revenue)
        BY MonthIsDays DEF SumBy
    <2>2. QED
        BY <2>1, FlowIsBalance
<1>4. QED
    BY <1>1, <1>2, <1>3 DEF TilesAgree

LEMMA HistoryDoes ==
    ASSUME TypeOK PROVE HistorySplits
<1>1. \A i \in DOMAIN ledger : ledger[i].day \in Day \cup {None}
    <2>1. \A r \in LedgerRow : r.day \in Day \cup {None}
        BY DEF LedgerRow, NoDay
    <2>2. QED
        BY <2>1 DEF TypeOK
<1>2. QED
    BY <1>1 DEF HistorySplits, history_view, is_backdated, SameDay

-----------------------------------------------------------------------------
(* What the lists hold *)

(* Pages of a size hold every place from 1 to the total, each on one page. *)
OnPage(n, place) == n * LIST_PAGE_SIZE < place /\ place <= (n + 1) * LIST_PAGE_SIZE

LEMMA PageOf ==
    ASSUME NEW total \in Nat, NEW place \in 1..total,
           NEW pages, pages = PageCount(total)
    PROVE  /\ pages \in Nat /\ pages > 0
           /\ \E q \in 0..(pages - 1) : \A n \in 0..(pages - 1) : OnPage(n, place) <=> n = q
<1>1. PICK b \in Nat \ {0} : b = LIST_PAGE_SIZE
    BY MoneyBounds
<1>2. PICK a \in Nat : a = total + b - 1
    BY <1>1
<1>3. PICK m \in Nat : m = a \div b /\ m * b <= a /\ a < (m + 1) * b
    BY <1>1
<1>4. m >= 1
    <2>1. m = 0 => (m + 1) * b = b
        OBVIOUS
    <2>2. QED
        BY <1>1, <1>2, <1>3, <2>1
<1>5. pages = m
    BY <1>1, <1>2, <1>3, <1>4 DEF PageCount, Max
<1>6. PICK r \in Nat : r = place - 1
    OBVIOUS
<1>7. PICK q \in Nat : q * b <= r /\ r < (q + 1) * b
    <2>1. PICK q \in Nat : q = r \div b
        BY <1>6
    <2>2. q * b <= r /\ r < (q + 1) * b
        BY <2>1
    <2>3. QED
        BY <2>2
<1>8. \A i, j \in Nat : /\ i * b \in Nat /\ (i + 1) * b = i * b + b
                        /\ i * b < j * b => i < j
                        /\ i < j => (i + 1) * b <= j * b
    <2>1. \A i, j, k \in Nat : i * k < j * k => i < j
        OBVIOUS
    <2>2. \A i, j, k \in Nat : i < j => (i + 1) * k <= j * k
        OBVIOUS
    <2>3. \A i, k \in Nat : i * k \in Nat /\ (i + 1) * k = i * k + k
        OBVIOUS
    <2>4. QED
        BY <2>1, <2>2, <2>3
<1>9. q < m
    <2>1. q * b <= r /\ r < total /\ total + b - 1 < m * b + b /\ q * b \in Nat /\ m * b \in Nat
        BY <1>2, <1>3, <1>6, <1>7, <1>8
    <2>2. q * b < m * b
        BY <2>1
    <2>3. QED
        BY <1>8, <2>2
<1>10. ASSUME NEW n \in 0..(m - 1)
       PROVE  n * b < place /\ place <= (n + 1) * b <=> n = q
    <2>0. n \in Nat
        OBVIOUS
    <2>1. q * b < place /\ place <= (q + 1) * b
        BY <1>6, <1>7, <1>8
    <2>2. ASSUME n * b < place, place <= (n + 1) * b PROVE n = q
        <3>1. ~(n < q)
            <4>1. SUFFICES ASSUME n < q PROVE FALSE
                OBVIOUS
            <4>2. (n + 1) * b <= q * b /\ (n + 1) * b \in Nat /\ q * b \in Nat
                BY <1>8, <2>0, <4>1
            <4>3. QED
                BY <2>1, <2>2, <4>2
        <3>2. ~(q < n)
            <4>1. SUFFICES ASSUME q < n PROVE FALSE
                OBVIOUS
            <4>2. (q + 1) * b <= n * b /\ (q + 1) * b \in Nat /\ n * b \in Nat
                BY <1>8, <2>0, <4>1
            <4>3. QED
                BY <2>1, <2>2, <4>2
        <3>3. QED
            BY <2>0, <3>1, <3>2
    <2>3. QED
        BY <2>1, <2>2
<1>11. q \in 0..(m - 1)
    BY <1>9
<1>12. \A n \in 0..(m - 1) : OnPage(n, place) <=> n = q
    BY <1>1, <1>10 DEF OnPage
<1>13. QED
    BY <1>4, <1>5, <1>11, <1>12

(* The movements a filter lists, and the place of each, newest first.      *)
Filter(k) == IF k \in DOMAIN CASH_BUCKETS THEN CASH_BUCKETS[k] ELSE CASH_CATEGORIES
Listed(c, k) == {i \in DOMAIN cash : cash[i].currency = c /\ cash[i].category \in Filter(k)}
Place(c, k, i) == Cardinality({j \in Listed(c, k) : j >= i})
PagesOf(c, k) == cash_history_view(c, k, 0).pages

LEMMA PlaceTyped ==
    ASSUME TypeOK, NEW c, NEW k, NEW i \in Listed(c, k)
    PROVE  /\ IsFiniteSet(Listed(c, k)) /\ Cardinality(Listed(c, k)) \in Nat
           /\ Place(c, k, i) \in 1..Cardinality(Listed(c, k))
<1>1. cash \in Seq(CashRow)
    BY DEF TypeOK
<1>2. IsFiniteSet(DOMAIN cash) /\ DOMAIN cash \subseteq Nat
    <2>1. DOMAIN cash = 1..Len(cash)
        BY <1>1
    <2>2. IsFiniteSet(DOMAIN cash)
        BY <1>1, RowsTyped, WeightsTyped
    <2>3. QED
        BY <2>1, <2>2
<1> DEFINE S == Listed(c, k)
           T == {j \in S : j >= i}
<1>3. S \subseteq DOMAIN cash /\ T \subseteq S /\ i \in T
    BY <1>2 DEF Listed
<1> HIDE DEF S, T
<1>4. IsFiniteSet(S) /\ IsFiniteSet(T)
    BY <1>2, <1>3, FS_Subset
<1>5. Cardinality(S) \in Nat /\ Cardinality(T) \in Nat /\ Cardinality(T) <= Cardinality(S)
    BY <1>3, <1>4, FS_CardinalityType, FS_Subset
<1>6. Cardinality(T) # 0
    BY <1>3, <1>4, FS_EmptySet
<1>7. QED
    BY <1>4, <1>5, <1>6 DEF S, T, Place

(* A page that exists shows the places that are its own. *)
LEMMA PageShows ==
    ASSUME TypeOK, NEW c, NEW k, NEW n \in 0..(PagesOf(c, k) - 1)
    PROVE  /\ PagesOf(c, k) = PageCount(Cardinality(Listed(c, k)))
           /\ \A i : i \in cash_history_view(c, k, n).rows <=>
                 i \in Listed(c, k) /\ OnPage(n, Place(c, k, i))
<1> DEFINE all == Listed(c, k)
           pages == PageCount(Cardinality(all))
           at == Max({0, Min({n, pages - 1})})
           rows == {i \in all : /\ at * LIST_PAGE_SIZE < Place(c, k, i)
                                /\ Place(c, k, i) <= (at + 1) * LIST_PAGE_SIZE}
<1>1. PagesOf(c, k) = pages
    BY DEF PagesOf, cash_history_view, Listed, Filter
<1>2. cash_history_view(c, k, n).rows = rows
    BY DEF cash_history_view, Listed, Filter, Place
<1>3. ASSUME NEW i \in all PROVE at = n
    <2>1. Cardinality(all) \in Nat /\ Place(c, k, i) \in 1..Cardinality(all)
        BY <1>3, PlaceTyped
    <2>2. pages \in Nat
        BY <2>1, PageOf
    <2>3. n \in Nat /\ n <= pages - 1 /\ pages - 1 \in Int
        BY <1>1, <2>2
    <2> HIDE DEF pages, all
    <2>4. Min({n, pages - 1}) = n
        BY <2>3 DEF Min
    <2>5. Max({0, n}) = n
        BY <2>3 DEF Max
    <2>6. QED
        BY <2>4, <2>5
<1> HIDE DEF at
<1>4. QED
    BY <1>1, <1>2, <1>3 DEF OnPage

LEMMA PagesTyped ==
    ASSUME NEW total \in Nat PROVE PageCount(total) \in Nat
<1>1. PICK b \in Nat \ {0} : b = LIST_PAGE_SIZE
    BY MoneyBounds
<1>2. PICK a \in Nat : a = total + b - 1
    BY <1>1
<1>3. PICK m \in Nat : m = a \div b
    BY <1>1
<1>4. Max({1, m}) \in Nat
    BY DEF Max
<1>5. QED
    BY <1>1, <1>2, <1>3, <1>4 DEF PageCount

(* Each movement of a filter is on one of its pages. *)
LEMMA OnOnePage ==
    ASSUME TypeOK, NEW c, NEW k
    PROVE  LET Pages == 0..(PagesOf(c, k) - 1)
           IN  /\ IsFiniteSet(Pages) /\ IsFiniteSet(Listed(c, k))
               /\ \A i \in Listed(c, k) : \E q \in Pages : \A n \in Pages :
                     i \in cash_history_view(c, k, n).rows <=> n = q
               /\ \A n \in Pages : cash_history_view(c, k, n).rows \subseteq Listed(c, k)
<1> DEFINE Pages == 0..(PagesOf(c, k) - 1)
<1>1. IsFiniteSet(Listed(c, k))
    <2>1. cash \in Seq(CashRow)
        BY DEF TypeOK
    <2>2. IsFiniteSet(DOMAIN cash)
        BY <2>1, RowsTyped, WeightsTyped
    <2>3. QED
        BY <2>2, FS_Subset DEF Listed
<1>2. Cardinality(Listed(c, k)) \in Nat
    BY <1>1, FS_CardinalityType
<1>3. PagesOf(c, k) = PageCount(Cardinality(Listed(c, k)))
    BY DEF PagesOf, cash_history_view, Listed, Filter
<1>4. IsFiniteSet(Pages)
    <2>1. PagesOf(c, k) \in Nat
        BY <1>2, <1>3, PagesTyped
    <2>2. 0 \in Int /\ PagesOf(c, k) - 1 \in Int
        BY <2>1
    <2>3. QED
        BY <2>2, FS_Interval
<1>5. ASSUME NEW i \in Listed(c, k)
      PROVE  \E q \in Pages : \A n \in Pages : i \in cash_history_view(c, k, n).rows <=> n = q
    <2>1. Place(c, k, i) \in 1..Cardinality(Listed(c, k))
        BY PlaceTyped
    <2>2. PICK x, m, p : x = Cardinality(Listed(c, k)) /\ m = PagesOf(c, k) /\ p = Place(c, k, i)
        OBVIOUS
    <2>3. x \in Nat /\ p \in 1..x /\ m = PageCount(x)
        BY <1>2, <1>3, <2>1, <2>2
    <2>4. \E q \in 0..(m - 1) : \A n \in 0..(m - 1) : OnPage(n, p) <=> n = q
        BY <2>3, PageOf
    <2>5. \A n \in 0..(m - 1) : i \in cash_history_view(c, k, n).rows <=> OnPage(n, p)
        BY <2>2, PageShows
    <2>6. QED
        BY <2>2, <2>4, <2>5
<1>6. \A n \in Pages : cash_history_view(c, k, n).rows \subseteq Listed(c, k)
    BY PageShows
<1>7. QED
    BY <1>1, <1>4, <1>5, <1>6

LEMMA PagedOnce ==
    ASSUME TypeOK, NEW c, NEW k, NEW i \in Listed(c, k)
    PROVE  Cardinality({n \in 0..(PagesOf(c, k) - 1) : i \in cash_history_view(c, k, n).rows}) = 1
<1> DEFINE Pages == 0..(PagesOf(c, k) - 1)
<1>1. PICK q \in Pages : \A n \in Pages : i \in cash_history_view(c, k, n).rows <=> n = q
    BY OnOnePage
<1>2. {n \in Pages : i \in cash_history_view(c, k, n).rows} = {q}
    BY <1>1
<1>3. QED
    BY <1>2, FS_Singleton

(* So its pages add up to what it lists. *)
FilterMoves(c, k) == {m \in CashRow : m.currency = c /\ m.category \in Filter(k)}
Shown(c, k) == SumBy(0..(PagesOf(c, k) - 1), LAMBDA n :
                        SumBy(cash_history_view(c, k, n).rows, LAMBDA i : cash[i].amount))

LEMMA ShownIs ==
    ASSUME TypeOK, NEW c, NEW k
    PROVE  Shown(c, k) = Tally(cash, FilterMoves(c, k), Amounts)
<1> DEFINE K == 0..(PagesOf(c, k) - 1)
           S == Listed(c, k)
           rows == [n \in K |-> cash_history_view(c, k, n).rows]
           f == [i \in S |-> cash[i].amount]
           g == [n \in K |-> SumBy(rows[n], LAMBDA i : cash[i].amount)]
           key == [i \in S |-> CHOOSE q \in K : \A n \in K : i \in rows[n] <=> n = q]
<1>1. IsFiniteSet(K) /\ IsFiniteSet(S)
    BY OnOnePage
<1>2. \A i \in S : \E q \in K : \A n \in K : i \in rows[n] <=> n = q
    BY OnOnePage
<1>3. \A n \in K : rows[n] \subseteq S
    BY OnOnePage
<1>4. \A i \in S : key[i] \in K /\ \A n \in K : i \in rows[n] <=> n = key[i]
    <2> HIDE DEF K, S, rows
    <2>1. QED
        BY <1>2
<1>5. Ints(f, S)
    <2>1. \A i \in DOMAIN cash : cash[i] \in CashRow
        BY DEF TypeOK
    <2>2. \A m \in CashRow : m.amount \in Int
        BY DEF CashRow
    <2>3. \A i \in S : cash[i].amount \in Int
        BY <2>1, <2>2 DEF Listed
    <2>4. QED
        BY <2>3 DEF Ints
<1>6. ASSUME NEW n \in K PROVE g[n] = SumFunctionOnSet(f, rows[n])
    <2> DEFINE h == [i \in rows[n] |-> cash[i].amount]
    <2>1. g[n] = SumFunctionOnSet(h, rows[n])
        BY DEF SumBy
    <2>2. \A i \in rows[n] : f[i] = h[i] /\ i \in S
        BY <1>3
    <2>3. rows[n] \subseteq S
        BY <1>3
    <2> HIDE DEF f, g, h, rows, S
    <2>4. IsFiniteSet(rows[n]) /\ Ints(f, rows[n])
        BY <1>1, <1>5, <2>2, <2>3, FS_Subset DEF Ints
    <2>5. QED
        BY <2>1, <2>2, <2>4, SumSame
<1>7. Shown(c, k) = SumFunctionOnSet(g, K)
    BY DEF Shown, SumBy
<1>8. key \in [S -> K]
    <2> HIDE DEF K, S, rows
    <2>1. QED
        BY <1>4
<1>9. \A n \in K : \A i : i \in rows[n] <=> i \in S /\ key[i] = n
    <2> HIDE DEF K, S, rows, key
    <2>1. QED
        BY <1>3, <1>4
<1>10. \A i : i \in S <=> i \in DOMAIN cash /\ cash[i] \in FilterMoves(c, k)
    <2>1. \A i \in DOMAIN cash : cash[i] \in CashRow
        BY DEF TypeOK
    <2>2. QED
        BY <2>1 DEF Listed, FilterMoves
<1>11. SumBy(S, LAMBDA i : cash[i].amount) = SumFunctionOnSet(f, S)
    BY DEF SumBy
<1> HIDE DEF K, S, rows, f, g, key
<1>12. SumFunctionOnSet(f, S) = SumFunctionOnSet(g, K)
    BY <1>1, <1>5, <1>6, <1>8, <1>9, SumSplit
<1>13. SumBy(S, LAMBDA i : cash[i].amount) = Tally(cash, FilterMoves(c, k), Amounts)
    BY <1>10, SumOfCash
<1>14. QED
    BY <1>7, <1>11, <1>12, <1>13

LEMMA NoFilter == Filter("") = CASH_CATEGORIES
BY DEF Filter, CASH_BUCKETS

(* The filters share the movements out among them. *)
LEMMA FiltersSplit ==
    ASSUME TypeOK, NEW c
    PROVE  /\ Shown(c, "") = compute_balance(c)
           /\ SumBy(DOMAIN CASH_BUCKETS, LAMBDA k : Shown(c, k)) = compute_balance(c)
<1> DEFINE K == DOMAIN CASH_BUCKETS
           P == FilterMoves(c, "")
           Q == [k \in K |-> FilterMoves(c, k)]
           g == [k \in K |-> Shown(c, k)]
           key == [i \in DOMAIN cash |-> CHOOSE k \in K : cash[i].category \in CASH_BUCKETS[k]]
<1>1. cash \in Seq(CashRow) /\ Amounts \in [CashRow -> Int]
      /\ \A i \in DOMAIN cash : cash[i] \in CashRow /\ cash[i].category \in CASH_CATEGORIES
    <2>1. \A m \in CashRow : m.category \in CASH_CATEGORIES
        BY DEF CashRow
    <2>2. QED
        BY <2>1, WeightsTyped DEF TypeOK
<1>2. P = MovesIn(c)
    BY NoFilter DEF FilterMoves, MovesIn, CashRow
<1>3. compute_balance(c) = Tally(cash, P, Amounts)
    BY <1>1, <1>2, BalanceTyped
<1>4. K = {"sale", "return", "withdrawal", "deposit"} /\ IsFiniteSet(K)
    <2>1. K = {"sale", "return", "withdrawal", "deposit"}
        BY DEF CASH_BUCKETS
    <2>2. \A S, x : IsFiniteSet(S) => IsFiniteSet(S \cup {x})
        BY FS_AddElement
    <2>3. IsFiniteSet(((({} \cup {"sale"}) \cup {"return"}) \cup {"withdrawal"}) \cup {"deposit"})
        BY <2>2, FS_EmptySet, Zenon
    <2>4. {"sale", "return", "withdrawal", "deposit"}
          = ((({} \cup {"sale"}) \cup {"return"}) \cup {"withdrawal"}) \cup {"deposit"}
        OBVIOUS
    <2>5. QED
        BY <2>1, <2>3, <2>4
<1>5. \A x \in CASH_CATEGORIES : \E k \in K : x \in CASH_BUCKETS[k]
    BY <1>4 DEF CASH_CATEGORIES
<1>6. \A j, k \in K : \A x : x \in CASH_BUCKETS[j] /\ x \in CASH_BUCKETS[k] => j = k
    BY <1>4 DEF CASH_BUCKETS
<1>7. \A i \in DOMAIN cash : key[i] \in K /\ cash[i].category \in CASH_BUCKETS[key[i]]
    <2> HIDE DEF K
    <2>1. QED
        BY <1>1, <1>5
<1>8. \A k \in K : Filter(k) = CASH_BUCKETS[k]
    BY DEF Filter
<1>9. Grouped(cash, P, K, key, Q)
    <2>1. \A i \in Rows(cash, P) : i \in DOMAIN cash /\ key[i] \in K
        BY <1>7 DEF Rows
    <2>2. ASSUME NEW k \in K, NEW i \in DOMAIN cash
          PROVE  cash[i] \in Q[k] <=> cash[i] \in P /\ key[i] = k
        <3>1. cash[i] \in Q[k] <=> cash[i].currency = c /\ cash[i].category \in CASH_BUCKETS[k]
            BY <1>1, <1>8 DEF FilterMoves
        <3>2. cash[i] \in P <=> cash[i].currency = c
            BY <1>1, <1>2 DEF MovesIn
        <3>3. cash[i].category \in CASH_BUCKETS[k] <=> key[i] = k
            <4> HIDE DEF K, key
            <4>1. QED
                BY <1>6, <1>7
        <3> HIDE DEF K, P, Q, key
        <3>4. QED
            BY <3>1, <3>2, <3>3
    <2> HIDE DEF K, P, Q, key
    <2>3. QED
        BY <2>1, <2>2 DEF Grouped, Rows
<1>10. Totals(g, cash, K, Q, Amounts)
    BY ShownIs DEF Totals
<1>11. SumBy(DOMAIN CASH_BUCKETS, LAMBDA k : Shown(c, k)) = SumFunctionOnSet(g, K)
    BY DEF SumBy
<1>12. Shown(c, "") = Tally(cash, P, Amounts)
    BY ShownIs
<1> HIDE DEF K, P, Q, key, g
<1>13. Tally(cash, P, Amounts) = SumFunctionOnSet(g, K)
    BY <1>1, <1>4, <1>9, <1>10, TallySplit
<1>14. QED
    BY <1>3, <1>11, <1>12, <1>13

(* The file of a period holds what its flow report sums. *)
LEMMA FileIsFlow ==
    ASSUME TypeOK, NEW p \in Period, NEW c
    PROVE  LET flow == finance_report_page(p[1], p[2], c)
               file == stream_cash_movements_csv(p[1], p[2])
           IN  flow.income_total + flow.expense_total =
                 SumBy({i \in file : cash[i].currency = c}, LAMBDA i : cash[i].amount)
<1>1. PICK a, z : a = p[1] /\ z = p[2]
    OBVIOUS
<1>2. a \in Int /\ z \in Int /\ a <= z /\ a # None /\ z # None
    BY <1>1, MoneyBounds, NoneApart DEF Period
<1>3. _resolve_period(a, z) = [from |-> a, to |-> z, error |-> FALSE]
    BY <1>2 DEF _resolve_period
<1>4. /\ finance_report_page(a, z, c) = cash_flow_report(a, z, c)
      /\ stream_cash_movements_csv(a, z) = {i \in DOMAIN cash : InPeriod(cash[i], a, z)}
    BY <1>3 DEF finance_report_page, stream_cash_movements_csv
<1> DEFINE In == CASH_BUCKETS.sale \cup CASH_BUCKETS.return \cup CASH_BUCKETS.deposit
           Out == CASH_BUCKETS.withdrawal
           A == CashIn(In, a, z, c)
           B == CashIn(Out, a, z, c)
           S == {i \in stream_cash_movements_csv(a, z) : cash[i].currency = c}
<1>5. cash \in Seq(CashRow) /\ Amounts \in [CashRow -> Int]
    BY WeightsTyped DEF TypeOK
<1>6. A \cap B = {}
    BY CategoriesFinite DEF CashIn
<1>7. \A i : i \in S <=> i \in DOMAIN cash /\ cash[i] \in A \cup B
    <2>1. \A i \in DOMAIN cash : cash[i] \in CashRow /\ cash[i].category \in CASH_CATEGORIES
        <3>1. \A i \in DOMAIN cash : cash[i] \in CashRow
            BY DEF TypeOK
        <3>2. \A m \in CashRow : m.category \in CASH_CATEGORIES
            BY DEF CashRow
        <3>3. QED
            BY <3>1, <3>2
    <2>2. CASH_CATEGORIES = In \cup Out
        BY CategoriesFinite
    <2>3. QED
        BY <1>4, <2>1, <2>2 DEF CashIn
<1>8. /\ CashOf(In, a, z, c) = Tally(cash, A, Amounts)
      /\ CashOf(Out, a, z, c) = Tally(cash, B, Amounts)
    BY CashOfIs
<1>9. /\ cash_flow_report(a, z, c).income_total = CashOf(In, a, z, c)
      /\ cash_flow_report(a, z, c).expense_total = CashOf(Out, a, z, c)
    BY FlowTotals
<1> HIDE DEF In, Out, A, B, S
<1>10. Tally(cash, A \cup B, Amounts) = Tally(cash, A, Amounts) + Tally(cash, B, Amounts)
    BY <1>5, <1>6, TallyParts
<1>11. SumBy(S, LAMBDA i : cash[i].amount) = Tally(cash, A \cup B, Amounts)
    BY <1>7, SumOfCash
<1>12. cash_flow_report(a, z, c).income_total + cash_flow_report(a, z, c).expense_total
       = SumBy(S, LAMBDA i : cash[i].amount)
    BY <1>8, <1>9, <1>10, <1>11
<1>13. QED
    BY <1>1, <1>4, <1>12 DEF S

LEMMA ListsDo ==
    ASSUME TypeOK PROVE ListsAgree
<1>1. \A p \in Period, c \in Currency :
          LET flow == finance_report_page(p[1], p[2], c)
              file == stream_cash_movements_csv(p[1], p[2])
          IN  flow.income_total + flow.expense_total =
                SumBy({i \in file : cash[i].currency = c}, LAMBDA i : cash[i].amount)
    BY FileIsFlow
<1>2. ASSUME NEW c \in Currency
      PROVE  LET view(k, n) == cash_history_view(c, k, n)
                 Pages(k)   == 0..(view(k, 0).pages - 1)
                 shown(k)   == SumBy(Pages(k), LAMBDA n :
                                        SumBy(view(k, n).rows, LAMBDA i : cash[i].amount))
             IN  /\ shown("") = compute_balance(c)
                 /\ SumBy(DOMAIN CASH_BUCKETS, shown) = compute_balance(c)
                 /\ \A i \in DOMAIN cash : cash[i].currency = c =>
                       Cardinality({n \in Pages("") : i \in view("", n).rows}) = 1
    <2> DEFINE Pages == 0..(PagesOf(c, "") - 1)
    <2>1. ASSUME NEW i \in DOMAIN cash, cash[i].currency = c
          PROVE  Cardinality({n \in Pages : i \in cash_history_view(c, "", n).rows}) = 1
        <3>1. i \in Listed(c, "")
            <4>1. cash[i] \in CashRow
                BY DEF TypeOK
            <4>2. cash[i].category \in CASH_CATEGORIES
                BY <4>1 DEF CashRow
            <4>3. QED
                BY <2>1, <4>2, NoFilter DEF Listed
        <3>2. QED
            BY <3>1, PagedOnce
    <2>2. Shown(c, "") = compute_balance(c)
          /\ SumBy(DOMAIN CASH_BUCKETS, LAMBDA k : Shown(c, k)) = compute_balance(c)
        BY FiltersSplit
    <2>3. QED
        BY <2>1, <2>2 DEF Shown, PagesOf, SumBy
<1>3. QED
    BY <1>1, <1>2 DEF ListsAgree

(* ReportsAgree, for every catalogue, basket and number of requests: the   *)
(* sales report of any period says what the cash took for sales and        *)
(* returns (services/reports.py against services/finance.py), the tiles,   *)
(* the flow report, the balance, the file of services/export.py and the    *)
(* pages of the cash history add up to each other, and the filter of the   *)
(* history splits it.  The rows stored before were booked by the code.     *)
THEOREM ReportsAgreeAlways ==
    ASSUME OldBooksAgree
    PROVE  Spec => []ReportsAgree
<1>1. IInv => ReportsAgree
    BY RevenueAgrees, TilesDo, ListsDo, HistoryDoes DEF IInv, Base, Books, ReportsAgree
<1>2. QED
    BY <1>1, BooksAgree, PTL

-----------------------------------------------------------------------------
(* The cash below zero *)

LEMMA NothingTaken ==
    ASSUME NEW l \in Seq(CashRow), NEW P, \A i \in DOMAIN l : l[i].amount >= 0
    PROVE  Tally(l, P, Amounts) >= 0
<1> DEFINE S == Rows(l, P)
           f == Weights(l, Amounts)
<1>1. Amounts \in [CashRow -> Int]
    BY WeightsTyped
<1>2. IsFiniteSet(S) /\ Ints(f, S)
    BY <1>1, RowsTyped
<1>3. \A i \in DOMAIN l : l[i] \in CashRow
    OBVIOUS
<1>4. \A i \in S : f[i] >= 0
    BY <1>3, WeightsTyped DEF Rows, Weights
<1> HIDE DEF S, f
<1>5. SumFunctionOnSet(f, S) >= 0
    BY <1>2, <1>4, SumNotNegative
<1>6. QED
    BY <1>5 DEF S, f, Tally

(* A commit that takes a currency below zero is a refund, or was confirmed,*)
(* or was planned when there was more.                                     *)
LEMMA CommitOverdraws ==
    ASSUME Base, NEW t \in Thread, Commit(t), NEW c \in Currency,
           compute_balance(c) >= 0, compute_balance(c)' < 0
    PROVE  \/ request[t].kind = "return" \/ request[t].confirm
           \/ compute_balance(c) < request[t].seen
<1>1. PICK utc, to, rows, moves : Written(t, rows, moves, utc, to)
    BY CommitWrites
<1>2. /\ cash \in Seq(CashRow) /\ moves \in Seq(CashRow) /\ Joined(cash', cash, moves)
      /\ cash' \in Seq(CashRow)
    <2>1. cash \in Seq(CashRow) /\ moves \in Seq(CashRow) /\ cash' = cash \o moves
        BY <1>1 DEF Base, TypeOK, Written
    <2>2. cash' \in Seq(CashRow)
        BY <2>1, Appended
    <2>3. QED
        BY <2>1, <2>2 DEF Joined
<1>3. /\ compute_balance(c) = Tally(cash, MovesIn(c), Amounts)
      /\ compute_balance(c) \in Int
    BY <1>2, BalanceTyped
<1>4. compute_balance(c)' = Tally(cash', MovesIn(c), Amounts)
    BY <1>2, BalanceIs DEF compute_balance, SumBy
<1>5. Tally(cash', MovesIn(c), Amounts)
      = Tally(cash, MovesIn(c), Amounts) + Tally(moves, MovesIn(c), Amounts)
    BY <1>2, CashJoined
<1>6. Tally(moves, MovesIn(c), Amounts) \in Int
    BY <1>2, BalanceIs
<1>7. Tally(moves, MovesIn(c), Amounts) < 0
    BY <1>3, <1>4, <1>5, <1>6
<1>8. /\ DOMAIN moves = DOMAIN request[t].moves /\ request[t].moves \in Seq(CashRow)
      /\ \A i \in DOMAIN moves : moves[i].amount = request[t].moves[i].amount
    BY <1>1 DEF Written, BookedMove
<1>9. ~(\A i \in DOMAIN moves : moves[i].amount >= 0)
    <2>1. SUFFICES ASSUME \A i \in DOMAIN moves : moves[i].amount >= 0 PROVE FALSE
        OBVIOUS
    <2>2. Tally(moves, MovesIn(c), Amounts) >= 0
        BY <1>2, <2>1, NothingTaken
    <2>3. QED
        BY <1>6, <1>7, <2>2
<1>10. PlanCovered(request[t])
       /\ request[t].kind \in {"none", "sale", "return", "receipt", "transfer", "manual"}
    BY DEF Base, Plans, GoodPlan, PlanTyped
<1>11. request[t].kind \in {"return", "manual"}
    <2>1. request[t].moves # <<>>
        BY <1>8, <1>9
    <2>2. request[t].kind # "sale"
        BY <1>8, <1>9, <1>10 DEF PlanCovered
    <2>3. QED
        BY <1>10, <2>1, <2>2 DEF PlanCovered
<1>12. CASE request[t].kind = "manual"
    <2>1. /\ Len(request[t].moves) = 1 /\ request[t].seen \in Int
          /\ \/ request[t].confirm \/ request[t].moves[1].amount >= 0
             \/ request[t].seen + request[t].moves[1].amount >= 0
        BY <1>10, <1>12 DEF PlanCovered
    <2>2. DOMAIN moves = {1} /\ moves[1] \in CashRow /\ moves[1].amount = request[t].moves[1].amount
        <3>1. DOMAIN request[t].moves = 1..1
            BY <1>8, <2>1
        <3>2. QED
            BY <1>2, <1>8, <3>1
    <2>3. ~(moves[1].amount >= 0)
        BY <1>9, <2>2
    <2>4. Tally(moves, MovesIn(c), Amounts) = moves[1].amount /\ moves[1].amount \in Int
        <3>1. moves = <<moves[1]>>
            BY <1>2, <2>2
        <3>2. moves[1] \in MovesIn(c)
            <4>1. SUFFICES ASSUME moves[1] \notin MovesIn(c)
                           PROVE  Tally(moves, MovesIn(c), Amounts) = 0
                BY <1>7
            <4>2. QED
                BY <2>2, <4>1, TallyNone
        <3>3. Amounts \in [CashRow -> Int] /\ Amounts[moves[1]] = moves[1].amount
              /\ moves[1].amount \in Int
            BY <2>2, WeightsTyped DEF CashRow
        <3>4. PICK m : m = moves[1]
            OBVIOUS
        <3>5. Tally(<<m>>, MovesIn(c), Amounts) = Amounts[m]
            BY <2>2, <3>2, <3>3, <3>4, TallyOne
        <3>6. QED
            BY <3>1, <3>3, <3>4, <3>5
    <2>5. QED
        BY <1>3, <1>4, <1>5, <2>1, <2>2, <2>3, <2>4
<1>13. QED
    BY <1>11, <1>12

(* OverdrawnKnowingly, for every amount and any number of requests at a    *)
(* time: services/finance.py asks before the balance of a currency sinks   *)
(* below zero; only a refund, a confirmed movement, or a race with another *)
(* request takes it there.                                                 *)
THEOREM OverdrawnKnowinglyAlways == Spec => OverdrawnKnowingly
<1>1. ASSUME Base, [Next]_vars, cash' # cash, NEW c \in Currency,
             compute_balance(c) >= 0, compute_balance(c)' < 0
      PROVE  \E t \in Thread :
                /\ request[t] # NoRequest /\ request'[t] = NoRequest
                /\ \/ request[t].kind = "return" \/ request[t].confirm
                   \/ compute_balance(c) < request[t].seen
    <2>1. PICK t \in Thread : Commit(t)
        <3>1. ASSUME NEW t \in Thread, NEW new, Takes(t, new) PROVE FALSE
            BY <1>1, <3>1 DEF Takes, Plan
        <3>2. ASSUME NEW t \in Thread, Rollback(t) PROVE FALSE
            BY <1>1, <3>2 DEF Rollback
        <3>3. ~Change
            BY <1>1, ChangeKeeps
        <3>4. ~(Midnight \/ UNCHANGED vars)
            BY <1>1 DEF Midnight, vars
        <3>5. QED
            BY <1>1, <3>1, <3>2, <3>3, <3>4, StepKinds
    <2>2. \/ request[t].kind = "return" \/ request[t].confirm
          \/ compute_balance(c) < request[t].seen
        BY <1>1, <2>1, CommitOverdraws
    <2>3. request[t] # NoRequest /\ request'[t] = NoRequest
        <3>1. NoRequest.kind = "none" /\ request = [u \in Thread |-> request[u]]
            BY <1>1 DEF NoRequest, Base, Plans
        <3>2. QED
            BY <2>1, <3>1 DEF Commit
    <2>4. QED
        BY <2>2, <2>3
<1>2. Base /\ [Next]_vars =>
          [cash' # cash => \A c \in Currency :
              compute_balance(c) >= 0 /\ compute_balance(c)' < 0 =>
                  \E t \in Thread :
                      /\ request[t] # NoRequest /\ request'[t] = NoRequest
                      /\ \/ request[t].kind = "return" \/ request[t].confirm
                         \/ compute_balance(c) < request[t].seen]_vars
    BY <1>1
<1>3. QED
    BY <1>2, BaseAlways, PTL DEF Spec, OverdrawnKnowingly

-----------------------------------------------------------------------------
(* A day that is over *)

LEMMA CashGrows ==
    ASSUME Base, [Next]_vars
    PROVE  \A i \in DOMAIN cash : i \in DOMAIN cash' /\ cash'[i] = cash[i]
<1>1. ASSUME NEW t \in Thread, Commit(t)
      PROVE  \A i \in DOMAIN cash : i \in DOMAIN cash' /\ cash'[i] = cash[i]
    <2>1. PICK utc, to, rows, moves : Written(t, rows, moves, utc, to)
        BY <1>1, CommitWrites
    <2>2. QED
        BY <2>1, WrittenAppends DEF Base, TypeOK
<1>2. ASSUME ~(\E t \in Thread : Commit(t)) PROVE cash' = cash
    <2>1. ASSUME NEW t \in Thread, NEW new, Takes(t, new) PROVE cash' = cash
        BY <2>1 DEF Takes, Plan
    <2>2. ASSUME NEW t \in Thread, Rollback(t) PROVE cash' = cash
        BY <2>2 DEF Rollback
    <2>3. Change => cash' = cash
        BY ChangeKeeps
    <2>4. Midnight \/ UNCHANGED vars => cash' = cash
        BY DEF Midnight, vars
    <2>5. QED
        BY <1>2, <2>1, <2>2, <2>3, <2>4, StepKinds
<1>3. QED
    BY <1>1, <1>2

(* The figures of a set of rows. *)
Figures(l, rows) ==
    LET known == {i \in rows : l[i].cost # None}
        money(i) == -l[i].qty * Default(l[i].price, 0)
        spent(i) == -l[i].qty * l[i].cost
    IN  [revenue |-> SumBy(rows, money),
         returns |-> SumBy({i \in rows : l[i].type = "return"}, money),
         cost    |-> SumBy(known, spent),
         profit  |-> SumBy(known, money) - SumBy(known, spent),
         unknown |-> Cardinality({i \in rows \ known : l[i].type = "sale"})]

LEMMA SameFigures ==
    ASSUME NEW l, NEW m, NEW rows, \A i \in rows : l[i] = m[i]
    PROVE  Figures(l, rows) = Figures(m, rows)
<1> DEFINE money(x) == [i \in rows |-> -x[i].qty * Default(x[i].price, 0)]
<1>1. /\ {i \in rows : l[i].cost # None} = {i \in rows : m[i].cost # None}
      /\ {i \in rows : l[i].type = "return"} = {i \in rows : m[i].type = "return"}
    OBVIOUS
<1>2. PICK known, back : /\ known = {i \in rows : m[i].cost # None}
                         /\ back = {i \in rows : m[i].type = "return"}
    OBVIOUS
<1>3. {i \in rows \ known : l[i].type = "sale"} = {i \in rows \ known : m[i].type = "sale"}
    OBVIOUS
<1>4. ASSUME NEW T \in SUBSET rows
      PROVE  /\ [i \in T |-> -l[i].qty * Default(l[i].price, 0)]
                = [i \in T |-> -m[i].qty * Default(m[i].price, 0)]
             /\ [i \in T |-> -l[i].qty * l[i].cost] = [i \in T |-> -m[i].qty * m[i].cost]
    OBVIOUS
<1>5. rows \in SUBSET rows /\ known \in SUBSET rows /\ back \in SUBSET rows
    BY <1>2
<1>6. /\ SumBy(rows, LAMBDA i : -l[i].qty * Default(l[i].price, 0))
         = SumBy(rows, LAMBDA i : -m[i].qty * Default(m[i].price, 0))
      /\ SumBy(known, LAMBDA i : -l[i].qty * Default(l[i].price, 0))
         = SumBy(known, LAMBDA i : -m[i].qty * Default(m[i].price, 0))
      /\ SumBy(back, LAMBDA i : -l[i].qty * Default(l[i].price, 0))
         = SumBy(back, LAMBDA i : -m[i].qty * Default(m[i].price, 0))
      /\ SumBy(known, LAMBDA i : -l[i].qty * l[i].cost)
         = SumBy(known, LAMBDA i : -m[i].qty * m[i].cost)
    BY <1>4, <1>5 DEF SumBy
<1>7. QED
    BY <1>1, <1>2, <1>3, <1>6 DEF Figures, SumBy

LEMMA ReportIs ==
    ASSUME NEW a, NEW z, NEW c
    PROVE  sales_profit_report(a, z, c) = Figures(ledger, SalesRows(a, z, c))
BY DEF sales_profit_report, Figures, FrozenCost

(* Rows booked on other days are not in the figures of a day. *)
NotOn(d) == \A r \in NewRows(ledger, ledger') \cup NewRows(cash, cash') : business_date_expr(r) # d

LEMMA OtherDay ==
    ASSUME TypeOK', NEW d \in Day, NotOn(d)
    PROVE  /\ \A i \in DOMAIN ledger' : i \notin DOMAIN ledger => ~InPeriod(ledger'[i], d, d)
           /\ \A i \in DOMAIN cash' : i \notin DOMAIN cash => ~InPeriod(cash'[i], d, d)
<1>1. /\ \A i \in DOMAIN ledger' : i \notin DOMAIN ledger => business_date_expr(ledger'[i]) # d
      /\ \A i \in DOMAIN cash' : i \notin DOMAIN cash => business_date_expr(cash'[i]) # d
    BY DEF NotOn, NewRows
<1>2. \A i \in DOMAIN ledger' : business_date_expr(ledger'[i]) \in Day
    <2>1. \A i \in DOMAIN ledger' : ledger'[i] \in LedgerRow /\ Stored(ledger'[i])
        BY DEF TypeOK, Stored
    <2>2. \A r \in LedgerRow : r.day \in NoDay
        BY DEF LedgerRow
    <2>3. QED
        BY <2>1, <2>2 DEF Stored, business_date_expr, Default, NoDay
<1>3. \A i \in DOMAIN cash' : business_date_expr(cash'[i]) \in Day
    <2>1. \A i \in DOMAIN cash' : cash'[i] \in CashRow /\ Stored(cash'[i])
        BY DEF TypeOK, Stored
    <2>2. \A m \in CashRow : m.day \in NoDay
        BY DEF CashRow
    <2>3. QED
        BY <2>1, <2>2 DEF Stored, business_date_expr, Default, NoDay
<1>4. \A x \in Day : d <= x /\ x <= d => x = d
    BY DEF Day
<1>5. QED
    BY <1>1, <1>2, <1>3, <1>4 DEF InPeriod

LEMMA SalesOfDay ==
    ASSUME TypeOK, TypeOK', Grown, currency' = currency, NEW d \in Day, NEW c, NotOn(d)
    PROVE  sales_profit_report(d, d, c)' = sales_profit_report(d, d, c)
<1>1. \A i \in DOMAIN ledger : /\ i \in DOMAIN ledger' /\ ledger'[i] = ledger[i]
                               /\ operation_currency(ledger[i])' = operation_currency(ledger[i])
    BY DEF Grown, TypeOK, operation_currency
<1>2. SalesRows(d, d, c)' = {i \in DOMAIN ledger' :
          /\ ledger'[i].type \in {"sale", "return"} /\ InPeriod(ledger'[i], d, d)
          /\ operation_currency(ledger[i])' = c}
    BY DEF SalesRows, InPeriod, business_date_expr, operation_currency
<1>3. \A i \in DOMAIN ledger' : i \notin DOMAIN ledger => ~InPeriod(ledger'[i], d, d)
    BY OtherDay
<1>4. SalesRows(d, d, c)' = SalesRows(d, d, c)
    BY <1>1, <1>2, <1>3 DEF SalesRows
<1>5. PICK S : S = SalesRows(d, d, c)
    OBVIOUS
<1>6. Figures(ledger', S) = Figures(ledger, S)
    <2>1. \A i \in S : ledger'[i] = ledger[i]
        BY <1>1, <1>5 DEF SalesRows
    <2>2. QED
        BY <2>1, SameFigures
<1>7. sales_profit_report(d, d, c) = Figures(ledger, S)
    BY <1>5, ReportIs
<1>8. sales_profit_report(d, d, c)' = Figures(ledger', S)
    <2>1. sales_profit_report(d, d, c)' = Figures(ledger', SalesRows(d, d, c)')
        BY DEF sales_profit_report, Figures, FrozenCost, SumBy
    <2>2. QED
        BY <1>4, <1>5, <2>1
<1>9. QED
    BY <1>6, <1>7, <1>8

LEMMA CashOfDay ==
    ASSUME TypeOK, TypeOK', NEW d \in Day, NEW c, NotOn(d),
           \A i \in DOMAIN cash : i \in DOMAIN cash' /\ cash'[i] = cash[i]
    PROVE  cash_flow_report(d, d, c)' = cash_flow_report(d, d, c)
<1>1. \A i \in DOMAIN cash' : i \notin DOMAIN cash => ~InPeriod(cash'[i], d, d)
    BY OtherDay
<1>2. ASSUME NEW cats PROVE CashOf(cats, d, d, c)' = CashOf(cats, d, d, c)
    <2> DEFINE S == {i \in DOMAIN cash : /\ cash[i].category \in cats /\ cash[i].currency = c
                                         /\ InPeriod(cash[i], d, d)}
               T == {i \in DOMAIN cash' : /\ cash'[i].category \in cats /\ cash'[i].currency = c
                                          /\ InPeriod(cash'[i], d, d)}
    <2>1. S = T
        BY <1>1
    <2>2. [i \in S |-> cash[i].amount] = [i \in T |-> cash'[i].amount]
        BY <2>1
    <2>3. CashOf(cats, d, d, c) = SumFunctionOnSet([i \in S |-> cash[i].amount], S)
        BY DEF CashOf, SumBy
    <2>4. CashOf(cats, d, d, c)' = SumFunctionOnSet([i \in T |-> cash'[i].amount], T)
        BY DEF CashOf, SumBy, InPeriod, business_date_expr
    <2> HIDE DEF S, T
    <2>5. QED
        BY <2>1, <2>2, <2>3, <2>4
<1>3. Present(d, d, c)' = Present(d, d, c)
    <2> DEFINE S == {j \in DOMAIN cash : cash[j].currency = c /\ InPeriod(cash[j], d, d)}
               T == {j \in DOMAIN cash' : cash'[j].currency = c /\ InPeriod(cash'[j], d, d)}
    <2>1. S = T
        BY <1>1
    <2>2. {cash[i].category : i \in S} = {cash'[i].category : i \in T}
        BY <2>1
    <2>3. Present(d, d, c) = {cash[i].category : i \in S}
        BY DEF Present
    <2>4. Present(d, d, c)' = {cash'[i].category : i \in T}
        BY DEF Present, InPeriod, business_date_expr
    <2>5. QED
        BY <2>2, <2>3, <2>4
<1>4. ASSUME NEW cats PROVE Lines(cats, d, d, c)' = Lines(cats, d, d, c)
    BY <1>2, <1>3 DEF Lines
<1> DEFINE In == CASH_BUCKETS.sale \cup CASH_BUCKETS.return \cup CASH_BUCKETS.deposit
           Out == CASH_BUCKETS.withdrawal
           Flow(in, out) ==
               [income |-> in, income_total |-> SumFunctionOnSet([l \in in |-> l[2]], in),
                expense |-> out, expense_total |-> SumFunctionOnSet([l \in out |-> l[2]], out)]
<1>5. cash_flow_report(d, d, c) = Flow(Lines(In, d, d, c), Lines(Out, d, d, c))
    BY DEF cash_flow_report, Lines, Present, SumBy
<1>6. cash_flow_report(d, d, c)' = Flow(Lines(In, d, d, c)', Lines(Out, d, d, c)')
    BY DEF cash_flow_report, Lines, Present, SumBy
<1> HIDE DEF In, Out, Flow
<1>7. Lines(In, d, d, c)' = Lines(In, d, d, c) /\ Lines(Out, d, d, c)' = Lines(Out, d, d, c)
    BY <1>4
<1>8. QED
    BY <1>5, <1>6, <1>7

(* DayIsClosed, for every step whatever was edited: the reports of         *)
(* services/reports.py and services/finance.py for a day move only with    *)
(* rows booked on that day, because a row keeps its price, its cost and    *)
(* its day, and a batch stays in its warehouse.                            *)
THEOREM DayIsClosedAlways == Spec => DayIsClosed
<1>1. ASSUME Base, [Next]_vars, currency' = currency, NEW d \in Day, NEW c \in Currency, NotOn(d)
      PROVE  /\ sales_profit_report(d, d, c)' = sales_profit_report(d, d, c)
             /\ cash_flow_report(d, d, c)' = cash_flow_report(d, d, c)
    <2>1. TypeOK /\ TypeOK' /\ Grown
        BY <1>1, BaseNext DEF Base
    <2>2. \A i \in DOMAIN cash : i \in DOMAIN cash' /\ cash'[i] = cash[i]
        BY <1>1, CashGrows
    <2>3. QED
        BY <1>1, <2>1, <2>2, SalesOfDay, CashOfDay
<1>2. Base /\ [Next]_vars =>
          [<<ledger, cash, batches, card>>' # <<ledger, cash, batches, card>>
           /\ currency' = currency =>
           \A d \in 0..MaxDay, c \in Currency :
              (\A r \in NewRows(ledger, ledger') \cup NewRows(cash, cash') :
                    business_date_expr(r) # d)
              => /\ sales_profit_report(d, d, c)' = sales_profit_report(d, d, c)
                 /\ cash_flow_report(d, d, c)' = cash_flow_report(d, d, c)]_vars
    BY <1>1 DEF NotOn, Day
<1>3. QED
    BY <1>2, BaseAlways, PTL DEF Spec, DayIsClosed

-----------------------------------------------------------------------------
(* The value of the stock: the plans stay what they are worth *)

VInv == /\ Base /\ IsFiniteSet(DOMAIN batches)
        /\ \A t \in Thread : Valued(request[t])

(* Other steps leave the worth of a plan, until something is edited.       *)
Kept == /\ DOMAIN batches \subseteq DOMAIN batches'
        /\ \/ /\ edits' = edits /\ currency' = currency
              /\ \A b \in DOMAIN batches :
                    /\ batches'[b].product = batches[b].product
                    /\ batches'[b].warehouse = batches[b].warehouse
                    /\ batches'[b].cost = batches[b].cost
           \/ edits' = edits + 1

LEMMA ValuedKept ==
    ASSUME NEW p, Valued(p), Kept, edits \in Nat, p.edits \in Nat, p.edits <= edits
    PROVE  Valued(p)'
<1>1. p.edits = edits' => p.edits = edits /\ edits' = edits
    BY DEF Kept
<1>2. SaleValued(p) => SaleValued(p)'
    <2> SUFFICES ASSUME SaleValued(p), NEW i \in DOMAIN p.rows
                 PROVE  LET r == p.rows[i]
                            b == batches'[r.batch]
                        IN  /\ r.batch \in DOMAIN batches' /\ r.qty <= 0
                            /\ p.edits = edits' =>
                                  r.cost = Default(b.cost, p.card[b.product][currency'[b.warehouse]].cost)
        BY DEF SaleValued
    <2>1. LET r == p.rows[i]
              b == batches[r.batch]
          IN  /\ r.batch \in DOMAIN batches /\ r.qty <= 0
              /\ p.edits = edits =>
                    r.cost = Default(b.cost, p.card[b.product][currency[b.warehouse]].cost)
        BY DEF SaleValued
    <2>2. PICK x, y : x = p.rows[i].batch /\ y = batches[x].product
        OBVIOUS
    <2>3. p.edits = edits' =>
              /\ currency' = currency /\ batches'[x].product = y
              /\ batches'[x].warehouse = batches[x].warehouse /\ batches'[x].cost = batches[x].cost
        BY <1>1, <2>1, <2>2 DEF Kept
    <2>4. x \in DOMAIN batches'
        BY <2>1, <2>2 DEF Kept
    <2>5. p.edits = edits' =>
              p.rows[i].cost = Default(batches'[x].cost,
                                       p.card[batches'[x].product][currency'[batches'[x].warehouse]].cost)
        BY <1>1, <2>1, <2>2, <2>3
    <2>6. QED
        BY <2>1, <2>2, <2>4, <2>5
<1>3. ReceiptValued(p) => ReceiptValued(p)'
    BY DEF ReceiptValued
<1>4. TransferValued(p) => TransferValued(p)'
    BY <1>1 DEF TransferValued, Kept
<1>5. QED
    BY <1>2, <1>3, <1>4 DEF Valued

LEMMA NextKeeps ==
    ASSUME VInv, [Next]_vars
    PROVE  /\ Kept /\ IsFiniteSet(DOMAIN batches')
           /\ \A u \in Thread : request'[u] \in {request[u], NoRequest} \/ Valued(request[u])'
<1>0. Base /\ TypeOK /\ IsFiniteSet(DOMAIN batches)
    BY DEF VInv, Base
<1>1. ASSUME NEW t \in Thread, NEW new, Takes(t, new)
      PROVE  /\ Kept /\ IsFiniteSet(DOMAIN batches')
             /\ \A u \in Thread : request'[u] = request[u] \/ Valued(request[u])'
    <2>1. UNCHANGED <<batches, currency, edits>> /\ Valued(new)
        BY <1>1 DEF Takes
    <2>2. Valued(new)'
        BY <2>1 DEF Valued, SaleValued, ReceiptValued, TransferValued
    <2>3. \A u \in Thread : request'[u] = request[u] \/ request'[u] = new
        BY <1>0, <1>1 DEF Takes, Base, Plans
    <2>4. ASSUME NEW u \in Thread, request'[u] = new PROVE Valued(request[u])'
        BY <2>2, <2>4 DEF Valued, SaleValued, ReceiptValued, TransferValued
    <2>5. QED
        BY <1>0, <2>1, <2>3, <2>4 DEF Kept
<1>2. ASSUME NEW t \in Thread, Commit(t)
      PROVE  /\ Kept /\ IsFiniteSet(DOMAIN batches')
             /\ \A u \in Thread : request'[u] \in {request[u], NoRequest}
    <2>1. /\ DOMAIN batches' = DOMAIN batches \cup DOMAIN request[t].births
          /\ \A b \in DOMAIN batches : /\ batches'[b].product = batches[b].product
                                       /\ batches'[b].warehouse = batches[b].warehouse
                                       /\ batches'[b].cost = batches[b].cost
        BY <1>0, <1>2, CommitFits
    <2>2. IsFiniteSet(DOMAIN request[t].births)
        BY DEF VInv, Valued
    <2>3. currency' = currency /\ edits' = edits /\ request' = [request EXCEPT ![t] = NoRequest]
        BY <1>2 DEF Commit
    <2>4. IsFiniteSet(DOMAIN batches')
        BY <1>0, <2>1, <2>2, FS_Union
    <2>5. \A u \in Thread : request'[u] \in {request[u], NoRequest}
        BY <1>0, <2>3 DEF Base, Plans
    <2>6. QED
        BY <2>1, <2>3, <2>4, <2>5 DEF Kept
<1>3. ASSUME \/ \E t \in Thread : Rollback(t)
             \/ Midnight \/ UNCHANGED vars
      PROVE  /\ Kept /\ IsFiniteSet(DOMAIN batches')
             /\ \A u \in Thread : request'[u] \in {request[u], NoRequest}
    <2>1. UNCHANGED <<batches, currency, edits>>
        BY <1>3 DEF Rollback, Midnight, vars
    <2>2. (\E t \in Thread : request' = [request EXCEPT ![t] = NoRequest]) \/ request' = request
        BY <1>3 DEF Rollback, Midnight, vars
    <2>3. QED
        BY <1>0, <2>1, <2>2 DEF Kept, Base, Plans
<1>4. ASSUME Change
      PROVE  Kept /\ IsFiniteSet(DOMAIN batches') /\ request' = request
    BY <1>0, <1>4, ChangeKeeps DEF Kept, Grown
<1>5. QED
    BY <1>0, <1>1, <1>2, <1>3, <1>4, StepKinds

LEMMA VInvNext ==
    ASSUME VInv, [Next]_vars
    PROVE  VInv'
<1>1. Kept /\ IsFiniteSet(DOMAIN batches') /\ Base'
    BY NextKeeps, BaseNext DEF VInv
<1>2. ASSUME NEW u \in Thread PROVE Valued(request[u])'
    <2>1. CASE request'[u] = request[u]
        <3>1. PICK p : p = request[u]
            OBVIOUS
        <3>2. Valued(p) /\ p.edits \in Nat /\ p.edits <= edits /\ edits \in Nat
            BY <3>1, MoneyBounds DEF VInv, Base, TypeOK, Plans, GoodPlan, PlanTyped
        <3>3. Valued(p)'
            BY <1>1, <3>2, ValuedKept
        <3>4. p = request'[u]
            BY <2>1, <3>1
        <3>5. SaleValued(p)' => SaleValued(request[u])'
            BY <3>4 DEF SaleValued
        <3>6. ReceiptValued(p)' => ReceiptValued(request[u])'
            BY <3>4 DEF ReceiptValued
        <3>7. TransferValued(p)' => TransferValued(request[u])'
            BY <3>4 DEF TransferValued
        <3>8. QED
            BY <3>3, <3>4, <3>5, <3>6, <3>7 DEF Valued
    <2>2. CASE request'[u] = NoRequest
        <3>1. DOMAIN NoRequest.births = {} /\ NoRequest.kind = "none"
            BY DEF NoRequest, NoBirth
        <3>2. QED
            BY <2>2, <3>1, FS_EmptySet DEF Valued
    <2>3. QED
        BY <2>1, <2>2, NextKeeps
<1>3. QED
    BY <1>1, <1>2 DEF VInv

LEMMA VInvAlways == Spec => []VInv
<1>1. Init => VInv
    <2>1. DOMAIN NoRequest.births = {} /\ NoRequest.kind = "none"
        BY DEF NoRequest, NoBirth
    <2>2. Valued(NoRequest)
        BY <2>1, FS_EmptySet DEF Valued
    <2>3. QED
        BY <2>2, BaseInit, OldRows DEF Init, VInv
<1>2. VInv /\ [Next]_vars => VInv'
    BY VInvNext
<1>3. QED
    BY <1>1, <1>2, PTL DEF Spec

-----------------------------------------------------------------------------
(* The value of the stock: what a commit does to it *)

LEMMA TimesTyped ==
    \A x, y \in Int : x * y \in Int /\ x * y = y * x /\ 0 * y = 0 /\ x * 0 = 0 /\ (-1) * x = -x
OBVIOUS

LEMMA GainNotPositive ==
    ASSUME NEW l \in Seq(LedgerRow), NEW b, \A i \in DOMAIN l : l[i].batch = b => l[i].qty <= 0
    PROVE  Gain(l, b) <= 0
<1> DEFINE S == {i \in DOMAIN l : l[i].batch = b}
           f == [i \in S |-> l[i].qty]
           g == [i \in S |-> -l[i].qty]
<1>1. IsFiniteSet(DOMAIN l) /\ \A i \in DOMAIN l : l[i] \in LedgerRow
    BY RowsTyped, WeightsTyped, ElementOf
<1>2. IsFiniteSet(S)
    BY <1>1, FS_Subset
<1>3. \A i \in S : /\ f[i] \in Int /\ g[i] \in Int /\ g[i] >= 0 /\ g[i] = (-1) * f[i]
    BY <1>1, TimesTyped DEF LedgerRow
<1>4. Gain(l, b) = SumFunctionOnSet(f, S)
    BY DEF Gain, SumBy
<1> HIDE DEF S, f, g
<1>5. SumFunctionOnSet(g, S) >= 0
    BY <1>2, <1>3, SumNotNegative DEF Ints
<1>6. SumFunctionOnSet(g, S) = (-1) * SumFunctionOnSet(f, S)
    BY <1>2, <1>3, SumTimes DEF Ints
<1>7. Gain(l, b) \in Int
    BY GainTyped
<1>8. QED
    BY <1>4, <1>5, <1>6, <1>7, TimesTyped

(* The pieces that rows bring are worth what each row brings. *)
LEMMA GainsWorth ==
    ASSUME NEW l \in Seq(LedgerRow), NEW D, IsFiniteSet(D), NEW u \in [D -> Int],
           \A i \in DOMAIN l : l[i].batch \in D,
           NEW w, \A i \in DOMAIN l : w[i] = u[l[i].batch] * l[i].qty,
           NEW g, \A b \in D : g[b] = u[b] * Gain(l, b)
    PROVE  SumFunctionOnSet(w, DOMAIN l) = SumFunctionOnSet(g, D)
<1> DEFINE S == DOMAIN l
           key == [i \in S |-> l[i].batch]
           rows == [b \in D |-> {i \in S : l[i].batch = b}]
           q == [i \in S |-> l[i].qty]
<1>1. IsFiniteSet(S) /\ \A i \in S : l[i] \in LedgerRow /\ q[i] \in Int
    BY RowsTyped, WeightsTyped, ElementOf DEF LedgerRow
<1>2. \A i \in S : l[i].batch \in D /\ u[l[i].batch] \in Int /\ l[i].qty \in Int /\ w[i] = u[l[i].batch] * l[i].qty
    BY <1>1
<1>3. Ints(w, S)
    <2>1. ASSUME NEW i \in S PROVE w[i] \in Int
        <3>1. PICK x \in Int, y \in Int : w[i] = x * y
            BY <1>2
        <3>2. QED
            BY <3>1, TimesTyped
    <2>2. QED
        BY <2>1 DEF Ints
<1>4. key \in [S -> D] /\ \A b \in D : \A i : i \in rows[b] <=> i \in S /\ key[i] = b
    BY <1>2
<1>5. ASSUME NEW b \in D PROVE g[b] = SumFunctionOnSet(w, rows[b])
    <2> DEFINE T == rows[b]
               f == [i \in T |-> l[i].qty]
    <2>1. T \subseteq S /\ IsFiniteSet(T)
        BY <1>1, FS_Subset
    <2>2. Gain(l, b) = SumFunctionOnSet(f, T)
        BY DEF Gain, SumBy
    <2>3. \A i \in T : f[i] \in Int /\ w[i] = u[b] * f[i]
        BY <1>2
    <2>4. u[b] \in Int
        OBVIOUS
    <2> HIDE DEF T, f
    <2>5. SumFunctionOnSet(w, T) = u[b] * SumFunctionOnSet(f, T)
        BY <2>1, <2>3, <2>4, SumTimes DEF Ints
    <2>6. QED
        BY <2>2, <2>5 DEF T
<1>8. key \in [S -> D]
    BY <1>4
<1>9. \A b \in D : \A i : i \in rows[b] <=> i \in S /\ key[i] = b
    BY <1>4
<1>10. IsFiniteSet(S)
    BY <1>1
<1> HIDE DEF S, key, rows, q
<1>6. SumFunctionOnSet(w, S) = SumFunctionOnSet(g, D)
    BY <1>3, <1>5, <1>8, <1>9, <1>10, SumSplit
<1>7. QED
    BY <1>6 DEF S

(* What is not in the sum of the stock counts for nothing. *)
LEMMA StockSum ==
    ASSUME NEW D, IsFiniteSet(D), NEW f, Ints(f, D), NEW K \in SUBSET D,
           \A b \in D \ K : f[b] = 0, NEW g, \A b \in K : g[b] = f[b]
    PROVE  SumFunctionOnSet(g, K) = SumFunctionOnSet(f, D)
<1>1. IsFiniteSet(K) /\ Ints(f, K)
    BY FS_Subset DEF Ints
<1>2. SumFunctionOnSet(f, D) = SumFunctionOnSet(f, K)
    BY SumFilter
<1>3. SumFunctionOnSet(f, K) = SumFunctionOnSet(g, K)
    BY <1>1, SumSame
<1>4. QED
    BY <1>2, <1>3

(* The value of batches bs under the labels cur and the cards k. *)
CostOf(bs, k, b, c) == Default(bs[b].cost, k[bs[b].product][c].cost)
PieceOf(bs, cur, k, b, c) ==
    IF cur[bs[b].warehouse] = c /\ CostOf(bs, k, b, c) # None THEN CostOf(bs, k, b, c) ELSE 0
ValueOf(bs, cur, k, c) ==
    LET held == {b \in DOMAIN bs : bs[b].quantity > 0 /\ cur[bs[b].warehouse] = c}
        known == {b \in held : CostOf(bs, k, b, c) # None}
    IN  SumFunctionOnSet([b \in known |-> bs[b].quantity * CostOf(bs, k, b, c)], known)

Stocked(bs, cur, k) ==
    /\ IsFiniteSet(DOMAIN bs) /\ bs \in [DOMAIN bs -> BatchRow]
    /\ cur \in [Warehouse -> Currency]
    /\ k \in [Product -> [Currency -> [cost : Price, min : Price]]]

LEMMA PieceTyped ==
    ASSUME NEW bs, NEW cur, NEW k, Stocked(bs, cur, k), NEW c \in Currency, NEW b \in DOMAIN bs
    PROVE  PieceOf(bs, cur, k, b, c) \in Nat /\ bs[b].quantity \in Int
<1>1. bs[b] \in BatchRow
    BY DEF Stocked
<1>2. bs[b].product \in Product /\ bs[b].cost \in Price /\ bs[b].quantity \in Int
    BY <1>1 DEF BatchRow
<1>3. k[bs[b].product][c].cost \in Price
    BY <1>2 DEF Stocked
<1>4. CostOf(bs, k, b, c) \in Price
    BY <1>2, <1>3 DEF CostOf, Default
<1>5. QED
    BY <1>2, <1>4 DEF PieceOf, Price

(* Where no batch is below zero, every piece is in the value of the stock. *)
LEMMA ValuationIs ==
    ASSUME NEW bs, NEW cur, NEW k, Stocked(bs, cur, k), NEW c \in Currency,
           \A b \in DOMAIN bs : bs[b].quantity >= 0,
           NEW f, \A b \in DOMAIN bs : f[b] = bs[b].quantity * PieceOf(bs, cur, k, b, c)
    PROVE  ValueOf(bs, cur, k, c) = SumFunctionOnSet(f, DOMAIN bs)
<1> DEFINE D == DOMAIN bs
           held == {b \in D : bs[b].quantity > 0 /\ cur[bs[b].warehouse] = c}
           known == {b \in held : CostOf(bs, k, b, c) # None}
           g == [b \in known |-> bs[b].quantity * CostOf(bs, k, b, c)]
<1>1. ValueOf(bs, cur, k, c) = SumFunctionOnSet(g, known)
    BY DEF ValueOf
<1>2. \A b \in D : bs[b].quantity \in Int /\ PieceOf(bs, cur, k, b, c) \in Nat
    BY PieceTyped
<1>3. \A b \in known : g[b] = f[b]
    BY DEF PieceOf
<1>4. ASSUME NEW b \in D PROVE f[b] \in Int /\ (b \notin known => f[b] = 0)
    <2>1. PICK x \in Int, y \in Int : x = bs[b].quantity /\ y = PieceOf(bs, cur, k, b, c)
        BY <1>2
    <2>2. b \notin known => x = 0 \/ y = 0
        BY <2>1 DEF PieceOf
    <2>3. f[b] = x * y
        BY <2>1
    <2> HIDE DEF known
    <2>4. QED
        BY <2>2, <2>3, TimesTyped
<1>5. known \in SUBSET D /\ Ints(f, D) /\ IsFiniteSet(D)
    BY <1>4 DEF Ints, Stocked
<1>6. \A b \in D \ known : f[b] = 0
    BY <1>4
<1> HIDE DEF D, known, g
<1>7. SumFunctionOnSet(g, known) = SumFunctionOnSet(f, D)
    BY <1>3, <1>5, <1>6, StockSum
<1>8. QED
    BY <1>1, <1>7 DEF D

(* What rows add to the value: nothing below zero, the same cost before    *)
(* and after, and new batches that start empty.                            *)
LEMMA ValueGains ==
    ASSUME NEW bs, NEW ds, NEW cur, NEW k, Stocked(bs, cur, k), Stocked(ds, cur, k),
           DOMAIN bs \subseteq DOMAIN ds, NEW c \in Currency,
           \A b \in DOMAIN bs : bs[b].quantity >= 0, \A b \in DOMAIN ds : ds[b].quantity >= 0,
           NEW l \in Seq(LedgerRow), \A i \in DOMAIN l : l[i].batch \in DOMAIN ds,
           \A b \in DOMAIN bs : /\ ds[b].product = bs[b].product /\ ds[b].cost = bs[b].cost
                                 /\ ds[b].warehouse = bs[b].warehouse
                                 /\ ds[b].quantity = bs[b].quantity + Gain(l, b),
           \A b \in DOMAIN ds \ DOMAIN bs : ds[b].quantity = Gain(l, b),
           NEW w, \A i \in DOMAIN l : w[i] = PieceOf(ds, cur, k, l[i].batch, c) * l[i].qty
    PROVE  ValueOf(ds, cur, k, c) - ValueOf(bs, cur, k, c) = SumFunctionOnSet(w, DOMAIN l)
<1>0. \A b \in DOMAIN bs : bs[b].quantity \in Int
    BY PieceTyped
<1> DEFINE D == DOMAIN ds
           B == DOMAIN bs
           u == [b \in D |-> PieceOf(ds, cur, k, b, c)]
           old == [b \in D |-> IF b \in B THEN bs[b].quantity * u[b] ELSE 0]
           g == [b \in D |-> u[b] * Gain(l, b)]
           h == [b \in D |-> ds[b].quantity * u[b]]
<1>1. u \in [D -> Int] /\ \A b \in D : Gain(l, b) \in Int
    BY PieceTyped, GainTyped
<1>2. \A b \in B : PieceOf(bs, cur, k, b, c) = u[b] /\ bs[b].quantity \in Int
    BY PieceTyped DEF PieceOf, CostOf
<1>3. ASSUME NEW b \in D PROVE old[b] \in Int /\ g[b] \in Int /\ h[b] = old[b] + g[b]
    <2>1. PICK x \in Int, y \in Int : x = u[b] /\ y = Gain(l, b)
        BY <1>1
    <2>2. PICK q \in Int : (b \in B => q = bs[b].quantity) /\ (b \notin B => q = 0)
        <3>1. CASE b \in B
            <4>1. bs[b].quantity \in Int
                BY <1>0, <3>1
            <4>2. QED
                BY <3>1, <4>1
        <3>2. CASE b \notin B
            BY <3>2
        <3>3. QED
            BY <3>1, <3>2
    <2>3. ds[b].quantity = q + y
        BY <2>1, <2>2
    <2>4. g[b] = x * y /\ h[b] = (q + y) * x
        BY <2>1, <2>3
    <2>5. old[b] = q * x
        BY <2>1, <2>2, TimesTyped
    <2>6. (q + y) * x = q * x + x * y /\ q * x \in Int /\ x * y \in Int
        BY TimesSum, TimesTyped
    <2> HIDE DEF old, g, h
    <2>7. QED
        BY <2>4, <2>5, <2>6
<1>4. IsFiniteSet(D) /\ B \in SUBSET D
    BY DEF Stocked
<1>5. ValueOf(ds, cur, k, c) = SumFunctionOnSet(h, D)
    BY ValuationIs
<1>6. ValueOf(bs, cur, k, c) = SumFunctionOnSet(old, B)
    <2>1. \A b \in B : old[b] = bs[b].quantity * PieceOf(bs, cur, k, b, c)
        BY <1>2
    <2> HIDE DEF old
    <2>2. QED
        BY <2>1, ValuationIs
<1>7. \A i \in DOMAIN l : w[i] = u[l[i].batch] * l[i].qty
    OBVIOUS
<1>8. \A b \in D \ B : old[b] = 0
    OBVIOUS
<1>9. \A b \in D : g[b] = u[b] * Gain(l, b)
    OBVIOUS
<1>10. \A i \in DOMAIN l : l[i].batch \in D
    OBVIOUS
<1> HIDE DEF D, B, u, old, g, h
<1>11. Ints(old, D) /\ Ints(g, D)
    BY <1>3 DEF Ints
<1>12. SumFunctionOnSet(old, D) = SumFunctionOnSet(old, B)
    BY <1>4, <1>8, <1>11, SumFilter
<1>13. SumFunctionOnSet(h, D) = SumFunctionOnSet(old, D) + SumFunctionOnSet(g, D)
    BY <1>3, <1>4, <1>11, SumBoth
<1>14. SumFunctionOnSet(w, DOMAIN l) = SumFunctionOnSet(g, D)
    BY <1>1, <1>4, <1>7, <1>9, <1>10, GainsWorth
<1>15. SumFunctionOnSet(old, D) \in Int /\ SumFunctionOnSet(g, D) \in Int
    BY <1>4, <1>11, SumPick
<1>16. QED
    BY <1>5, <1>6, <1>12, <1>13, <1>14, <1>15

LEMMA WorthIs ==
    ASSUME NEW c
    PROVE  /\ stock_valuation(c).cost = ValueOf(batches, currency, card, c)
           /\ stock_valuation(c)'.cost = ValueOf(batches', currency', card', c)
<1>1. stock_valuation(c).cost = ValueOf(batches, currency, card, c)
    BY DEF stock_valuation, SumBy, LineCost, ValueOf, CostOf
<1>2. stock_valuation(c)'.cost = ValueOf(batches', currency', card', c)
    BY DEF stock_valuation, SumBy, LineCost, ValueOf, CostOf
<1>3. QED
    BY <1>1, <1>2

(* The plans whose effect on the value is known. *)
Tells(plan) ==
    \/ plan.kind \in {"sale", "transfer"}
    \/ plan.kind = "receipt" /\ plan.births # NoBirth

(* Their rows only take from the batches that are there. *)
LEMMA RowsPlaced ==
    ASSUME NEW plan, PlanTyped(plan), PlanFits(plan), Valued(plan), Tells(plan), plan.prices = None
    PROVE  \A i \in DOMAIN plan.rows :
              /\ plan.rows[i].batch \in DOMAIN batches \cup DOMAIN plan.births
              /\ plan.rows[i].batch \in DOMAIN batches => plan.rows[i].qty <= 0
<1>1. CASE plan.kind = "sale"
    BY <1>1 DEF Valued, SaleValued
<1>2. CASE plan.kind = "receipt" /\ plan.births # NoBirth
    BY <1>2 DEF Valued, ReceiptValued, PlanFits
<1>3. CASE plan.kind = "transfer"
    <2>1. /\ Len(plan.rows) = 2 /\ plan.rows[1].qty <= 0 /\ plan.rows[1].batch \in DOMAIN batches
          /\ plan.rows[2].batch \in DOMAIN plan.births
        BY <1>3 DEF Valued, TransferValued
    <2>2. DOMAIN plan.rows = 1..2
        BY <2>1 DEF PlanTyped
    <2>3. \A i \in DOMAIN plan.rows : i = 1 \/ i = 2
        BY <2>2
    <2>4. plan.rows[2].batch \notin DOMAIN batches
        BY <2>1 DEF PlanFits
    <2>5. QED
        BY <2>1, <2>3, <2>4
<1>4. QED
    BY <1>1, <1>2, <1>3 DEF Tells

(* What a commit does to the value is what its pieces are worth. *)
LEMMA CommitGains ==
    ASSUME VInv, NEW t \in Thread, Commit(t), NEW plan, plan = request[t],
           Tells(plan), plan.prices = None,
           \A b \in DOMAIN batches' : batches'[b].quantity >= 0, NEW c \in Currency,
           NEW w, \A i \in DOMAIN plan.rows :
                     w[i] = PieceOf(batches', currency, card, plan.rows[i].batch, c) * plan.rows[i].qty
    PROVE  /\ stock_valuation(c)'.cost - stock_valuation(c).cost = SumFunctionOnSet(w, DOMAIN plan.rows)
           /\ Stocked(batches', currency, card)
<1>1. /\ Base /\ TypeOK /\ GoodPlan(plan) /\ Valued(plan) /\ IsFiniteSet(DOMAIN batches)
    BY DEF VInv, Base, Plans
<1>2. PICK bs, ds, cur, k, l : bs = batches /\ ds = batches' /\ cur = currency /\ k = card /\ l = plan.rows
    OBVIOUS
<1>3. currency' = cur /\ card' = k
    BY <1>2 DEF Commit
<1>4. Stocked(bs, cur, k)
    BY <1>1, <1>2 DEF Stocked, TypeOK
<1>5. /\ DOMAIN ds = DOMAIN bs \cup DOMAIN plan.births
      /\ DOMAIN plan.births \cap DOMAIN bs = {}
      /\ ds \in [DOMAIN ds -> BatchRow]
    BY <1>1, <1>2, CommitFits
<1>6. \A b \in DOMAIN bs : /\ ds[b].product = bs[b].product /\ ds[b].cost = bs[b].cost
                           /\ ds[b].warehouse = bs[b].warehouse
                           /\ ds[b].quantity = bs[b].quantity + Gain(l, b)
    BY <1>1, <1>2, <1>5, CommitFits
<1>7. \A b \in DOMAIN ds \ DOMAIN bs : ds[b].quantity = plan.births[b].quantity + Gain(l, b)
    BY <1>1, <1>2, CommitFits
<1>8. IsFiniteSet(DOMAIN ds)
    <2>1. IsFiniteSet(DOMAIN plan.births) /\ IsFiniteSet(DOMAIN bs)
        BY <1>1, <1>2 DEF Valued
    <2>2. DOMAIN ds = DOMAIN bs \cup DOMAIN plan.births
        BY <1>5
    <2>3. IsFiniteSet(DOMAIN bs \cup DOMAIN plan.births)
        BY <2>1, FS_Union
    <2>4. QED
        BY <2>2, <2>3
<1>9. Stocked(ds, cur, k)
    BY <1>4, <1>5, <1>8 DEF Stocked
<1>10. l \in Seq(LedgerRow)
    BY <1>1, <1>2 DEF GoodPlan, PlanTyped
<1>11. \A i \in DOMAIN l : l[i].batch \in DOMAIN ds /\ (l[i].batch \in DOMAIN bs => l[i].qty <= 0)
    BY <1>1, <1>2, <1>5, RowsPlaced DEF GoodPlan
<1>12. \A b \in DOMAIN ds \ DOMAIN bs : ds[b].quantity = Gain(l, b)
    <2>1. \A b \in DOMAIN plan.births : plan.births[b].quantity = 0
        BY <1>1 DEF Valued
    <2>2. \A b \in DOMAIN ds \ DOMAIN bs : plan.births[b].quantity = 0
        BY <1>5, <2>1
    <2>3. \A b : Gain(l, b) \in Int
        BY <1>10, GainTyped
    <2>4. QED
        BY <1>7, <2>2, <2>3
<1>13. \A b \in DOMAIN bs : bs[b].quantity >= 0
    <2>1. ASSUME NEW b \in DOMAIN bs PROVE bs[b].quantity >= 0
        <3>1. \A i \in DOMAIN l : l[i].batch = b => l[i].qty <= 0
            BY <1>11
        <3>2. Gain(l, b) <= 0 /\ Gain(l, b) \in Int
            BY <1>10, <3>1, GainNotPositive, GainTyped
        <3>3. bs[b].quantity \in Int
            BY <1>4 DEF Stocked, BatchRow
        <3>4. ds[b].quantity = bs[b].quantity + Gain(l, b) /\ ds[b].quantity >= 0
            BY <1>2, <1>5, <1>6
        <3>5. QED
            BY <3>2, <3>3, <3>4
    <2>2. QED
        BY <2>1
<1>14. \A i \in DOMAIN l : w[i] = PieceOf(ds, cur, k, l[i].batch, c) * l[i].qty
    BY <1>2
<1>15. \A b \in DOMAIN ds : ds[b].quantity >= 0
    BY <1>2
<1>16. DOMAIN bs \subseteq DOMAIN ds /\ \A i \in DOMAIN l : l[i].batch \in DOMAIN ds
    BY <1>5, <1>11
<1>17. ValueOf(ds, cur, k, c) - ValueOf(bs, cur, k, c) = SumFunctionOnSet(w, DOMAIN l)
    BY <1>4, <1>6, <1>9, <1>10, <1>12, <1>13, <1>14, <1>15, <1>16, ValueGains
<1>18. /\ stock_valuation(c)'.cost = ValueOf(ds, cur, k, c)
       /\ stock_valuation(c).cost = ValueOf(bs, cur, k, c)
    BY <1>2, <1>3, WorthIs
<1>19. QED
    BY <1>2, <1>9, <1>17, <1>18

(* The rows T are the rows J of a plan, behind the n there were.           *)
Behind(T, J, n) == \A i : i \in T <=> \E j \in J : i = n + j
SameBehind(g, w, J, n) == \A j \in J : g[n + j] = w[j]

LEMMA BehindMaps ==
    ASSUME NEW n \in Nat, NEW J \in SUBSET Nat, NEW T, Behind(T, J, n)
    PROVE  \E h \in Bijection(J, T) : \A j \in J : h[j] = n + j
<1> DEFINE h == [j \in J |-> n + j]
<1>1. \A j \in J : h[j] \in T
    BY DEF Behind
<1>2. \A i, j \in J : h[i] = h[j] => i = j
    <2>1. \A i, j \in Nat : n + i = n + j => i = j
        OBVIOUS
    <2>2. QED
        BY <2>1
<1>3. \A x \in T : \E j \in J : h[j] = x
    BY DEF Behind
<1>4. h \in Bijection(J, T)
    BY <1>1, <1>2, <1>3 DEF Bijection, Injection, Surjection, IsInjective
<1>5. QED
    BY <1>4

LEMMA MappedSum ==
    ASSUME NEW J, IsFiniteSet(J), NEW w, Ints(w, J), NEW T, NEW g,
           NEW h \in Bijection(J, T), \A j \in J : g[h[j]] = w[j]
    PROVE  SumFunctionOnSet(g, T) = SumFunctionOnSet(w, J)
BY SumMap

(* A sum over the rows a plan books is that over the rows just written. *)
LEMMA WrittenSum ==
    ASSUME NEW n \in Nat, NEW S \in SUBSET Nat, IsFiniteSet(S), NEW w, Ints(w, S),
           NEW J \in SUBSET S, \A i \in S \ J : w[i] = 0,
           NEW T, Behind(T, J, n), NEW g, SameBehind(g, w, J, n)
    PROVE  SumFunctionOnSet(w, S) = SumFunctionOnSet(g, T)
<1>1. IsFiniteSet(J) /\ Ints(w, J)
    BY FS_Subset DEF Ints
<1>2. SumFunctionOnSet(w, S) = SumFunctionOnSet(w, J)
    BY SumFilter
<1>3. PICK h \in Bijection(J, T) : \A j \in J : h[j] = n + j
    BY BehindMaps
<1>4. \A j \in J : g[h[j]] = w[j]
    BY <1>3 DEF SameBehind
<1>5. SumFunctionOnSet(w, J) = SumFunctionOnSet(g, T)
    BY <1>1, <1>3, <1>4, MappedSum
<1>6. QED
    BY <1>2, <1>5

(* The rows of a commit in the ledger. *)
LEMMA RowsWritten ==
    ASSUME Base, NEW t \in Thread, Commit(t), NEW l, l = request[t].rows
    PROVE  LET n == Len(ledger)
           IN  /\ n \in Nat /\ l \in Seq(LedgerRow)
               /\ \A i : i \in DOMAIN ledger' \ DOMAIN ledger <=> \E j \in DOMAIN l : i = n + j
               /\ \A j \in DOMAIN l : LET r == ledger'[n + j]
                                      IN  r.batch = l[j].batch /\ r.qty = l[j].qty /\ r.cost = l[j].cost
<1>1. PICK utc, to, rows, moves : Written(t, rows, moves, utc, to)
    BY CommitWrites
<1>2. /\ ledger \in Seq(LedgerRow) /\ rows \in Seq(LedgerRow) /\ l \in Seq(LedgerRow)
      /\ ledger' = ledger \o rows /\ DOMAIN rows = DOMAIN l
      /\ \A i \in DOMAIN rows : BookedRow(l[i], rows[i], today, utc)
    BY <1>1 DEF Written, Base, TypeOK
<1>3. /\ Len(ledger) \in Nat /\ Len(rows) \in Nat /\ DOMAIN ledger = 1..Len(ledger)
      /\ DOMAIN rows = 1..Len(rows) /\ DOMAIN ledger' = 1..(Len(ledger) + Len(rows))
      /\ \A j \in DOMAIN rows : ledger'[Len(ledger) + j] = rows[j]
    BY <1>2
<1>4. \A i : i \in DOMAIN ledger' \ DOMAIN ledger <=> \E j \in DOMAIN l : i = Len(ledger) + j
    <2>1. PICK n \in Nat, m \in Nat : n = Len(ledger) /\ m = Len(rows)
        BY <1>3
    <2>2. \A i : i \in 1..(n + m) \ 1..n <=> \E j \in 1..m : i = n + j
        <3>1. ASSUME NEW i \in 1..(n + m) \ 1..n PROVE \E j \in 1..m : i = n + j
            <4>1. i - n \in 1..m /\ i = n + (i - n)
                OBVIOUS
            <4>2. QED
                BY <4>1
        <3>2. ASSUME NEW j \in 1..m PROVE n + j \in 1..(n + m) \ 1..n
            OBVIOUS
        <3>3. QED
            BY <3>1, <3>2
    <2>3. QED
        BY <1>2, <1>3, <2>1, <2>2
<1>5. \A j \in DOMAIN l : /\ rows[j].batch = l[j].batch /\ rows[j].qty = l[j].qty
                          /\ rows[j].cost = l[j].cost
    BY <1>2 DEF BookedRow
<1>6. QED
    BY <1>2, <1>3, <1>4, <1>5

(* What a piece is worth once it is booked, if its row says a cost.        *)
LEMMA PieceTold ==
    ASSUME VInv, NEW t \in Thread, Commit(t), NEW plan, plan = request[t],
           Tells(plan), plan.kind # "transfer", plan.prices = None,
           plan.edits = edits, plan.card = card, NEW c \in Currency,
           NEW i \in DOMAIN plan.rows, plan.rows[i].cost # None,
           currency[batches'[plan.rows[i].batch].warehouse] = c
    PROVE  PieceOf(batches', currency, card, plan.rows[i].batch, c) = plan.rows[i].cost
<1>1. Base /\ Valued(plan) /\ PlanFits(plan) /\ GoodPlan(plan)
    BY DEF VInv, Base, Plans, GoodPlan
<1>2. PICK b, r : b = plan.rows[i].batch /\ r = plan.rows[i]
    OBVIOUS
<1>3. /\ DOMAIN batches' = DOMAIN batches \cup DOMAIN plan.births
      /\ DOMAIN plan.births \cap DOMAIN batches = {}
    BY <1>1, CommitFits
<1>4. CASE plan.kind = "sale"
    <2>1. b \in DOMAIN batches
          /\ r.cost = Default(batches[b].cost, card[batches[b].product][currency[batches[b].warehouse]].cost)
        BY <1>1, <1>2, <1>4 DEF Valued, SaleValued
    <2>2. /\ batches'[b].product = batches[b].product /\ batches'[b].cost = batches[b].cost
          /\ batches'[b].warehouse = batches[b].warehouse
        BY <1>1, <1>3, <2>1, CommitFits
    <2>3. CostOf(batches', card, b, c) = r.cost
        BY <1>2, <2>1, <2>2 DEF CostOf
    <2>4. QED
        BY <1>2, <2>3 DEF PieceOf
<1>5. CASE plan.kind = "receipt" /\ plan.births # NoBirth
    <2>1. b \in DOMAIN plan.births /\ r.cost = plan.births[b].cost
        BY <1>1, <1>2, <1>5 DEF Valued, ReceiptValued
    <2>2. batches'[b].cost = plan.births[b].cost
        BY <1>1, <1>3, <2>1, CommitFits
    <2>3. CostOf(batches', card, b, c) = r.cost
        BY <1>2, <2>1, <2>2 DEF CostOf, Default
    <2>4. QED
        BY <1>2, <2>3 DEF PieceOf
<1>6. QED
    BY <1>4, <1>5 DEF Tells

(* Goods moved inside a currency are worth the same where they go.         *)
LEMMA PieceMoved ==
    ASSUME VInv, NEW t \in Thread, Commit(t), NEW plan, plan = request[t],
           plan.kind = "transfer", plan.typed = None, plan.edits = edits, NEW c \in Currency,
           currency[batches'[plan.rows[1].batch].warehouse] = c,
           currency[batches'[plan.rows[2].batch].warehouse] = c
    PROVE  /\ PieceOf(batches', currency, card, plan.rows[1].batch, c)
              = PieceOf(batches', currency, card, plan.rows[2].batch, c)
           /\ plan.rows[1].qty = -plan.rows[2].qty
<1>1. Base /\ Valued(plan) /\ PlanFits(plan) /\ GoodPlan(plan)
    BY DEF VInv, Base, Plans, GoodPlan
<1>2. PICK a, b : a = plan.rows[1].batch /\ b = plan.rows[2].batch
    OBVIOUS
<1>3. /\ DOMAIN batches' = DOMAIN batches \cup DOMAIN plan.births
      /\ DOMAIN plan.births \cap DOMAIN batches = {}
    BY <1>1, CommitFits
<1>4. /\ plan.rows[1].qty = -plan.rows[2].qty
      /\ a \in DOMAIN batches /\ b \in DOMAIN plan.births
      /\ plan.births[b].product = batches[a].product
      /\ currency[plan.births[b].warehouse] = currency[batches[a].warehouse] =>
            plan.births[b].cost = batches[a].cost
    BY <1>1, <1>2 DEF Valued, TransferValued
<1>5. /\ batches'[a].product = batches[a].product /\ batches'[a].cost = batches[a].cost
      /\ batches'[a].warehouse = batches[a].warehouse
    BY <1>1, <1>3, <1>4, CommitFits
<1>6. /\ batches'[b].product = plan.births[b].product /\ batches'[b].cost = plan.births[b].cost
      /\ batches'[b].warehouse = plan.births[b].warehouse
    BY <1>1, <1>3, <1>4, CommitFits
<1>7. CostOf(batches', card, a, c) = CostOf(batches', card, b, c)
    BY <1>2, <1>4, <1>5, <1>6 DEF CostOf
<1>8. QED
    BY <1>2, <1>4, <1>7 DEF PieceOf

LEMMA PairSum ==
    ASSUME NEW w, NEW x \in Int, NEW y \in Int, NEW z \in Int, w[1] = x * y, w[2] = x * z, y = -z
    PROVE  SumFunctionOnSet(w, 1..2) = 0
<1>1. w[1] \in Int /\ w[2] \in Int /\ w[1] + w[2] = 0
    <2>1. x * y + x * z = x * (y + z) /\ y + z = 0 /\ x * 0 = 0 /\ x * y \in Int /\ x * z \in Int
        BY TimesSum, TimesZero
    <2>2. QED
        BY <2>1
<1>2. IsFiniteSet({1}) /\ 2 \notin {1} /\ {1} \cup {2} = 1..2
    <2>1. 2 \notin {1} /\ {1} \cup {2} = 1..2
        OBVIOUS
    <2>2. QED
        BY <2>1, FS_Singleton
<1>3. Ints(w, {1} \cup {2})
    BY <1>1 DEF Ints
<1>4. SumFunctionOnSet(w, {1} \cup {2}) = w[2] + SumFunctionOnSet(w, {1})
    BY <1>2, <1>3, SumPut
<1>5. SumFunctionOnSet(w, {1}) = w[1]
    BY <1>1, SumOne
<1>6. QED
    BY <1>1, <1>2, <1>4, <1>5

(* No batch is below zero; the rows of m that are not in l, in a currency; *)
(* and what rows call their cost.                                          *)
NoneBelow(bs) == \A b \in DOMAIN bs : bs[b].quantity >= 0
FreshRows(l, m, bs, cur, c) ==
    {i \in DOMAIN m \ DOMAIN l : cur[bs[m[i].batch].warehouse] = c}
CostKnown(m, S) == \A i \in S : m[i].cost # None
SaidCost(m, S) == SumBy(S, LAMBDA i : m[i].qty * m[i].cost)

(* ValueFollowsGoods of one commit and one currency. *)
LEMMA CommitValue ==
    ASSUME VInv, NEW t \in Thread, Commit(t), NEW plan, plan = request[t],
           Tells(plan), plan.prices = None, plan.edits = edits, plan.card = card,
           NoneBelow(batches'), NEW c \in Currency,
           NEW rows, rows = FreshRows(ledger, ledger', batches', currency, c),
           NEW gain, gain = stock_valuation(c)'.cost - stock_valuation(c).cost
    PROVE  /\ plan.kind = "transfer" /\ Cardinality(rows) = 2 /\ plan.typed = None => gain = 0
           /\ plan.kind # "transfer" /\ CostKnown(ledger', rows) => gain = SaidCost(ledger', rows)
<1>1. PICK l, n, ds : l = plan.rows /\ n = Len(ledger) /\ ds = batches'
    OBVIOUS
<1>2. Base /\ PlanTyped(plan) /\ PlanFits(plan) /\ Valued(plan)
    BY DEF VInv, Base, Plans, GoodPlan
<1>3. /\ n \in Nat /\ l \in Seq(LedgerRow)
      /\ \A i : i \in DOMAIN ledger' \ DOMAIN ledger <=> \E j \in DOMAIN l : i = n + j
      /\ \A j \in DOMAIN l : /\ ledger'[n + j].batch = l[j].batch
                             /\ ledger'[n + j].qty = l[j].qty /\ ledger'[n + j].cost = l[j].cost
    BY <1>1, <1>2, RowsWritten
<1>4. PICK w : w = [i \in DOMAIN l |-> PieceOf(ds, currency, card, l[i].batch, c) * l[i].qty]
    OBVIOUS
<1>5. gain = SumFunctionOnSet(w, DOMAIN l) /\ Stocked(ds, currency, card)
    BY <1>1, <1>4, CommitGains DEF NoneBelow
<1>6. /\ IsFiniteSet(DOMAIN l) /\ DOMAIN l \subseteq Nat /\ DOMAIN l = 1..Len(l) /\ Len(l) \in Nat
      /\ \A i \in DOMAIN l : l[i] \in LedgerRow
    <2>1. DOMAIN l = 1..Len(l) /\ Len(l) \in Nat
        BY <1>3
    <2>2. IsFiniteSet(DOMAIN l)
        BY <1>3, RowsTyped, WeightsTyped
    <2>3. QED
        BY <1>3, <2>1, <2>2, ElementOf
<1>7. \A i \in DOMAIN l : l[i].batch \in DOMAIN ds
    <2>1. DOMAIN ds = DOMAIN batches \cup DOMAIN plan.births
        BY <1>1, <1>2, CommitFits
    <2>2. QED
        BY <1>1, <1>2, <2>1, RowsPlaced
<1>8. \A i \in DOMAIN l : PieceOf(ds, currency, card, l[i].batch, c) \in Nat /\ l[i].qty \in Int
    BY <1>5, <1>6, <1>7, PieceTyped DEF LedgerRow
<1> DEFINE J == {j \in DOMAIN l : currency[ds[l[j].batch].warehouse] = c}
<1>9. \A i : i \in rows <=> \E j \in J : i = n + j
    <2>1. \A j \in DOMAIN l : ledger'[n + j].batch = l[j].batch
        BY <1>3
    <2>2. \A i : i \in rows <=> /\ i \in DOMAIN ledger' \ DOMAIN ledger
                              /\ currency[ds[ledger'[i].batch].warehouse] = c
        BY <1>1 DEF FreshRows
    <2>3. ASSUME NEW i \in rows PROVE \E j \in J : i = n + j
        <3>1. PICK j \in DOMAIN l : i = n + j
            BY <1>3, <2>2, <2>3
        <3>2. ledger'[i].batch = l[j].batch
            BY <2>1, <3>1
        <3>3. j \in J
            BY <2>2, <2>3, <3>2
        <3>4. QED
            BY <3>1, <3>3
    <2>4. ASSUME NEW j \in J, NEW i, i = n + j PROVE i \in rows
        <3>1. i \in DOMAIN ledger' \ DOMAIN ledger
            BY <1>3, <2>4
        <3>2. ledger'[i].batch = l[j].batch
            BY <2>1, <2>4
        <3>3. QED
            BY <2>2, <3>1, <3>2
    <2>5. QED
        BY <2>3, <2>4
<1>10. ASSUME plan.kind # "transfer", CostKnown(ledger', rows)
       PROVE  gain = SaidCost(ledger', rows)
    <2> DEFINE g == [i \in rows |-> ledger'[i].qty * ledger'[i].cost]
    <2>1. ASSUME NEW j \in J PROVE n + j \in rows /\ g[n + j] = w[j]
        <3>1. n + j \in rows /\ ledger'[n + j].qty = l[j].qty /\ ledger'[n + j].cost = l[j].cost
            BY <1>3, <1>9
        <3>2. l[j].cost # None
            BY <1>10, <3>1 DEF CostKnown
        <3>3. PieceOf(ds, currency, card, l[j].batch, c) = l[j].cost
            BY <1>1, <1>10, <3>2, PieceTold
        <3>4. l[j].cost \in Nat /\ l[j].qty \in Int /\ w[j] = l[j].cost * l[j].qty
            BY <1>4, <1>8, <3>3
        <3>5. l[j].qty * l[j].cost = l[j].cost * l[j].qty
            BY <3>4, TimesTyped
        <3>6. QED
            BY <3>1, <3>4, <3>5
    <2>2. ASSUME NEW i \in DOMAIN l PROVE w[i] \in Int /\ (i \notin J => w[i] = 0)
        <3>1. PICK x \in Int, y \in Int : /\ x = PieceOf(ds, currency, card, l[i].batch, c)
                                          /\ y = l[i].qty
            BY <1>8
        <3>2. w[i] = x * y /\ (i \notin J => x = 0)
            BY <1>4, <3>1 DEF PieceOf
        <3> HIDE DEF J
        <3>3. QED
            BY <3>2, TimesTyped
    <2>3. \A j \in J : g[n + j] = w[j]
        BY <2>1
    <2>4. SaidCost(ledger', rows) = SumFunctionOnSet(g, rows)
        BY DEF SumBy, SaidCost
    <2>5. J \in SUBSET DOMAIN l
        OBVIOUS
    <2> HIDE DEF J, g
    <2>6. Ints(w, DOMAIN l)
        BY <2>2 DEF Ints
    <2>7. SumFunctionOnSet(w, DOMAIN l) = SumFunctionOnSet(g, rows)
        <3>1. \A i \in DOMAIN l \ J : w[i] = 0
            BY <2>2
        <3>2. IsFiniteSet(DOMAIN l) /\ DOMAIN l \subseteq Nat
            BY <1>6
        <3>3. PICK S : S = DOMAIN l
            OBVIOUS
        <3>4. S \in SUBSET Nat /\ IsFiniteSet(S) /\ Ints(w, S) /\ J \in SUBSET S
              /\ n \in Nat /\ \A i \in S \ J : w[i] = 0
            BY <1>3, <2>5, <2>6, <3>1, <3>2, <3>3
        <3>5. Behind(rows, J, n) /\ SameBehind(g, w, J, n)
            BY <1>9, <2>3 DEF Behind, SameBehind
        <3>6. SumFunctionOnSet(w, S) = SumFunctionOnSet(g, rows)
            BY <3>4, <3>5, WrittenSum
        <3>7. QED
            BY <3>3, <3>6
    <2>8. QED
        BY <1>5, <2>4, <2>7
<1>11. ASSUME plan.kind = "transfer", Cardinality(rows) = 2, plan.typed = None
       PROVE  gain = 0
    <2>1. DOMAIN l = 1..2
        BY <1>1, <1>2, <1>6, <1>11 DEF Valued, TransferValued
    <2>2. 1 \in J /\ 2 \in J
        <3>1. n + 1 # n + 2 /\ rows \subseteq {n + 1, n + 2}
            BY <1>3, <1>9, <2>1
        <3>2. IsFiniteSet({n + 1, n + 2}) /\ Cardinality({n + 1, n + 2}) = 2
            <4>1. IsFiniteSet({n + 1}) /\ Cardinality({n + 1}) = 1
                BY FS_Singleton
            <4>2. {n + 1, n + 2} = {n + 1} \cup {n + 2} /\ n + 2 \notin {n + 1}
                BY <1>3
            <4>3. IsFiniteSet({n + 1} \cup {n + 2}) /\ Cardinality({n + 1} \cup {n + 2}) = 1 + 1
                BY <4>1, <4>2, FS_AddElement
            <4>4. QED
                BY <4>2, <4>3
        <3>3. rows = {n + 1, n + 2}
            BY <1>11, <3>1, <3>2, FS_Subset
        <3>4. \A i, j \in Nat : n + i = n + j => i = j
            BY <1>3
        <3>5. J \subseteq Nat
            BY <1>6
        <3>6. (\E j \in J : n + 1 = n + j) /\ (\E j \in J : n + 2 = n + j)
            BY <1>9, <3>3
        <3> HIDE DEF J
        <3>7. QED
            BY <3>4, <3>5, <3>6
    <2>3. /\ PieceOf(ds, currency, card, l[1].batch, c) = PieceOf(ds, currency, card, l[2].batch, c)
          /\ l[1].qty = -l[2].qty
        BY <1>1, <1>11, <2>2, PieceMoved
    <2>4. PICK x \in Int, y \in Int, z \in Int :
              /\ x = PieceOf(ds, currency, card, l[1].batch, c) /\ y = l[1].qty /\ z = l[2].qty
        BY <1>8, <2>1
    <2>5. w[1] = x * y /\ w[2] = x * z /\ y = -z
        BY <1>4, <2>1, <2>3, <2>4
    <2>6. SumFunctionOnSet(w, 1..2) = 0
        BY <2>5, PairSum
    <2>7. QED
        BY <1>5, <2>1, <2>6
<1>12. QED
    BY <1>10, <1>11

(* ValueFollowsGoods, for every stock and any number of requests at a      *)
(* time: what services/sales.py freezes as the cost of a row is what       *)
(* stock_valuation of services/finance_reports.py takes off the value, a   *)
(* receipt into a new batch brings in its cost, and a transfer of          *)
(* services/transfer.py inside one currency leaves the value as it was.    *)
THEOREM ValueFollowsGoodsAlways == Spec => ValueFollowsGoods
<1> DEFINE Follows ==
       \A t \in Thread :
          /\ request[t].kind \in {"sale", "receipt", "transfer"} /\ ledger' # ledger
          /\ request'[t] = NoRequest /\ request[t].prices = None
          /\ request[t].edits = edits /\ request[t].card = card
          /\ \A b \in DOMAIN batches' : batches'[b].quantity >= 0
          => \A c \in Currency :
                LET gain == stock_valuation(c)'.cost - stock_valuation(c).cost
                    rows == {i \in DOMAIN ledger' \ DOMAIN ledger :
                                currency[batches'[ledger'[i].batch].warehouse] = c}
                    Known == \A i \in rows : ledger'[i].cost # None
                IN  CASE request[t].kind = "transfer" ->
                           Cardinality(rows) = 2 /\ request[t].typed = None => gain = 0
                      [] request[t].kind = "receipt" /\ request[t].births = NoBirth -> TRUE
                      [] OTHER -> Known =>
                           gain = SumBy(rows, LAMBDA i : ledger'[i].qty * ledger'[i].cost)
<1>1. ASSUME VInv, [Next]_vars, NEW t \in Thread,
             request[t].kind \in {"sale", "receipt", "transfer"}, ledger' # ledger,
             request'[t] = NoRequest
      PROVE  Commit(t)
    <2>1. Base /\ request = [u \in Thread |-> request[u]] /\ request[t] # NoRequest
        BY <1>1 DEF VInv, Base, Plans, NoRequest
    <2>2. ASSUME NEW u \in Thread, NEW new, Takes(u, new) PROVE FALSE
        BY <1>1, <2>2 DEF Takes
    <2>3. ASSUME NEW u \in Thread, Rollback(u) PROVE FALSE
        BY <1>1, <2>3 DEF Rollback
    <2>4. ASSUME Change PROVE FALSE
        <3>1. request' = request
            BY <2>1, <2>4, ChangeKeeps
        <3>2. QED
            BY <1>1, <2>1, <3>1
    <2>5. ~(Midnight \/ UNCHANGED vars)
        BY <1>1 DEF Midnight, vars
    <2>6. PICK u \in Thread : Commit(u)
        BY <1>1, <2>1, <2>2, <2>3, <2>4, <2>5, StepKinds
    <2>7. request'[t] = IF t = u THEN NoRequest ELSE request[t]
        BY <2>1, <2>6 DEF Commit
    <2>8. QED
        BY <1>1, <2>1, <2>6, <2>7
<1>2. ASSUME VInv, [Next]_vars PROVE Follows
    <2> SUFFICES ASSUME NEW t \in Thread,
              request[t].kind \in {"sale", "receipt", "transfer"}, ledger' # ledger,
              request'[t] = NoRequest, request[t].prices = None,
              request[t].edits = edits, request[t].card = card,
              \A b \in DOMAIN batches' : batches'[b].quantity >= 0,
              NEW c \in Currency
           PROVE  LET gain == stock_valuation(c)'.cost - stock_valuation(c).cost
                      rows == {i \in DOMAIN ledger' \ DOMAIN ledger :
                                  currency[batches'[ledger'[i].batch].warehouse] = c}
                      Known == \A i \in rows : ledger'[i].cost # None
                  IN  CASE request[t].kind = "transfer" ->
                             Cardinality(rows) = 2 /\ request[t].typed = None => gain = 0
                        [] request[t].kind = "receipt" /\ request[t].births = NoBirth -> TRUE
                        [] OTHER -> Known =>
                             gain = SumBy(rows, LAMBDA i : ledger'[i].qty * ledger'[i].cost)
        BY Zenon
    <2> DEFINE gain == stock_valuation(c)'.cost - stock_valuation(c).cost
               rows == {i \in DOMAIN ledger' \ DOMAIN ledger :
                           currency[batches'[ledger'[i].batch].warehouse] = c}
    <2>1. Commit(t)
        BY <1>1, <1>2
    <2>2. CASE request[t].kind = "receipt" /\ request[t].births = NoBirth
        BY <2>2
    <2>3. CASE ~(request[t].kind = "receipt" /\ request[t].births = NoBirth)
        <3>1. PICK plan : plan = request[t]
            OBVIOUS
        <3>2. Tells(plan)
            BY <2>3, <3>1 DEF Tells
        <3>3. /\ plan.kind = "transfer" /\ Cardinality(rows) = 2 /\ plan.typed = None => gain = 0
              /\ plan.kind # "transfer" /\ (\A i \in rows : ledger'[i].cost # None) =>
                    gain = SumBy(rows, LAMBDA i : ledger'[i].qty * ledger'[i].cost)
            <4>1. PICK x, y : x = rows /\ y = gain
                OBVIOUS
            <4>2. /\ VInv /\ Commit(t) /\ plan.prices = None
                  /\ plan.edits = edits /\ plan.card = card /\ NoneBelow(batches')
                BY <1>2, <2>1, <3>1 DEF NoneBelow
            <4>3. x = FreshRows(ledger, ledger', batches', currency, c)
                BY <4>1 DEF FreshRows
            <4>4. y = stock_valuation(c)'.cost - stock_valuation(c).cost
                BY <4>1
            <4> HIDE DEF rows, gain
            <4>5. /\ plan.kind = "transfer" /\ Cardinality(x) = 2 /\ plan.typed = None => y = 0
                  /\ plan.kind # "transfer" /\ CostKnown(ledger', x) => y = SaidCost(ledger', x)
                BY <3>1, <3>2, <4>2, <4>3, <4>4, CommitValue
            <4>6. QED
                BY <4>1, <4>5 DEF CostKnown, SaidCost
        <3>4. QED
            BY <2>3, <3>1, <3>3
    <2>4. QED
        BY <2>2, <2>3
<1>3. VInv /\ [Next]_vars => [Follows]_vars
    BY <1>2
<1>4. QED
    BY <1>3, VInvAlways, PTL DEF Spec, ValueFollowsGoods
=============================================================================
