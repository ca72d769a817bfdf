---------------------------- MODULE StockProofs ----------------------------
(***************************************************************************)
(* Proofs about the stock ledger, for any number of products, warehouses,  *)
(* batches, sales, rows and requests.  Every quantity the program caches   *)
(* is a sum over rows; what is known of sums is in module Sums.            *)
(***************************************************************************)
EXTENDS Stock, Sums

-----------------------------------------------------------------------------
(* Sums over the rows of a ledger *)

(* A finite ledger with whole quantities. *)
GoodBag(B) ==
    /\ IsFiniteSet(BagToSet(B))
    /\ \A o \in BagToSet(B) : B[o] \in Nat /\ o.qty \in Int

(* The total of some rows of a ledger is a sum of whole numbers. *)
LEMMA TotalIs ==
    ASSUME NEW B, GoodBag(B), NEW S \in SUBSET BagToSet(B),
           NEW w, \A o \in S : w[o] = o.qty * B[o]
    PROVE  /\ Total(B, S) = SumFunctionOnSet(w, S)
           /\ Total(B, S) \in Int
           /\ IsFiniteSet(S) /\ Ints(w, S)
<1> DEFINE f == [o \in S |-> o.qty * B[o]]
<1>1. IsFiniteSet(S)
    BY FS_Subset DEF GoodBag
<1>2. Ints(f, S) /\ Ints(w, S)
    <2>1. ASSUME NEW o \in S PROVE o.qty * B[o] \in Int
        <3>1. B[o] \in Int /\ o.qty \in Int
            BY DEF GoodBag
        <3>2. QED
            BY <3>1
    <2>2. QED
        BY <2>1 DEF Ints
<1>3. \A o \in S : f[o] = w[o]
    OBVIOUS
<1>4. Total(B, S) = SumFunctionOnSet(f, S)
    BY DEF Total
<1> HIDE DEF f
<1>5. QED
    BY <1>1, <1>2, <1>3, <1>4, SumSame, SumPick

(* So it is a whole number. *)
LEMMA TotalType ==
    ASSUME NEW B, GoodBag(B), NEW S \in SUBSET BagToSet(B)
    PROVE  Total(B, S) \in Int
<1> DEFINE w == [o \in S |-> o.qty * B[o]]
<1>1. \A o \in S : w[o] = o.qty * B[o]
    OBVIOUS
<1> HIDE DEF w
<1>2. QED
    BY <1>1, TotalIs

(* Appending rows to a ledger leaves the old rows and adds the new ones. *)
LEMMA PlusGood ==
    ASSUME NEW B, GoodBag(B), NEW C, GoodBag(C)
    PROVE  GoodBag(B (+) C) /\ BagToSet(B (+) C) = BagToSet(B) \cup BagToSet(C)
<1>1. BagToSet(B (+) C) = BagToSet(B) \cup BagToSet(C)
    BY DEF (+), BagToSet
<1>2. IsFiniteSet(BagToSet(B (+) C))
    BY <1>1, FS_Union DEF GoodBag
<1>3. ASSUME NEW o \in BagToSet(B (+) C)
      PROVE  (B (+) C)[o] \in Nat /\ o.qty \in Int
    <2>1. /\ o \in BagToSet(B) => B[o] \in Nat /\ o.qty \in Int
          /\ o \in BagToSet(C) => C[o] \in Nat /\ o.qty \in Int
        BY DEF GoodBag
    <2>2. QED
        BY <1>1, <2>1 DEF (+), BagToSet
<1>4. QED
    BY <1>1, <1>2, <1>3 DEF GoodBag

(* Multiplication distributes over addition. *)
LEMMA Distributes == \A x, a, b \in Int : x * (a + b) = x * a + x * b
OBVIOUS

(* Rows of one bag, counted in the union of two. *)
LEMMA TotalPart ==
    ASSUME NEW B, GoodBag(B), NEW S, IsFiniteSet(S),
           NEW f, \A o \in S : f[o] = IF o \in BagToSet(B) THEN o.qty * B[o] ELSE 0
    PROVE  /\ SumFunctionOnSet(f, S) = Total(B, S \cap BagToSet(B))
           /\ Ints(f, S)
<1> DEFINE T == S \cap BagToSet(B)
           U == S \ BagToSet(B)
<1>1. S = T \cup U /\ T \cap U = {} /\ IsFiniteSet(T) /\ IsFiniteSet(U)
    BY FS_Subset
<1>2. T \in SUBSET BagToSet(B) /\ \A o \in T : f[o] = o.qty * B[o]
    OBVIOUS
<1>3. \A o \in U : f[o] = 0
    OBVIOUS
<1> HIDE DEF T, U
<1>4. Total(B, T) = SumFunctionOnSet(f, T) /\ Ints(f, T) /\ Total(B, T) \in Int
    BY <1>2, TotalIs
<1>5. Ints(f, U)
    BY <1>3 DEF Ints
<1>6. SumFunctionOnSet(f, T \cup U) = SumFunctionOnSet(f, T) + SumFunctionOnSet(f, U)
    BY <1>1, <1>4, <1>5, SumUnion
<1>7. SumFunctionOnSet(f, U) = 0
    BY <1>1, <1>3, SumZero
<1>8. SumFunctionOnSet(f, S) = SumFunctionOnSet(f, T \cup U)
    BY <1>1, Zenon
<1>9. SumFunctionOnSet(f, S) = Total(B, T)
    BY <1>4, <1>6, <1>7, <1>8
<1>10. Ints(f, S)
    BY <1>1, <1>4, <1>5 DEF Ints
<1>11. QED
    BY <1>9, <1>10 DEF T

(* A total over the ledger and the rows appended to it is the sum of the   *)
(* totals over each: record_operation may increment instead of summing     *)
(* again.                                                                  *)
LEMMA TotalPlus ==
    ASSUME NEW B, GoodBag(B), NEW C, GoodBag(C),
           NEW S \in SUBSET BagToSet(B (+) C)
    PROVE  Total(B (+) C, S) = Total(B, S \cap BagToSet(B)) + Total(C, S \cap BagToSet(C))
<1> DEFINE f == [o \in S |-> IF o \in BagToSet(B) THEN o.qty * B[o] ELSE 0]
           g == [o \in S |-> IF o \in BagToSet(C) THEN o.qty * C[o] ELSE 0]
           h == [o \in S |-> o.qty * (B (+) C)[o]]
<1>1. GoodBag(B (+) C) /\ IsFiniteSet(S)
    BY PlusGood, FS_Subset DEF GoodBag
<1>2. /\ SumFunctionOnSet(f, S) = Total(B, S \cap BagToSet(B))
      /\ Ints(f, S)
    <2>1. \A o \in S : f[o] = IF o \in BagToSet(B) THEN o.qty * B[o] ELSE 0
        OBVIOUS
    <2> HIDE DEF f
    <2>2. QED
        BY <1>1, <2>1, TotalPart
<1>3. /\ SumFunctionOnSet(g, S) = Total(C, S \cap BagToSet(C))
      /\ Ints(g, S)
    <2>1. \A o \in S : g[o] = IF o \in BagToSet(C) THEN o.qty * C[o] ELSE 0
        OBVIOUS
    <2> HIDE DEF g
    <2>2. QED
        BY <1>1, <2>1, TotalPart
<1>4. Total(B (+) C, S) = SumFunctionOnSet(h, S)
    <2>1. \A o \in S : h[o] = o.qty * (B (+) C)[o]
        OBVIOUS
    <2> HIDE DEF h
    <2>2. QED
        BY <1>1, <2>1, TotalIs
<1>5. ASSUME NEW o \in S
      PROVE  h[o] = f[o] + g[o]
    <2>1. (B (+) C)[o] = (IF o \in BagToSet(B) THEN B[o] ELSE 0)
                         + (IF o \in BagToSet(C) THEN C[o] ELSE 0)
        BY DEF (+), BagToSet
    <2>2. /\ o \in BagToSet(B) => B[o] \in Int /\ o.qty \in Int
          /\ o \in BagToSet(C) => C[o] \in Int /\ o.qty \in Int
          /\ o.qty \in Int
        BY <1>1, PlusGood DEF GoodBag
    <2> DEFINE x == o.qty
               a == IF o \in BagToSet(B) THEN B[o] ELSE 0
               b == IF o \in BagToSet(C) THEN C[o] ELSE 0
    <2>3. x \in Int /\ a \in Int /\ b \in Int
        BY <2>2
    <2>4. h[o] = x * (a + b)
        BY <2>1
    <2>5. f[o] = x * a /\ g[o] = x * b
        BY <2>2
    <2> HIDE DEF x, a, b, f, g, h
    <2>6. QED
        BY <2>3, <2>4, <2>5, Distributes
<1> HIDE DEF f, g, h
<1>6. QED
    BY <1>1, <1>2, <1>3, <1>4, <1>5, SumBoth

(* The total of no rows. *)
LEMMA TotalNone == ASSUME NEW B PROVE Total(B, {}) = 0
BY SumEmpty DEF Total

(* What compute_stock, compute_batch_stock and sold_qty add up is a whole  *)
(* number.                                                                 *)
LEMMA SumsAreInts ==
    ASSUME NEW B, GoodBag(B), NEW x, NEW y, NEW types
    PROVE  /\ ComputeStock(B, x) \in Int
           /\ NullBucket(B, x) \in Int
           /\ OfBatch(B, x) \in Int
           /\ OfSale(B, x, y, types) \in Int
BY TotalType DEF ComputeStock, NullBucket, OfBatch, OfSale

(* Each of these sums grows by what the appended rows add up to. *)
LEMMA SumsPlus ==
    ASSUME NEW B, GoodBag(B), NEW C, GoodBag(C), NEW x, NEW y, NEW types
    PROVE  /\ ComputeStock(B (+) C, x) = ComputeStock(B, x) + ComputeStock(C, x)
           /\ NullBucket(B (+) C, x) = NullBucket(B, x) + NullBucket(C, x)
           /\ OfBatch(B (+) C, x) = OfBatch(B, x) + OfBatch(C, x)
           /\ OfSale(B (+) C, x, y, types) = OfSale(B, x, y, types) + OfSale(C, x, y, types)
<1>1. BagToSet(B (+) C) = BagToSet(B) \cup BagToSet(C)
    BY PlusGood
<1>2. ComputeStock(B (+) C, x) = ComputeStock(B, x) + ComputeStock(C, x)
    <2> DEFINE S == {o \in BagToSet(B (+) C) : o.product = x}
    <2>1. /\ S \cap BagToSet(B) = {o \in BagToSet(B) : o.product = x}
          /\ S \cap BagToSet(C) = {o \in BagToSet(C) : o.product = x}
          /\ S \in SUBSET BagToSet(B (+) C)
        BY <1>1
    <2>2. QED
        BY <2>1, TotalPlus DEF ComputeStock
<1>3. NullBucket(B (+) C, x) = NullBucket(B, x) + NullBucket(C, x)
    <2> DEFINE S == {o \in BagToSet(B (+) C) : o.product = x /\ o.batch = None}
    <2>1. /\ S \cap BagToSet(B) = {o \in BagToSet(B) : o.product = x /\ o.batch = None}
          /\ S \cap BagToSet(C) = {o \in BagToSet(C) : o.product = x /\ o.batch = None}
          /\ S \in SUBSET BagToSet(B (+) C)
        BY <1>1
    <2>2. QED
        BY <2>1, TotalPlus DEF NullBucket
<1>4. OfBatch(B (+) C, x) = OfBatch(B, x) + OfBatch(C, x)
    <2> DEFINE S == {o \in BagToSet(B (+) C) : o.batch = x}
    <2>1. /\ S \cap BagToSet(B) = {o \in BagToSet(B) : o.batch = x}
          /\ S \cap BagToSet(C) = {o \in BagToSet(C) : o.batch = x}
          /\ S \in SUBSET BagToSet(B (+) C)
        BY <1>1
    <2>2. QED
        BY <2>1, TotalPlus DEF OfBatch
<1>5. OfSale(B (+) C, x, y, types) = OfSale(B, x, y, types) + OfSale(C, x, y, types)
    <2> DEFINE P(o) == o.sale = x /\ o.product = y /\ o.type \in types
               S == {o \in BagToSet(B (+) C) : P(o)}
    <2>1. /\ S \cap BagToSet(B) = {o \in BagToSet(B) : P(o)}
          /\ S \cap BagToSet(C) = {o \in BagToSet(C) : P(o)}
          /\ S \in SUBSET BagToSet(B (+) C)
        BY <1>1
    <2>2. QED
        BY <2>1, TotalPlus DEF OfSale
<1>6. QED
    BY <1>2, <1>3, <1>4, <1>5

(* A batch no row names holds nothing by the ledger. *)
LEMMA NoRowOfBatch ==
    ASSUME NEW B, NEW b, \A o \in BagToSet(B) : o.batch # b
    PROVE  OfBatch(B, b) = 0
<1>1. {o \in BagToSet(B) : o.batch = b} = {}
    OBVIOUS
<1>2. QED
    BY <1>1, TotalNone DEF OfBatch

(* Rows that all name a batch add nothing to the rows older than batches. *)
LEMMA NoNullRow ==
    ASSUME NEW B, \A o \in BagToSet(B) : o.batch # None, NEW p
    PROVE  NullBucket(B, p) = 0
<1>1. {o \in BagToSet(B) : o.product = p /\ o.batch = None} = {}
    OBVIOUS
<1>2. QED
    BY <1>1, TotalNone DEF NullBucket

(* Rows that differ form a ledger in which each is found once. *)
LEMMA SetBagGood ==
    ASSUME NEW S, IsFiniteSet(S), \A o \in S : o.qty \in Int
    PROVE  GoodBag(SetToBag(S)) /\ BagToSet(SetToBag(S)) = S
BY DEF GoodBag, SetToBag, BagToSet

(* The rows of a transaction, as a ledger of their own. *)
LEMMA SeqBag ==
    ASSUME NEW s, IsFiniteSet(DOMAIN s)
    PROVE  /\ BagToSet(ToBag(s)) = ToSet(s)
           /\ IsFiniteSet(ToSet(s))
           /\ \A o \in ToSet(s) : ToBag(s)[o] \in Nat
<1>1. BagToSet(ToBag(s)) = ToSet(s) /\ Range(s) = ToSet(s)
    BY DEF BagToSet, ToBag, ToSet, Range
<1>2. IsFiniteSet(ToSet(s))
    <2> DEFINE f == [i \in DOMAIN s |-> s[i]]
    <2>1. f \in Surjection(DOMAIN s, ToSet(s))
        BY DEF Surjection, ToSet
    <2> HIDE DEF f
    <2>2. QED
        BY <2>1, FS_Surjection
<1>3. ASSUME NEW o \in ToSet(s)
      PROVE  ToBag(s)[o] \in Nat
    <2>1. ToBag(s)[o] = Cardinality({i \in DOMAIN s : s[i] = o})
        BY <1>1 DEF ToBag
    <2>2. IsFiniteSet({i \in DOMAIN s : s[i] = o})
        BY FS_Subset
    <2>3. QED
        BY <2>1, <2>2, FS_CardinalityType
<1>4. QED
    BY <1>1, <1>2, <1>3

(* The order in which a merge writes its rows does not matter. *)
LEMMA SetSeqBag ==
    ASSUME NEW S, IsFiniteSet(S)
    PROVE  /\ ToBag(SetToSeq(S)) = SetToBag(S)
           /\ ToSet(SetToSeq(S)) = S
<1> DEFINE n == Cardinality(S)
           s == SetToSeq(S)
<1>1. n \in Nat /\ ExistsBijection(1..n, S)
    BY FS_CardinalityType
<1>2. \E f \in [1..n -> S] : IsInjective(f)
    BY <1>1 DEF ExistsBijection, Bijection, Injection
<1>3. s \in [1..n -> S] /\ IsInjective(s)
    BY <1>2 DEF SetToSeq
<1> HIDE DEF s
<1>4. s \in Injection(1..n, S)
    BY <1>3 DEF Injection
<1>5. Cardinality(1..n) = n
    BY <1>1, FS_Interval
<1>6. s \in Surjection(1..n, S)
    BY <1>1, <1>4, <1>5, FS_Injection
<1>7. ToSet(s) = S
    BY <1>6 DEF ToSet, Surjection
<1>8. DOMAIN ToBag(s) = S
    BY <1>7 DEF ToBag, ToSet, Range
<1>9. ASSUME NEW x \in S
      PROVE  ToBag(s)[x] = 1
    <2>1. PICK i \in 1..n : s[i] = x
        BY <1>6 DEF Surjection
    <2>2. {j \in DOMAIN s : s[j] = x} = {i}
        BY <1>3, <2>1 DEF IsInjective
    <2>3. ToBag(s)[x] = Cardinality({j \in DOMAIN s : s[j] = x})
        BY <1>8 DEF ToBag
    <2>4. QED
        BY <2>2, <2>3, FS_Singleton
<1>10. ToBag(s) = SetToBag(S)
    <2>1. ToBag(s) = [x \in DOMAIN ToBag(s) |-> ToBag(s)[x]]
        BY DEF ToBag
    <2>2. QED
        BY <1>8, <1>9, <2>1 DEF SetToBag
<1>11. QED
    BY <1>7, <1>10 DEF s

(* A transaction of one row. *)
LEMMA RowBag ==
    ASSUME NEW r
    PROVE  ToBag(<<r>>) = SetToBag({r}) /\ ToSet(<<r>>) = {r}
<1>1. ToSet(<<r>>) = {r} /\ DOMAIN <<r>> = {1} /\ <<r>>[1] = r
    BY DEF ToSet
<1>2. DOMAIN ToBag(<<r>>) = {r}
    BY <1>1 DEF ToBag, ToSet, Range
<1>3. ToBag(<<r>>)[r] = 1
    <2>1. {i \in DOMAIN <<r>> : <<r>>[i] = r} = {1}
        BY <1>1
    <2>2. ToBag(<<r>>)[r] = Cardinality({i \in DOMAIN <<r>> : <<r>>[i] = r})
        BY <1>2 DEF ToBag
    <2>3. QED
        BY <2>1, <2>2, FS_Singleton
<1>4. ToBag(<<r>>) = [x \in {r} |-> ToBag(<<r>>)[x]]
    BY <1>2 DEF ToBag
<1>5. QED
    BY <1>1, <1>3, <1>4 DEF SetToBag

(* A transaction of two rows (a transfer). *)
LEMMA RowsBag ==
    ASSUME NEW r, NEW q, r # q
    PROVE  ToBag(<<r, q>>) = SetToBag({r, q}) /\ ToSet(<<r, q>>) = {r, q}
<1> DEFINE s == <<r, q>>
<1>1. ToSet(s) = {r, q} /\ DOMAIN s = {1, 2} /\ s[1] = r /\ s[2] = q
    BY DEF ToSet
<1>2. DOMAIN ToBag(s) = {r, q}
    BY <1>1 DEF ToBag, ToSet, Range
<1>3. ToBag(s)[r] = 1 /\ ToBag(s)[q] = 1
    <2>1. {i \in DOMAIN s : s[i] = r} = {1} /\ {i \in DOMAIN s : s[i] = q} = {2}
        BY <1>1
    <2>2. \A x \in {r, q} : ToBag(s)[x] = Cardinality({i \in DOMAIN s : s[i] = x})
        BY <1>2 DEF ToBag
    <2> HIDE DEF s
    <2>3. QED
        BY <2>1, <2>2, FS_Singleton
<1>4. ToBag(s) = [x \in {r, q} |-> ToBag(s)[x]]
    BY <1>2 DEF ToBag
<1> HIDE DEF s
<1>5. QED
    BY <1>1, <1>3, <1>4 DEF SetToBag, s

(* What a row says of a batch and of a sale, when it stands alone. *)
LEMMA RowSums ==
    ASSUME NEW r, r.qty \in Int, NEW b, NEW s, NEW p, NEW types
    PROVE  /\ OfBatch(SetToBag({r}), b) = IF r.batch = b THEN r.qty ELSE 0
           /\ OfSale(SetToBag({r}), s, p, types)
                 = IF r.sale = s /\ r.product = p /\ r.type \in types THEN r.qty ELSE 0
<1> DEFINE B == SetToBag({r})
<1>1. Total(B, {r}) = r.qty
    <2> DEFINE f == [o \in {r} |-> o.qty * B[o]]
    <2>1. f[r] = r.qty
        BY DEF SetToBag
    <2>2. Total(B, {r}) = SumFunctionOnSet(f, {r})
        BY DEF Total
    <2> HIDE DEF f
    <2>3. QED
        BY <2>1, <2>2, SumOne
<1>2. Total(B, {}) = 0
    BY TotalNone
<1>3. BagToSet(B) = {r}
    BY DEF BagToSet, SetToBag
<1> HIDE DEF B
<1>4. OfBatch(B, b) = IF r.batch = b THEN r.qty ELSE 0
    <2>1. {o \in {r} : o.batch = b} = IF r.batch = b THEN {r} ELSE {}
        OBVIOUS
    <2>2. QED
        BY <1>1, <1>2, <1>3, <2>1 DEF OfBatch
<1>5. OfSale(B, s, p, types)
         = IF r.sale = s /\ r.product = p /\ r.type \in types THEN r.qty ELSE 0
    <2>1. {o \in {r} : o.sale = s /\ o.product = p /\ o.type \in types}
             = IF r.sale = s /\ r.product = p /\ r.type \in types THEN {r} ELSE {}
        OBVIOUS
    <2>2. QED
        BY <1>1, <1>2, <1>3, <2>1 DEF OfSale
<1>6. QED
    BY <1>4, <1>5 DEF B

-----------------------------------------------------------------------------
(* What a transaction does to the sums and to the batches *)

(* The rows of the table of batches. *)
BatchRecord == [product : Product, warehouse : Warehouse, legacy : BOOLEAN, quantity : Int]

(* Every row of C names a product and, when it names a batch, one of held  *)
(* that is of the same product.                                            *)
Fits(C, held) ==
    /\ GoodBag(C)
    /\ \A o \in BagToSet(C) :
          /\ o.product \in Product
          /\ o.batch # None => o.batch \in DOMAIN held /\ held[o.batch].product = o.product

(* Rows that all name a batch, as every request of this server writes      *)
(* them.                                                                   *)
Batched(C) == \A o \in BagToSet(C) : o.batch # None

(* Rows that fit the batches fit them together. *)
LEMMA PlusFits ==
    ASSUME NEW B, NEW C, NEW held, Fits(B, held), Fits(C, held)
    PROVE  Fits(B (+) C, held)
BY PlusGood DEF Fits

(* The batches that are there and the new ones. *)
LEMMA WithIs ==
    ASSUME NEW held, NEW births
    PROVE  /\ DOMAIN With(held, births) = DOMAIN held \cup DOMAIN births
           /\ \A b \in DOMAIN held : With(held, births)[b] = held[b]
           /\ \A b \in DOMAIN births : b \notin DOMAIN held => With(held, births)[b] = births[b]
BY DEF With

(* Increments change the cached quantities and nothing else. *)
LEMMA HeldIs ==
    ASSUME NEW held, NEW C, \A b \in DOMAIN held : held[b] \in BatchRecord
    PROVE  /\ DOMAIN HeldAfter(held, C) = DOMAIN held
           /\ \A b \in DOMAIN held :
                 /\ HeldAfter(held, C)[b].product = held[b].product
                 /\ HeldAfter(held, C)[b].warehouse = held[b].warehouse
                 /\ HeldAfter(held, C)[b].legacy = held[b].legacy
                 /\ HeldAfter(held, C)[b].quantity = held[b].quantity + OfBatch(C, b)
BY DEF HeldAfter, BatchRecord

(* The rows of a product are those of its batches. *)
LEMMA StockOfBatches ==
    ASSUME NEW C, NEW held, Fits(C, held), Batched(C), IsFiniteSet(DOMAIN held),
           NEW p, NEW g, \A b \in Own(held, p) : g[b] = OfBatch(C, b)
    PROVE  ComputeStock(C, p) = SumFunctionOnSet(g, Own(held, p))
<1> DEFINE S == {o \in BagToSet(C) : o.product = p}
           f == [o \in S |-> o.qty * C[o]]
           key == [o \in S |-> o.batch]
           K == Own(held, p)
           rows == [b \in K |-> {o \in S : key[o] = b}]
<1>1. GoodBag(C) /\ S \in SUBSET BagToSet(C)
    BY DEF Fits
<1>2. ComputeStock(C, p) = SumFunctionOnSet(f, S)
    BY DEF ComputeStock, Total
<1>3. IsFiniteSet(S) /\ Ints(f, S)
    <2>1. \A o \in S : f[o] = o.qty * C[o]
        OBVIOUS
    <2> HIDE DEF f, S
    <2>2. QED
        BY <1>1, <2>1, TotalIs
<1>4. IsFiniteSet(K)
    BY FS_Subset DEF Own
<1>5. key \in [S -> K]
    BY DEF Own, Fits, Batched
<1>6. ASSUME NEW b \in K
      PROVE  g[b] = SumFunctionOnSet(f, rows[b])
    <2> DEFINE T == {o \in BagToSet(C) : o.batch = b}
    <2>1. b # None \/ T = {}
        BY DEF Batched
    <2>2. rows[b] = T
        BY DEF Own, Fits, Batched
    <2>3. T \in SUBSET BagToSet(C) /\ \A o \in T : f[o] = o.qty * C[o]
        BY <2>2
    <2>4. OfBatch(C, b) = Total(C, T)
        BY DEF OfBatch
    <2> HIDE DEF f, S, T, key, rows
    <2>5. Total(C, T) = SumFunctionOnSet(f, T)
        BY <1>1, <2>3, TotalIs
    <2>6. QED
        BY <2>2, <2>4, <2>5
<1>7. \A b \in K : \A o : o \in rows[b] <=> o \in S /\ key[o] = b
    OBVIOUS
<1> HIDE DEF S, f, key, K, rows
<1>8. SumFunctionOnSet(f, S) = SumFunctionOnSet(g, K)
    BY <1>3, <1>4, <1>5, <1>6, <1>7, SumSplit
<1>9. QED
    BY <1>2, <1>8 DEF K

(* New batches of a plan: empty ones, and a legacy batch only for a        *)
(* product whose rows older than batches add up to nothing.                *)
Newborn(births, B) ==
    \A b \in DOMAIN births :
        /\ births[b] \in BatchRecord
        /\ births[b].quantity = 0
        /\ births[b].legacy => NullBucket(B, births[b].product) = 0

(* What a transaction changes of what a batch is computed to hold. *)
LEMMA BatchAfter ==
    ASSUME NEW B, NEW held, Fits(B, held), NEW C, GoodBag(C), Batched(C),
           \A b \in DOMAIN held : held[b] \in BatchRecord /\ b # None,
           NEW births, DOMAIN births \cap DOMAIN held = {}, Newborn(births, B),
           \A b \in DOMAIN births : b # None,
           NEW b \in DOMAIN held \cup DOMAIN births
    PROVE  /\ ComputeBatchStock(B (+) C, HeldAfter(With(held, births), C), b)
                 = (IF b \in DOMAIN held THEN ComputeBatchStock(B, held, b) ELSE 0)
                   + OfBatch(C, b)
           /\ OfBatch(C, b) \in Int
           /\ b \in DOMAIN held => ComputeBatchStock(B, held, b) \in Int
<1> DEFINE N == With(held, births)
           H == HeldAfter(N, C)
<1>1. b \in DOMAIN N /\ \A x \in DOMAIN N : N[x] \in BatchRecord
    BY DEF With, Newborn
<1>2. H[b].legacy = N[b].legacy /\ H[b].product = N[b].product
    <2> HIDE DEF N
    <2>1. QED
        BY <1>1, HeldIs
<1>3. GoodBag(B)
    BY DEF Fits
<1>4. /\ OfBatch(B (+) C, b) = OfBatch(B, b) + OfBatch(C, b)
      /\ \A p : NullBucket(B (+) C, p) = NullBucket(B, p)
      /\ OfBatch(B, b) \in Int /\ OfBatch(C, b) \in Int
      /\ \A p : NullBucket(B, p) \in Int
    <2>1. \A p : NullBucket(C, p) = 0
        BY NoNullRow DEF Batched
    <2>2. \A p : NullBucket(B, p) \in Int
        BY <1>3, SumsAreInts
    <2>3. \A p : NullBucket(B (+) C, p) = NullBucket(B, p) + NullBucket(C, p)
        BY <1>3, SumsPlus
    <2>4. \A p : NullBucket(B (+) C, p) = NullBucket(B, p)
        BY <2>1, <2>2, <2>3
    <2>5. QED
        BY <1>3, <2>2, <2>4, SumsPlus, SumsAreInts
<1>5. CASE b \in DOMAIN held
    <2>1. N[b] = held[b]
        BY <1>5 DEF With
    <2> HIDE DEF N, H
    <2>2. ComputeBatchStock(B (+) C, H, b)
             = OfBatch(B (+) C, b) + (IF held[b].legacy THEN NullBucket(B, held[b].product) ELSE 0)
        BY <1>2, <1>4, <2>1 DEF ComputeBatchStock
    <2>3. ComputeBatchStock(B, held, b)
             = OfBatch(B, b) + (IF held[b].legacy THEN NullBucket(B, held[b].product) ELSE 0)
        BY DEF ComputeBatchStock
    <2>4. ComputeBatchStock(B, held, b) \in Int
        BY <1>4, <2>3
    <2>5. ComputeBatchStock(B (+) C, H, b) = ComputeBatchStock(B, held, b) + OfBatch(C, b)
        BY <1>4, <2>2, <2>3
    <2>6. QED
        BY <1>4, <1>5, <2>4, <2>5 DEF N, H
<1>6. CASE b \notin DOMAIN held
    <2>1. b \in DOMAIN births /\ N[b] = births[b]
        <3>1. \A x \in DOMAIN births : N[x] = births[x]
            BY DEF With
        <3> HIDE DEF N
        <3>2. QED
            BY <1>6, <3>1
    <2>2. OfBatch(B, b) = 0
        <3>1. \A o \in BagToSet(B) : o.batch # b
            BY <1>6, <2>1 DEF Fits
        <3>2. QED
            BY <3>1, NoRowOfBatch
    <2> HIDE DEF N, H
    <2>3. H[b].legacy => NullBucket(B, H[b].product) = 0
        BY <1>2, <2>1 DEF Newborn
    <2>4. ComputeBatchStock(B (+) C, H, b) = OfBatch(C, b)
        BY <1>4, <2>2, <2>3 DEF ComputeBatchStock
    <2>5. QED
        BY <1>4, <1>6, <2>4 DEF N, H
<1>7. QED
    BY <1>5, <1>6

(* A transaction keeps a ledger that balances balanced. *)
LEMMA KeepsBalance ==
    ASSUME NEW B, NEW held, Fits(B, held), IsFiniteSet(DOMAIN held), Balanced(B, held),
           \A b \in DOMAIN held : held[b] \in BatchRecord /\ b # None,
           NEW births, DOMAIN births \cap DOMAIN held = {}, Newborn(births, B),
           IsFiniteSet(DOMAIN births), \A b \in DOMAIN births : b # None,
           NEW C, Fits(C, With(held, births)), Batched(C)
    PROVE  Balanced(B (+) C, HeldAfter(With(held, births), C))
<1> DEFINE N == With(held, births)
           H == HeldAfter(N, C)
<1>1. GoodBag(B) /\ GoodBag(C) /\ DOMAIN N = DOMAIN held \cup DOMAIN births
    BY DEF With, Fits
<1>0. /\ \A b \in DOMAIN held : N[b] = held[b]
      /\ \A b \in DOMAIN births : b \notin DOMAIN held /\ N[b] = births[b]
    BY DEF With
<1>2. \A b \in DOMAIN N : N[b] \in BatchRecord
    <2> HIDE DEF N
    <2>1. QED
        BY <1>0, <1>1 DEF Newborn
<1>3. /\ DOMAIN H = DOMAIN N
      /\ \A b \in DOMAIN N : H[b].product = N[b].product /\ H[b].legacy = N[b].legacy
    <2> HIDE DEF N
    <2>1. QED
        BY <1>2, HeldIs
<1> SUFFICES ASSUME NEW p \in Product
             PROVE  ComputeStock(B (+) C, p) =
                       SumFunctionOnSet([b \in Own(H, p) |-> ComputeBatchStock(B (+) C, H, b)],
                                        Own(H, p))
                       + (IF \E b \in Own(H, p) : H[b].legacy THEN 0
                          ELSE NullBucket(B (+) C, p))
    BY DEF Balanced
<1> DEFINE O == Own(held, p)
           R == {b \in DOMAIN births : births[b].product = p}
           f == [b \in O \cup R |-> IF b \in DOMAIN held THEN ComputeBatchStock(B, held, b) ELSE 0]
           g == [b \in O \cup R |-> OfBatch(C, b)]
           h == [b \in Own(H, p) |-> ComputeBatchStock(B (+) C, H, b)]
           k == [b \in O |-> ComputeBatchStock(B, held, b)]
<1>4. Own(H, p) = O \cup R /\ Own(N, p) = O \cup R
    <2> HIDE DEF N, H
    <2>1. QED
        BY <1>0, <1>1, <1>3 DEF Own
<1>5. /\ O \subseteq DOMAIN held /\ R \subseteq DOMAIN births /\ O \cap R = {}
      /\ IsFiniteSet(O) /\ IsFiniteSet(R) /\ IsFiniteSet(O \cup R)
    BY FS_Subset, FS_Union DEF Own
<1>6. ASSUME NEW b \in O \cup R
      PROVE  /\ h[b] = f[b] + g[b]
             /\ f[b] \in Int /\ g[b] \in Int
    <2>1. b \in DOMAIN held \cup DOMAIN births
        BY <1>5
    <2>2. /\ ComputeBatchStock(B (+) C, H, b)
                 = (IF b \in DOMAIN held THEN ComputeBatchStock(B, held, b) ELSE 0)
                   + OfBatch(C, b)
          /\ OfBatch(C, b) \in Int
          /\ b \in DOMAIN held => ComputeBatchStock(B, held, b) \in Int
        BY <1>1, <2>1, BatchAfter
    <2>3. /\ f[b] = (IF b \in DOMAIN held THEN ComputeBatchStock(B, held, b) ELSE 0)
          /\ g[b] = OfBatch(C, b)
        OBVIOUS
    <2>4. h[b] = ComputeBatchStock(B (+) C, H, b)
        BY <1>4
    <2> HIDE DEF H, O, R, f, g, h
    <2>5. QED
        BY <2>2, <2>3, <2>4
<1>7. SumFunctionOnSet(f, O) = SumFunctionOnSet(k, O)
    <2>1. \A b \in O : f[b] = k[b]
        BY <1>5
    <2>2. Ints(f, O)
        BY <1>6 DEF Ints
    <2> HIDE DEF f, k, O
    <2>3. QED
        BY <1>5, <2>1, <2>2, SumSame
<1>8. SumFunctionOnSet(f, R) = 0 /\ Ints(f, R)
    <2>1. \A b \in R : f[b] = 0
        BY <1>5
    <2> HIDE DEF f, R
    <2>2. QED
        BY <1>5, <2>1, SumZero DEF Ints
<1>9. SumFunctionOnSet(g, O \cup R) = ComputeStock(C, p)
    <2>1. \A b \in Own(N, p) : g[b] = OfBatch(C, b)
        BY <1>4
    <2>2. IsFiniteSet(DOMAIN N)
        BY <1>1, FS_Union
    <2> HIDE DEF g
    <2>3. ComputeStock(C, p) = SumFunctionOnSet(g, Own(N, p))
        BY <2>1, <2>2, StockOfBatches
    <2> HIDE DEF N, O, R
    <2>4. QED
        BY <1>4, <2>3
<1>10. /\ ComputeStock(B (+) C, p) = ComputeStock(B, p) + ComputeStock(C, p)
       /\ NullBucket(B (+) C, p) = NullBucket(B, p)
       /\ ComputeStock(B, p) \in Int /\ ComputeStock(C, p) \in Int /\ NullBucket(B, p) \in Int
    <2>1. NullBucket(C, p) = 0 /\ NullBucket(B, p) \in Int
        BY <1>1, SumsAreInts, NoNullRow DEF Batched
    <2>2. NullBucket(B (+) C, p) = NullBucket(B, p) + NullBucket(C, p)
        BY <1>1, SumsPlus
    <2>3. QED
        BY <1>1, <2>1, <2>2, SumsPlus, SumsAreInts
<1>11. ComputeStock(B, p) = SumFunctionOnSet(k, O)
                            + (IF \E b \in O : held[b].legacy THEN 0 ELSE NullBucket(B, p))
    BY DEF Balanced
<1>12. (IF \E b \in Own(H, p) : H[b].legacy THEN 0 ELSE NullBucket(B (+) C, p))
          = (IF \E b \in O : held[b].legacy THEN 0 ELSE NullBucket(B, p))
    <2>1. /\ \A b \in O : H[b].legacy = held[b].legacy
          /\ \A b \in R : H[b].legacy = births[b].legacy
        <3> HIDE DEF N, H
        <3>1. QED
            BY <1>0, <1>1, <1>3, <1>5
    <2>2. \A b \in R : H[b].legacy => NullBucket(B, p) = 0
        BY <2>1, <1>5 DEF Newborn
    <2> HIDE DEF H, O, R
    <2>3. QED
        BY <1>4, <1>10, <2>1, <2>2
<1> HIDE DEF f, g, h, k, O, R
<1>13. Ints(f, O) /\ Ints(f, O \cup R) /\ Ints(g, O \cup R)
    BY <1>6 DEF Ints
<1>14. SumFunctionOnSet(h, O \cup R) = SumFunctionOnSet(f, O \cup R) + SumFunctionOnSet(g, O \cup R)
    BY <1>5, <1>6, <1>13, SumBoth
<1>15. SumFunctionOnSet(f, O \cup R) = SumFunctionOnSet(f, O) + SumFunctionOnSet(f, R)
    BY <1>5, <1>8, <1>13, SumUnion
<1>16. SumFunctionOnSet(f, O) \in Int
    BY <1>5, <1>13, SumPick
<1>17. SumFunctionOnSet(h, Own(H, p)) = SumFunctionOnSet(h, O \cup R)
    BY <1>4, Zenon
<1>18. SumFunctionOnSet(h, Own(H, p)) = SumFunctionOnSet(k, O) + ComputeStock(C, p)
    BY <1>7, <1>8, <1>9, <1>14, <1>15, <1>16, <1>17, <1>10
<1>19. ComputeStock(B (+) C, p) = SumFunctionOnSet(h, Own(H, p))
                + (IF \E b \in Own(H, p) : H[b].legacy THEN 0 ELSE NullBucket(B (+) C, p))
    <2> DEFINE x == IF \E b \in O : held[b].legacy THEN 0 ELSE NullBucket(B, p)
    <2>1. x \in Int
        BY <1>10
    <2>2. SumFunctionOnSet(k, O) \in Int
        BY <1>7, <1>16
    <2>3. ComputeStock(B, p) = SumFunctionOnSet(k, O) + x
        BY <1>11
    <2> HIDE DEF x
    <2>4. ComputeStock(B (+) C, p) = SumFunctionOnSet(h, Own(H, p)) + x
        BY <1>10, <1>18, <2>1, <2>2, <2>3
    <2>5. QED
        BY <1>12, <2>4 DEF x
<1>20. QED
    BY <1>19 DEF h

-----------------------------------------------------------------------------
(* What the theorems assume of the constants, and the invariants *)

(* At most one request runs at a time. *)
OneAtATime == \A t, u \in Thread : t = u

(* No product was sold below zero before batches existed (migration 0008   *)
(* makes a legacy batch only for products with stock).                     *)
NobodyOversold == \A p \in Product : ComputeStock(ToBag(OldLedger), p) >= 0

(* The rows that other devices push are younger than batches. *)
PushesNameBatches == \A o \in Pushed : o.batch # None

(* Returns are booked on the server alone, and what was returned before    *)
(* the model begins is within what was sold (sold_qty counts the rows that *)
(* are here: a return pushed by another device is checked against the rows *)
(* there).                                                                 *)
ReturnsStayHome ==
    /\ \A o \in Pushed : o.type # "return" /\ (o.type = "sale" => o.qty <= 0)
    /\ \A o \in ToSet(OldLedger) :
          o.type = "return" => Returnable(ToBag(OldLedger), o.sale, o.product) >= 0

(* The ids a batch can have. *)
BatchIds == Batch \cup DOMAIN PushedBatch \cup {LegacyId[p] : p \in Product}

(* The batches are records under ids of their kind, and a batch that came  *)
(* or may come with a push is of the product the push says.                *)
BatchesFit ==
    /\ IsFiniteSet(DOMAIN batches)
    /\ DOMAIN batches \subseteq BatchIds
    /\ \A b \in DOMAIN batches : batches[b] \in BatchRecord
    /\ \A b \in DOMAIN batches \cap DOMAIN PushedBatch :
          batches[b].product = PushedBatch[b].product

(* A product whose rows older than batches add up to something has the     *)
(* legacy batch of migration 0008.                                         *)
SeedsStay ==
    \A p \in Product :
        NullBucket(ledger, p) # 0 =>
            LegacyId[p] \in Own(batches, p) /\ batches[LegacyId[p]].legacy

(* The request is about to write rows of its own, or to delete. *)
Writes(r) == r.kind \notin {"none", "merge"}

(* What a plan will write, batches to be created included, fits the ledger *)
(* B and the batches held: its rows name batches of their product that are *)
(* there or come with it, and those are new.                               *)
PlanFits(r, B, held) ==
    /\ DOMAIN r = DOMAIN NoRequest
    /\ DOMAIN r.births \subseteq Batch \ DOMAIN held /\ IsFiniteSet(DOMAIN r.births)
    /\ Newborn(r.births, B)
    /\ IsFiniteSet(DOMAIN r.ops) /\ Batched(ToBag(r.ops))
    /\ Fits(ToBag(r.ops), With(held, r.births))
    /\ r.kind = "delete" => r.drop \in Product \cup Warehouse

(* The plan is that of a merge of some pushed rows, computed from the      *)
(* ledger as it is now: nothing was written since the merge read it.       *)
Merges(r) == \E rows \in SUBSET Pushed : Mergeable(rows) /\ r = MergePlan(rows)

(* Each request's plan fits the ledger and the batches as they are now; no *)
(* two create the same batch, and at most one merge runs.                  *)
PlansFit ==
    /\ DOMAIN request = Thread
    /\ \A t \in Thread :
          /\ request[t].kind = "none" => request[t] = NoRequest
          /\ request[t].kind = "merge" => Merges(request[t])
          /\ Writes(request[t]) => PlanFits(request[t], ledger, batches)
    /\ \A t, u \in Thread :
          t # u =>
             /\ ~(request[t].kind = "merge" /\ request[u].kind = "merge")
             /\ Writes(request[t]) /\ Writes(request[u]) =>
                   DOMAIN request[t].births \cap DOMAIN request[u].births = {}

(* The inductive invariant behind LedgerHolds.  LedgerHolds says nothing   *)
(* of the plans of the requests under way, so it does not survive a commit *)
(* by itself: it takes PlansFit that a plan made of an older state still   *)
(* fits the present one.                                                   *)
IInv ==
    /\ stock \in [Product -> Int] /\ deleted \subseteq Product \cup Warehouse
    /\ Fits(ledger, batches)
    /\ BatchesFit
    /\ SeedsStay
    /\ Projection
    /\ Rebuildable
    /\ PlansFit

(* An unconfirmed removal is still covered by the stock. *)
StillCovered(r) ==
    ~r.confirm =>
        \A o \in ToSet(r.ops) :
            o.qty < 0 =>
                /\ o.batch \in DOMAIN batches
                /\ batches[o.batch].quantity + OfBatch(ToBag(r.ops), o.batch) >= 0

(* A correction by count still starts from the quantity that is there. *)
StillCounts(r) ==
    r.counted # None =>
        \E b \in DOMAIN batches :
            /\ r.counted \in Int /\ r.births = << >>
            /\ r.ops = <<Op("correction", batches[b].product,
                            r.counted - batches[b].quantity, b, None)>>

(* A return is one row and still within what was sold; no other request    *)
(* writes a row of a return or sells a negative quantity.                  *)
StillReturnable(r) ==
    IF r.kind = "return"
    THEN \E o \in ToSet(r.ops) :
            /\ r.ops = <<o>> /\ o.type = "return"
            /\ o.qty <= Returnable(ledger, o.sale, o.product)
    ELSE \A o \in ToSet(r.ops) : o.type # "return" /\ (o.type = "sale" => o.qty <= 0)

(* What the request was checked against still holds. *)
Still(r) == StillCovered(r) /\ StillCounts(r) /\ StillReturnable(r)

(* No plan is stale: what one request at a time adds to IInv. *)
AloneInv == \A t \in Thread : Writes(request[t]) => Still(request[t])

-----------------------------------------------------------------------------
(* The initial state *)

(* The inductive invariant gives the type invariant, Projection and        *)
(* Rebuildable.                                                            *)
LEMMA InvGivesLedgerHolds == IInv => LedgerHolds
<1> SUFFICES ASSUME IInv PROVE LedgerHolds
    OBVIOUS
<1>1. Projection /\ Rebuildable
    BY DEF IInv
<1>2. \A t \in Thread : DOMAIN NoRequest \subseteq DOMAIN request[t]
    <2>1. ASSUME NEW t \in Thread
          PROVE  DOMAIN NoRequest \subseteq DOMAIN request[t]
        <3>1. CASE request[t].kind = "none"
            BY <3>1 DEF IInv, PlansFit
        <3>2. CASE request[t].kind = "merge"
            <4>1. PICK rows : request[t] = MergePlan(rows)
                BY <3>2 DEF IInv, PlansFit, Merges
            <4>2. DOMAIN MergePlan(rows) = DOMAIN NoRequest
                BY DEF MergePlan, Plan
            <4>3. QED
                BY <4>1, <4>2
        <3>3. CASE Writes(request[t])
            BY <3>3 DEF IInv, PlansFit, PlanFits
        <3>4. QED
            BY <3>1, <3>2, <3>3 DEF Writes
    <2>2. QED
        BY <2>1
<1>3. TypeOK
    BY <1>2 DEF IInv, TypeOK, Fits, BatchesFit, BatchIds, BatchRecord
<1>4. QED
    BY <1>1, <1>3 DEF LedgerHolds

(* The rows the database starts with are a ledger whose rows name no       *)
(* batch.                                                                  *)
LEMMA OldBag ==
    /\ GoodBag(ToBag(OldLedger))
    /\ BagToSet(ToBag(OldLedger)) = ToSet(OldLedger)
    /\ \A o \in ToSet(OldLedger) : o.product \in Product /\ o.batch = None
    /\ \A p \in Product : NullBucket(ToBag(OldLedger), p) = ComputeStock(ToBag(OldLedger), p)
<1>1. IsFiniteSet(DOMAIN OldLedger)
    <2>1. DOMAIN OldLedger = 1..Len(OldLedger) /\ Len(OldLedger) \in Nat
        BY OldRows
    <2>2. QED
        BY <2>1, FS_Interval
<1>2. /\ BagToSet(ToBag(OldLedger)) = ToSet(OldLedger)
      /\ GoodBag(ToBag(OldLedger))
    BY <1>1, SeqBag, OldRows DEF GoodBag
<1>3. ASSUME NEW p \in Product
      PROVE  NullBucket(ToBag(OldLedger), p) = ComputeStock(ToBag(OldLedger), p)
    <2>1. {o \in BagToSet(ToBag(OldLedger)) : o.product = p /\ o.batch = None}
             = {o \in BagToSet(ToBag(OldLedger)) : o.product = p}
        BY <1>2, OldRows
    <2>2. QED
        BY <2>1, Zenon DEF NullBucket, ComputeStock
<1>4. QED
    BY <1>2, <1>3, OldRows

(* Migration 0008 leaves a database in which cached quantities and ledger  *)
(* agree and the rows without a batch have a legacy one.                   *)
LEMMA InitInv ==
    ASSUME NobodyOversold, Init
    PROVE  IInv
<1> DEFINE B == ToBag(OldLedger)
           seeded == {p \in Product : ComputeStock(B, p) > 0}
<1>1. /\ ledger = B /\ deleted = {}
      /\ stock = [p \in Product |-> ComputeStock(B, p)]
      /\ request = [t \in Thread |-> NoRequest]
      /\ batches = Seeded
    BY DEF Init
<1>2. \A p \in Product : ComputeStock(B, p) \in Int /\ ComputeStock(B, p) >= 0
    BY OldBag, SumsAreInts DEF NobodyOversold
<1>3. DOMAIN Seeded = {LegacyId[p] : p \in seeded}
    BY DEF Seeded
<1>4. ASSUME NEW p \in seeded
      PROVE  /\ LegacyId[p] \in DOMAIN Seeded
             /\ Seeded[LegacyId[p]].product = p /\ Seeded[LegacyId[p]].legacy
             /\ Seeded[LegacyId[p]].quantity = ComputeStock(B, p)
             /\ Seeded[LegacyId[p]] \in BatchRecord
    <2>1. (CHOOSE q \in Product : LegacyId[q] = LegacyId[p]) = p
        BY Ids
    <2>2. Seeded[LegacyId[p]] = [NewBatch(p, DefaultWarehouse, TRUE)
                                    EXCEPT !.quantity = ComputeStock(B, p)]
        BY <2>1 DEF Seeded
    <2>3. LegacyId[p] \in DOMAIN Seeded
        BY <1>3
    <2>5. p \in Product /\ ComputeStock(B, p) \in Int /\ DefaultWarehouse \in Warehouse
        BY <1>2, Ids
    <2> HIDE DEF B, seeded
    <2>4. /\ Seeded[LegacyId[p]] \in BatchRecord
          /\ Seeded[LegacyId[p]].product = p /\ Seeded[LegacyId[p]].legacy
          /\ Seeded[LegacyId[p]].quantity = ComputeStock(B, p)
        BY <2>2, <2>5 DEF NewBatch, BatchRecord
    <2>6. QED
        BY <2>3, <2>4
<1>5. \A b \in DOMAIN Seeded : \E p \in seeded : b = LegacyId[p] /\ Seeded[b].product = p
    BY <1>3, <1>4
<1>6. \A p \in Product :
         Own(Seeded, p) = IF ComputeStock(B, p) > 0 THEN {LegacyId[p]} ELSE {}
    <2> HIDE DEF B
    <2>1. QED
        BY <1>3, <1>4, <1>5 DEF Own
<1>7. Fits(ledger, batches)
    BY <1>1, OldBag DEF Fits
<1>8. BatchesFit
    <2>1. IsFiniteSet(DOMAIN Seeded)
        <3> DEFINE f == [p \in seeded |-> LegacyId[p]]
        <3>1. IsFiniteSet(seeded)
            BY Ids, FS_Subset
        <3>2. f \in Surjection(seeded, DOMAIN Seeded)
            BY <1>3 DEF Surjection
        <3> HIDE DEF f, seeded
        <3>3. QED
            BY <3>1, <3>2, FS_Surjection
    <2>2. /\ DOMAIN Seeded \subseteq BatchIds
          /\ \A b \in DOMAIN Seeded : Seeded[b] \in BatchRecord
        BY <1>4, <1>5 DEF BatchIds
    <2>3. \A b \in DOMAIN Seeded \cap DOMAIN PushedBatch :
             Seeded[b].product = PushedBatch[b].product
        BY <1>5, PushesFit
    <2>4. QED
        BY <1>1, <2>1, <2>2, <2>3 DEF BatchesFit
<1>9. SeedsStay
    <2>1. ASSUME NEW p \in Product, NullBucket(ledger, p) # 0
          PROVE  p \in seeded
        BY <1>1, <1>2, <2>1, OldBag
    <2>2. QED
        BY <1>1, <1>4, <2>1 DEF SeedsStay, Own
<1>10. ASSUME NEW p \in seeded
       PROVE  ComputeBatchStock(B, Seeded, LegacyId[p]) = ComputeStock(B, p)
    <2>1. OfBatch(B, LegacyId[p]) = 0
        <3>1. LegacyId[p] # None
            BY Ids
        <3>2. \A o \in BagToSet(B) : o.batch # LegacyId[p]
            BY <3>1, OldBag
        <3>3. QED
            BY <3>2, NoRowOfBatch
    <2>2. NullBucket(B, p) = ComputeStock(B, p) /\ ComputeStock(B, p) \in Int
        BY <1>2, OldBag
    <2> HIDE DEF B
    <2>3. ComputeBatchStock(B, Seeded, LegacyId[p]) = 0 + NullBucket(B, p)
        BY <1>4, <2>1 DEF ComputeBatchStock
    <2>4. QED
        BY <2>2, <2>3
<1>11. Projection
    <2>1. \A p \in Product : stock[p] = ComputeStock(ledger, p)
        BY <1>1
    <2>2. \A b \in DOMAIN batches : batches[b].quantity = ComputeBatchStock(ledger, batches, b)
        <3> HIDE DEF B
        <3>1. QED
            BY <1>1, <1>4, <1>5, <1>10
    <2>3. QED
        BY <2>1, <2>2 DEF Projection
<1>12. Balanced(B, Seeded)
    <2> SUFFICES ASSUME NEW p \in Product
                 PROVE  ComputeStock(B, p) =
                   SumFunctionOnSet([b \in Own(Seeded, p) |-> ComputeBatchStock(B, Seeded, b)],
                                    Own(Seeded, p))
                   + (IF \E b \in Own(Seeded, p) : Seeded[b].legacy THEN 0
                      ELSE NullBucket(B, p))
        BY DEF Balanced
    <2> DEFINE f == [b \in Own(Seeded, p) |-> ComputeBatchStock(B, Seeded, b)]
    <2>1. CASE ComputeStock(B, p) > 0
        <3>1. Own(Seeded, p) = {LegacyId[p]} /\ p \in seeded
            BY <1>6, <2>1
        <3>2. f[LegacyId[p]] = ComputeStock(B, p)
            BY <1>10, <3>1
        <3> HIDE DEF f
        <3>3. SumFunctionOnSet(f, {LegacyId[p]}) = ComputeStock(B, p)
            BY <1>2, <3>2, SumOne
        <3>4. \E b \in Own(Seeded, p) : Seeded[b].legacy
            BY <1>4, <3>1
        <3> HIDE DEF B, seeded
        <3>5. SumFunctionOnSet(f, Own(Seeded, p)) = ComputeStock(B, p)
            BY <3>1, <3>3, Zenon
        <3>6. QED
            BY <1>2, <3>4, <3>5 DEF f
    <2>2. CASE ~(ComputeStock(B, p) > 0)
        <3>1. Own(Seeded, p) = {} /\ ComputeStock(B, p) = 0
            BY <1>2, <1>6, <2>2
        <3>2. NullBucket(B, p) = 0
            BY <3>1, OldBag
        <3> HIDE DEF f
        <3>3. SumFunctionOnSet(f, Own(Seeded, p)) = 0
            BY <3>1, SumEmpty, Zenon
        <3> HIDE DEF B
        <3>4. QED
            BY <3>1, <3>2, <3>3 DEF f
    <2>3. QED
        BY <2>1, <2>2
<1>13. PlansFit
    <2>1. NoRequest.kind = "none"
        BY DEF NoRequest
    <2>2. QED
        BY <1>1, <2>1 DEF PlansFit, Writes
<1>14. stock \in [Product -> Int]
    BY <1>1, <1>2
<1>15. QED
    BY <1>1, <1>7, <1>8, <1>9, <1>11, <1>12, <1>13, <1>14 DEF IInv, Rebuildable

-----------------------------------------------------------------------------
(* Steps that write no row *)

(* The parts of a plan. *)
LEMMA PlanFields ==
    ASSUME NEW k, NEW o, NEW b, NEW c
    PROVE  /\ Plan(k, o, b, c).kind = k /\ Plan(k, o, b, c).ops = o
           /\ Plan(k, o, b, c).births = b /\ Plan(k, o, b, c).confirm = c
           /\ Plan(k, o, b, c).counted = None
           /\ DOMAIN Plan(k, o, b, c) = DOMAIN NoRequest
BY DEF Plan, NoRequest

(* A plan that request t may hold while the others hold theirs. *)
Admissible(t, plan) ==
    \/ plan = NoRequest
    \/ /\ Writes(plan) /\ PlanFits(plan, ledger, batches)
       /\ \A u \in Thread \ {t} : DOMAIN plan.births \cap DOMAIN request[u].births = {}
    \/ /\ plan.kind = "merge" /\ Merges(plan)
       /\ \A u \in Thread \ {t} : request[u].kind # "merge"

(* The plan of a merge stays what it is while nothing that it read         *)
(* changes.                                                                *)
LEMMA SameMerges ==
    ASSUME UNCHANGED <<ledger, batches, stock>>, NEW r, Merges(r)
    PROVE  Merges(r)'
<1>1. PICK rows \in SUBSET Pushed : Mergeable(rows) /\ r = MergePlan(rows)
    BY DEF Merges
<1>2. Mergeable(rows)'
    BY <1>1 DEF Mergeable, Arriving, Grown, Gathered
<1>3. MergePlan(rows)' = MergePlan(rows)
    BY DEF MergePlan, Arriving, Grown, Gathered, Recomputed
<1>4. QED
    BY <1>1, <1>2, <1>3 DEF Merges

(* A step that changes only the plan of one thread, to one that is         *)
(* admissible, keeps the invariant.                                        *)
LEMMA Planned ==
    ASSUME IInv, UNCHANGED <<ledger, batches, stock>>,
           deleted' \subseteq Product \cup Warehouse,
           NEW t \in Thread, NEW plan, Admissible(t, plan),
           \/ request' = [request EXCEPT ![t] = plan]
           \/ request' = request /\ plan = request[t]
    PROVE  IInv'
<1>1. /\ DOMAIN request' = Thread /\ request'[t] = plan
      /\ \A u \in Thread \ {t} : request'[u] = request[u]
    BY DEF IInv, PlansFit
<1>2. /\ (stock \in [Product -> Int])' /\ (deleted \subseteq Product \cup Warehouse)'
      /\ Fits(ledger, batches)' /\ BatchesFit' /\ SeedsStay' /\ Projection' /\ Rebuildable'
    BY DEF IInv, BatchesFit, SeedsStay, Projection, Rebuildable
<1>3. NoRequest.kind = "none" /\ NoRequest.births = << >>
    BY DEF NoRequest
<1>4. ASSUME NEW u \in Thread
      PROVE  /\ (request[u].kind = "none" => request[u] = NoRequest)'
             /\ (request[u].kind = "merge" => Merges(request[u]))'
             /\ (Writes(request[u]) => PlanFits(request[u], ledger, batches))'
    <2>1. CASE u = t
        <3>1. CASE plan = NoRequest
            BY <1>1, <1>3, <2>1, <3>1 DEF Writes
        <3>2. CASE Writes(plan) /\ PlanFits(plan, ledger, batches)
            BY <1>1, <2>1, <3>2 DEF Writes
        <3>3. CASE plan.kind = "merge" /\ Merges(plan)
            <4>1. Merges(plan)'
                BY <3>3, SameMerges
            <4>2. Merges(request[u])'
                BY <1>1, <2>1, <4>1 DEF Merges
            <4>3. QED
                BY <1>1, <2>1, <3>3, <4>2 DEF Writes
        <3>4. QED
            BY <3>1, <3>2, <3>3 DEF Admissible
    <2>2. CASE u # t
        <3>1. request'[u] = request[u]
            BY <1>1, <2>2
        <3>2. /\ request[u].kind = "none" => request[u] = NoRequest
              /\ request[u].kind = "merge" => Merges(request[u])
              /\ Writes(request[u]) => PlanFits(request[u], ledger, batches)
            BY DEF IInv, PlansFit
        <3>3. request[u].kind = "merge" => Merges(request[u])'
            <4>1. SUFFICES ASSUME request[u].kind = "merge" PROVE Merges(request[u])'
                OBVIOUS
            <4>2. PICK r : r = request[u]
                OBVIOUS
            <4>3. Merges(r)
                BY <3>2, <4>1, <4>2 DEF Merges
            <4>4. Merges(r)'
                BY <4>3, SameMerges
            <4>5. QED
                BY <3>1, <4>2, <4>4 DEF Merges
        <3>4. QED
            BY <3>1, <3>2, <3>3 DEF Writes
    <2>3. QED
        BY <2>1, <2>2
<1>5. ASSUME NEW u \in Thread, NEW v \in Thread, u # v
      PROVE  (/\ ~(request[u].kind = "merge" /\ request[v].kind = "merge")
              /\ Writes(request[u]) /\ Writes(request[v]) =>
                    DOMAIN request[u].births \cap DOMAIN request[v].births = {})'
    <2>1. /\ ~(request[u].kind = "merge" /\ request[v].kind = "merge")
          /\ Writes(request[u]) /\ Writes(request[v]) =>
                DOMAIN request[u].births \cap DOMAIN request[v].births = {}
        BY <1>5 DEF IInv, PlansFit
    <2>2. CASE u # t /\ v # t
        BY <1>1, <2>1, <2>2 DEF Writes
    <2>3. CASE u = t \/ v = t
        <3>1. CASE plan = NoRequest
            BY <1>1, <1>3, <2>3, <3>1 DEF Writes
        <3>2. CASE /\ Writes(plan)
                   /\ \A x \in Thread \ {t} :
                         DOMAIN plan.births \cap DOMAIN request[x].births = {}
            BY <1>1, <1>5, <2>3, <3>2 DEF Writes
        <3>3. CASE /\ plan.kind = "merge"
                   /\ \A x \in Thread \ {t} : request[x].kind # "merge"
            BY <1>1, <1>5, <2>3, <3>3 DEF Writes
        <3>4. QED
            BY <3>1, <3>2, <3>3 DEF Admissible
    <2>4. QED
        BY <2>2, <2>3
<1>6. PlansFit'
    BY <1>1, <1>4, <1>5 DEF PlansFit
<1>7. QED
    BY <1>2, <1>6 DEF IInv

(* Nothing but deleted_at and the thread's own plan changes. *)
LEMMA QuietSteps ==
    ASSUME IInv, NEW t \in Thread,
           \/ Delete(t) \/ Fail(t)
           \/ \E p \in Product : SoftDelete(t, p)
           \/ \E x \in Product \cup Warehouse : RestoreDeleted(t, x)
    PROVE  IInv'
<1>1. /\ UNCHANGED <<ledger, batches, stock>>
      /\ \/ request' = [request EXCEPT ![t] = NoRequest]
         \/ request' = request /\ request[t] = NoRequest
    <2>1. CASE Delete(t) \/ Fail(t)
        BY <2>1 DEF Delete, Fail, Done
    <2>2. CASE \/ \E p \in Product : SoftDelete(t, p)
               \/ \E x \in Product \cup Warehouse : RestoreDeleted(t, x)
        <3>1. UNCHANGED <<ledger, batches, stock, request>> /\ request[t].kind = "none"
            BY <2>2 DEF SoftDelete, RestoreDeleted, Idle
        <3>2. request[t] = NoRequest
            BY <3>1 DEF IInv, PlansFit
        <3>3. QED
            BY <3>1, <3>2
    <2>3. QED
        BY <2>1, <2>2
<1>2. deleted' \subseteq Product \cup Warehouse
    <2>1. deleted \subseteq Product \cup Warehouse
        BY DEF IInv
    <2>2. CASE Delete(t)
        <3>1. Writes(request[t]) /\ request[t].kind = "delete"
            BY <2>2 DEF Delete, Writes
        <3>2. request[t].drop \in Product \cup Warehouse
            BY <3>1 DEF IInv, PlansFit, PlanFits
        <3>3. QED
            BY <2>1, <2>2, <3>2 DEF Delete
    <2>3. QED
        BY <2>1, <2>2 DEF Fail, SoftDelete, RestoreDeleted
<1>3. PICK plan : plan = NoRequest
    OBVIOUS
<1>4. Admissible(t, plan)
    BY <1>3 DEF Admissible
<1>5. QED
    BY <1>1, <1>2, <1>3, <1>4, Planned

-----------------------------------------------------------------------------
(* The first half of a request *)

(* A plan that fits and whose checks have just succeeded. *)
SoundPlan(plan) ==
    /\ Writes(plan)
    /\ PlanFits(plan, ledger, batches)
    /\ DOMAIN plan.births \subseteq FreshBatch
    /\ Still(plan)

(* Rows, each of which names a batch of its product, fit the batches. *)
LEMMA RowsFit ==
    ASSUME NEW s, IsFiniteSet(DOMAIN s), NEW held,
           \A o \in ToSet(s) :
              /\ o.product \in Product /\ o.qty \in Int /\ o.batch # None
              /\ o.batch \in DOMAIN held /\ held[o.batch].product = o.product
    PROVE  Fits(ToBag(s), held) /\ Batched(ToBag(s))
BY SeqBag DEF Fits, Batched, GoodBag

(* An id of a batch is neither NULL nor an id of a product. *)
LEMMA BatchIdsApart ==
    ASSUME IInv
    PROVE  /\ None \notin DOMAIN batches /\ None \notin Batch
           /\ DOMAIN batches \cap Product = {}
           /\ DOMAIN PushedBatch \cap Product = {}
BY Ids DEF IInv, BatchesFit, BatchIds

(* What a plan needs to fit, read off its parts. *)
LEMMA PlanIsFit ==
    ASSUME IInv, NEW plan, DOMAIN plan = DOMAIN NoRequest,
           plan.kind \notin {"none", "merge", "delete"},
           IsFiniteSet(DOMAIN plan.ops),
           DOMAIN plan.births \subseteq FreshBatch, IsFiniteSet(DOMAIN plan.births),
           Newborn(plan.births, ledger),
           \A o \in ToSet(plan.ops) :
              /\ o.product \in Product /\ o.qty \in Int
              /\ \/ o.batch \in DOMAIN batches /\ batches[o.batch].product = o.product
                 \/ o.batch \in DOMAIN plan.births /\ plan.births[o.batch].product = o.product
    PROVE  Writes(plan) /\ PlanFits(plan, ledger, batches)
<1> DEFINE births == plan.births
           ops == plan.ops
<1>1. /\ DOMAIN births \subseteq Batch \ DOMAIN batches
      /\ None \notin DOMAIN batches /\ None \notin DOMAIN births
    BY BatchIdsApart DEF FreshBatch
<1>2. /\ \A b \in DOMAIN batches : b \in DOMAIN With(batches, births)
                                   /\ With(batches, births)[b] = batches[b]
      /\ \A b \in DOMAIN births : b \in DOMAIN With(batches, births)
                                   /\ With(batches, births)[b] = births[b]
    BY <1>1 DEF With
<1>3. \A o \in ToSet(ops) :
         /\ o.product \in Product /\ o.qty \in Int /\ o.batch # None
         /\ o.batch \in DOMAIN With(batches, births)
         /\ With(batches, births)[o.batch].product = o.product
    BY <1>1, <1>2
<1>4. Fits(ToBag(ops), With(batches, births)) /\ Batched(ToBag(ops))
    BY <1>3, RowsFit
<1>5. QED
    BY <1>1, <1>4 DEF Writes, PlanFits

(* A plan that creates no batch. *)
LEMMA NoBirths ==
    /\ IsFiniteSet(DOMAIN << >>) /\ DOMAIN << >> = {}
    /\ \A B : Newborn(<< >>, B)
BY FS_EmptySet DEF Newborn

(* A plan that creates one empty batch. *)
LEMMA OneBirth ==
    ASSUME NEW b, NEW batch \in BatchRecord, batch.quantity = 0, NEW B,
           batch.legacy => NullBucket(B, batch.product) = 0
    PROVE  /\ DOMAIN Born(b, batch) = {b} /\ Born(b, batch)[b] = batch
           /\ IsFiniteSet(DOMAIN Born(b, batch))
           /\ Newborn(Born(b, batch), B)
BY FS_Singleton DEF Born, Newborn

(* The new batch of a receipt, a transfer or a return; a return makes a    *)
(* legacy one only for a product whose rows older than batches add up to   *)
(* nothing.                                                                *)
LEMMA BornFits ==
    ASSUME NEW b \in FreshBatch, NEW p \in Product, NEW w \in Warehouse, NEW legacy \in BOOLEAN,
           legacy => NullBucket(ledger, p) = 0
    PROVE  /\ DOMAIN Born(b, NewBatch(p, w, legacy)) = {b}
           /\ DOMAIN Born(b, NewBatch(p, w, legacy)) \subseteq FreshBatch
           /\ b \in DOMAIN Born(b, NewBatch(p, w, legacy))
           /\ Born(b, NewBatch(p, w, legacy))[b].product = p
           /\ IsFiniteSet(DOMAIN Born(b, NewBatch(p, w, legacy)))
           /\ Newborn(Born(b, NewBatch(p, w, legacy)), ledger)
<1> DEFINE batch == NewBatch(p, w, legacy)
<1>1. /\ batch \in BatchRecord /\ batch.quantity = 0
      /\ batch.legacy = legacy /\ batch.product = p
    BY DEF NewBatch, BatchRecord
<1> HIDE DEF batch
<1>2. /\ DOMAIN Born(b, batch) = {b} /\ Born(b, batch)[b] = batch
      /\ IsFiniteSet(DOMAIN Born(b, batch))
      /\ Newborn(Born(b, batch), ledger)
    BY <1>1, OneBirth
<1>3. QED
    BY <1>1, <1>2 DEF batch

(* The parts of a row. *)
LEMMA RowFields ==
    ASSUME NEW type, NEW p, NEW q, NEW b, NEW s
    PROVE  /\ Op(type, p, q, b, s).type = type /\ Op(type, p, q, b, s).product = p
           /\ Op(type, p, q, b, s).qty = q /\ Op(type, p, q, b, s).batch = b
           /\ Op(type, p, q, b, s).sale = s
BY DEF Op, OpOf

(* The rows of a transaction of one row. *)
LEMMA RowFinite ==
    ASSUME NEW r
    PROVE  IsFiniteSet(DOMAIN <<r>>) /\ ToSet(<<r>>) = {r}
<1>1. DOMAIN <<r>> = {1}
    OBVIOUS
<1>2. QED
    BY <1>1, FS_Singleton, RowBag

(* Quantities typed into a form are positive. *)
LEMMA QtyIsInt == \A q \in Qty : q \in Int /\ -q \in Int /\ q > 0 /\ -q <= 0
BY Bounds DEF Qty

(* The same for a plan of one row, and that what it was checked against    *)
(* holds.                                                                  *)
LEMMA RowPlanIsSound ==
    ASSUME IInv, NEW plan, DOMAIN plan = DOMAIN NoRequest,
           plan.kind \notin {"none", "merge", "delete"},
           NEW r, plan.ops = <<r>>, r.product \in Product, r.qty \in Int,
           DOMAIN plan.births \subseteq FreshBatch, IsFiniteSet(DOMAIN plan.births),
           Newborn(plan.births, ledger),
           \/ r.batch \in DOMAIN batches /\ batches[r.batch].product = r.product
           \/ r.batch \in DOMAIN plan.births /\ plan.births[r.batch].product = r.product,
           \/ plan.confirm = TRUE
           \/ r.qty >= 0
           \/ r.batch \in DOMAIN batches /\ batches[r.batch].quantity + r.qty >= 0,
           StillCounts(plan),
           IF plan.kind = "return"
           THEN r.type = "return" /\ r.qty <= Returnable(ledger, r.sale, r.product)
           ELSE r.type \notin {"return", "sale"}
    PROVE  SoundPlan(plan)
<1>1. IsFiniteSet(DOMAIN plan.ops) /\ \A o \in ToSet(plan.ops) : o = r
    BY RowFinite
<1>2. Writes(plan) /\ PlanFits(plan, ledger, batches)
    BY <1>1, PlanIsFit
<1>3. OfBatch(ToBag(plan.ops), r.batch) = r.qty
    <2>1. ToBag(plan.ops) = SetToBag({r})
        BY RowBag
    <2>2. QED
        BY <2>1, RowSums
<1>4. StillCovered(plan)
    BY <1>1, <1>3 DEF StillCovered
<1>5. StillReturnable(plan)
    <2>1. r \in ToSet(plan.ops)
        BY RowFinite
    <2>2. QED
        BY <1>1, <2>1 DEF StillReturnable
<1>7. QED
    BY <1>2, <1>4, <1>5 DEF SoundPlan, Still

(* A receipt goes to a batch of its product, new or there already          *)
(* (register_receipt).                                                     *)
LEMMA ReceiptPlan ==
    ASSUME IInv, NEW t \in Thread, NEW p \in Product, NEW w \in Warehouse, NEW q \in Qty,
           CheckReceipt(t, p, w, q)
    PROVE  \E plan : Plans(t, plan) /\ SoundPlan(plan)
<1>1. PICK b, births :
         /\ Plans(t, Plan("receipt", <<Op("receipt", p, q, b, None)>>, births, TRUE))
         /\ \/ b \in FreshBatch /\ births = Born(b, NewBatch(p, w, FALSE))
            \/ b \in Own(batches, p) /\ births = << >>
    BY DEF CheckReceipt
<1> DEFINE r == Op("receipt", p, q, b, None)
           plan == Plan("receipt", <<r>>, births, TRUE)
<1>2. r.product = p /\ r.qty = q /\ r.batch = b /\ r.type = "receipt"
    BY RowFields DEF CheckReceipt
<1>3. /\ DOMAIN births \subseteq FreshBatch /\ IsFiniteSet(DOMAIN births)
      /\ Newborn(births, ledger)
      /\ \/ b \in DOMAIN batches /\ batches[b].product = p
         \/ b \in DOMAIN births /\ births[b].product = p
    <2>1. CASE b \in FreshBatch /\ births = Born(b, NewBatch(p, w, FALSE))
        BY <2>1, BornFits
    <2>2. CASE b \in Own(batches, p) /\ births = << >>
        BY <2>2, NoBirths DEF Own
    <2>3. QED
        BY <1>1, <2>1, <2>2
<1>4. /\ plan.confirm = TRUE /\ plan.counted = None /\ plan.kind = "receipt"
      /\ plan.ops = <<r>> /\ plan.births = births /\ DOMAIN plan = DOMAIN NoRequest
    BY DEF Plan, NoRequest
<1> HIDE DEF r, plan
<1>5. StillCounts(plan) /\ r.qty \in Int
    BY <1>2, <1>4, QtyIsInt DEF StillCounts
<1>6. SoundPlan(plan)
    BY <1>2, <1>3, <1>4, <1>5, RowPlanIsSound
<1>7. QED
    BY <1>1, <1>6 DEF plan, r

(* A return goes back to the batch of the sale or to a legacy batch of the *)
(* product and is within what was sold (register_return).                  *)
LEMMA ReturnPlan ==
    ASSUME IInv, NEW t \in Thread, NEW origin \in BagToSet(ledger), NEW q \in Qty,
           CheckReturn(t, origin, q)
    PROVE  \E plan : Plans(t, plan) /\ SoundPlan(plan)
<1> DEFINE p == origin.product
<1>1. PICK b, births :
         /\ Plans(t, Plan("return", <<Op("return", p, q, b, origin.sale)>>, births, TRUE))
         /\ \/ b = origin.batch /\ b # None /\ births = << >>
            \/ b \in LegacyBatches(p) /\ births = << >>
            \/ /\ b \in FreshBatch /\ births = Born(b, NewBatch(p, DefaultWarehouse, TRUE))
               /\ LegacyBatches(p) = {}
    BY DEF CheckReturn
<1> DEFINE r == Op("return", p, q, b, origin.sale)
           plan == Plan("return", <<r>>, births, TRUE)
<1>2. /\ r.product = p /\ r.qty = q /\ r.batch = b /\ r.type = "return"
      /\ r.sale = origin.sale /\ q <= Returnable(ledger, origin.sale, p)
    BY RowFields DEF CheckReturn
<1>3. /\ p \in Product
      /\ origin.batch # None =>
            origin.batch \in DOMAIN batches /\ batches[origin.batch].product = p
    BY DEF IInv, Fits
<1>4. /\ DOMAIN births \subseteq FreshBatch /\ IsFiniteSet(DOMAIN births)
      /\ Newborn(births, ledger)
      /\ \/ b \in DOMAIN batches /\ batches[b].product = p
         \/ b \in DOMAIN births /\ births[b].product = p
    <2>1. CASE /\ b \in FreshBatch /\ births = Born(b, NewBatch(p, DefaultWarehouse, TRUE))
               /\ LegacyBatches(p) = {}
        <3>1. NullBucket(ledger, p) = 0
            BY <1>3, <2>1 DEF IInv, SeedsStay, LegacyBatches
        <3>2. DefaultWarehouse \in Warehouse
            BY Ids
        <3>3. QED
            BY <1>3, <2>1, <3>1, <3>2, BornFits
    <2>2. CASE b = origin.batch /\ b # None /\ births = << >>
        BY <1>3, <2>2, NoBirths
    <2>3. CASE b \in LegacyBatches(p) /\ births = << >>
        BY <2>3, NoBirths DEF LegacyBatches, Own
    <2>4. QED
        BY <1>1, <2>1, <2>2, <2>3
<1>5. /\ plan.confirm = TRUE /\ plan.counted = None /\ plan.kind = "return"
      /\ plan.ops = <<r>> /\ plan.births = births /\ DOMAIN plan = DOMAIN NoRequest
    BY DEF Plan, NoRequest
<1> HIDE DEF r, plan
<1>6. StillCounts(plan) /\ r.qty \in Int
    BY <1>2, <1>5, QtyIsInt DEF StillCounts
<1>7. SoundPlan(plan)
    BY <1>2, <1>3, <1>4, <1>5, <1>6, RowPlanIsSound
<1>8. QED
    BY <1>1, <1>7 DEF plan, r

(* A write-off takes from a batch that covers it, unless confirmed         *)
(* (register_writeoff).                                                    *)
LEMMA WriteoffPlan ==
    ASSUME IInv, NEW t \in Thread, NEW b \in DOMAIN batches, NEW q \in Qty,
           NEW c \in BOOLEAN, CheckWriteoff(t, b, q, c)
    PROVE  \E plan : Plans(t, plan) /\ SoundPlan(plan)
<1> DEFINE p == batches[b].product
           r == Op("writeoff", p, -q, b, None)
           plan == Plan("writeoff", <<r>>, << >>, c)
<1>1. r.product = p /\ r.qty = -q /\ r.batch = b /\ r.type = "writeoff"
    BY RowFields
<1>2. (c \/ q <= batches[b].quantity) /\ Plans(t, plan)
    BY DEF CheckWriteoff
<1>3. /\ plan.confirm = c /\ plan.counted = None /\ plan.kind = "writeoff"
      /\ plan.ops = <<r>> /\ plan.births = << >> /\ DOMAIN plan = DOMAIN NoRequest
    BY DEF Plan, NoRequest
<1>4. p \in Product /\ batches[b].quantity \in Int /\ q \in Int /\ -q \in Int
    BY QtyIsInt DEF IInv, BatchesFit, BatchRecord
<1> HIDE DEF r, plan
<1>5. StillCounts(plan) /\ (plan.confirm = TRUE \/ batches[b].quantity + r.qty >= 0)
    BY <1>1, <1>2, <1>3, <1>4 DEF StillCounts
<1>6. SoundPlan(plan)
    BY <1>1, <1>2, <1>3, <1>4, <1>5, NoBirths, RowPlanIsSound
<1>7. QED
    BY <1>2, <1>6

(* A correction that takes more than is there was confirmed; by count it   *)
(* starts from what is there (register_correction).                        *)
LEMMA CorrectionPlan ==
    ASSUME IInv, NEW t \in Thread, NEW b \in DOMAIN batches, NEW d \in Int,
           NEW c \in BOOLEAN, NEW n, CheckCorrection(t, b, d, c, n),
           n = None \/ (n \in Int /\ d = n - batches[b].quantity)
    PROVE  \E plan : Plans(t, plan) /\ SoundPlan(plan)
<1> DEFINE p == batches[b].product
           r == Op("correction", p, d, b, None)
           plan == [Plan("correction", <<r>>, << >>, c) EXCEPT !.counted = n]
<1>1. r.product = p /\ r.qty = d /\ r.batch = b /\ r.type = "correction"
    BY RowFields
<1>2. (c \/ -d <= batches[b].quantity) /\ Plans(t, plan)
    BY DEF CheckCorrection
<1>3. /\ plan.confirm = c /\ plan.counted = n /\ plan.kind = "correction"
      /\ plan.ops = <<r>> /\ plan.births = << >> /\ DOMAIN plan = DOMAIN NoRequest
    BY DEF Plan, NoRequest
<1>4. p \in Product /\ batches[b].quantity \in Int
    BY DEF IInv, BatchesFit, BatchRecord
<1>5. StillCounts(plan)
    <2>1. n # None => r = Op("correction", p, n - batches[b].quantity, b, None) /\ n \in Int
        OBVIOUS
    <2> HIDE DEF plan, r
    <2>2. QED
        BY <1>3, <2>1 DEF StillCounts
<1> HIDE DEF r, plan
<1>6. plan.confirm = TRUE \/ batches[b].quantity + r.qty >= 0
    BY <1>1, <1>2, <1>3, <1>4
<1>7. SoundPlan(plan)
    BY <1>1, <1>2, <1>3, <1>4, <1>5, <1>6, NoBirths, RowPlanIsSound
<1>8. QED
    BY <1>2, <1>7

(* A transfer takes from a batch what it puts into a new one of the same   *)
(* product (register_transfer).                                            *)
LEMMA TransferPlan ==
    ASSUME IInv, NEW t \in Thread, NEW b \in DOMAIN batches, NEW w \in Warehouse,
           NEW q \in Qty, NEW c \in BOOLEAN, CheckTransfer(t, b, w, q, c)
    PROVE  \E plan : Plans(t, plan) /\ SoundPlan(plan)
<1> DEFINE p == batches[b].product
<1>1. PICK n \in FreshBatch :
         Plans(t, Plan("transfer",
                       <<Op("transfer", p, -q, b, None), Op("transfer", p, q, n, None)>>,
                       Born(n, NewBatch(p, w, FALSE)), c))
    BY DEF CheckTransfer
<1> DEFINE r == Op("transfer", p, -q, b, None)
           s == Op("transfer", p, q, n, None)
           births == Born(n, NewBatch(p, w, FALSE))
           plan == Plan("transfer", <<r, s>>, births, c)
<1>2. /\ r.product = p /\ r.qty = -q /\ r.batch = b /\ r.type = "transfer"
      /\ s.product = p /\ s.qty = q /\ s.batch = n /\ s.type = "transfer"
    BY RowFields
<1>3. /\ p \in Product /\ batches[b].quantity \in Int /\ q \in Int /\ -q \in Int /\ q > 0
      /\ n # b /\ (c \/ q <= batches[b].quantity)
    BY QtyIsInt DEF IInv, BatchesFit, BatchRecord, CheckTransfer, FreshBatch
<1>4. /\ plan.confirm = c /\ plan.counted = None /\ plan.kind = "transfer"
      /\ plan.ops = <<r, s>> /\ plan.births = births /\ DOMAIN plan = DOMAIN NoRequest
    BY DEF Plan, NoRequest
<1>5. /\ DOMAIN births = {n} /\ births[n].product = p
      /\ IsFiniteSet(DOMAIN births) /\ Newborn(births, ledger)
    BY <1>3, BornFits
<1>6. /\ IsFiniteSet(DOMAIN <<r, s>>)
      /\ ToBag(<<r, s>>) = SetToBag({r, s}) /\ ToSet(<<r, s>>) = {r, s}
    <2>1. DOMAIN <<r, s>> = 1..2 /\ 1 \in Int /\ 2 \in Int
        OBVIOUS
    <2>2. r # s
        BY <1>2, <1>3
    <2> HIDE DEF r, s
    <2>3. QED
        BY <2>1, <2>2, FS_Interval, RowsBag
<1> HIDE DEF r, s, births, plan
<1>7. Writes(plan) /\ PlanFits(plan, ledger, batches)
    <2>1. \A o \in ToSet(plan.ops) :
             /\ o.product \in Product /\ o.qty \in Int
             /\ \/ o.batch \in DOMAIN batches /\ batches[o.batch].product = o.product
                \/ o.batch \in DOMAIN plan.births /\ plan.births[o.batch].product = o.product
        BY <1>2, <1>3, <1>4, <1>5, <1>6
    <2>2. QED
        BY <1>1, <1>4, <1>5, <1>6, <2>1, PlanIsFit
<1>8. StillCovered(plan)
    <2>1. OfBatch(ToBag(plan.ops), b) = -q
        <3>1. {o \in {r, s} : o.batch = b} = {r} /\ BagToSet(SetToBag({r, s})) = {r, s}
            BY <1>2, <1>3 DEF BagToSet, SetToBag
        <3>2. OfBatch(SetToBag({r, s}), b) = Total(SetToBag({r, s}), {r})
            BY <3>1 DEF OfBatch
        <3> DEFINE f == [o \in {r} |-> o.qty * SetToBag({r, s})[o]]
        <3>3. f[r] = -q
            BY <1>2, <1>3 DEF SetToBag
        <3>4. Total(SetToBag({r, s}), {r}) = SumFunctionOnSet(f, {r})
            BY DEF Total
        <3> HIDE DEF f
        <3>5. QED
            BY <1>3, <1>4, <1>6, <3>2, <3>3, <3>4, SumOne
    <2>2. \A o \in ToSet(plan.ops) : o.qty < 0 => o.batch = b
        BY <1>2, <1>3, <1>4, <1>6
    <2>3. QED
        BY <1>3, <1>4, <2>1, <2>2 DEF StillCovered
<1>9. /\ StillCounts(plan) /\ StillReturnable(plan)
    <2>1. \A o \in ToSet(plan.ops) : o.type = "transfer"
        BY <1>2, <1>3, <1>4, <1>6
    <2>2. QED
        BY <1>4, <2>1 DEF StillCounts, StillReturnable
<1>10. SoundPlan(plan)
    BY <1>1, <1>4, <1>5, <1>7, <1>8, <1>9 DEF SoundPlan, Still
<1>11. QED
    BY <1>1, <1>10 DEF plan, r, s, births

(* All lines of a sale together take no more from a batch than it holds,   *)
(* unless confirmed (register_sale).                                       *)
LEMMA SalePlan ==
    ASSUME IInv, NEW t \in Thread, NEW s, NEW lines \in Basket, NEW c \in BOOLEAN,
           CheckSale(t, s, lines, c)
    PROVE  \E plan : Plans(t, plan) /\ SoundPlan(plan)
<1> DEFINE ops == [i \in DOMAIN lines |->
                      Op("sale", batches[lines[i].batch].product, -lines[i].qty,
                         lines[i].batch, s)]
           plan == Plan("sale", ops, << >>, c)
<1>1. (c \/ Covers(ops)) /\ Plans(t, plan)
    BY DEF CheckSale
<1>2. /\ IsFiniteSet(DOMAIN lines)
      /\ \A i \in DOMAIN lines : lines[i].batch \in DOMAIN batches /\ lines[i].qty \in Qty
    <2>1. PICK n \in 1..MaxLines : lines \in [1..n -> Lines]
        BY DEF Basket
    <2>2. DOMAIN lines = 1..n /\ n \in Int
        BY <2>1, Bounds
    <2>3. IsFiniteSet(1..n)
        BY <2>2, FS_Interval
    <2>4. QED
        BY <2>1, <2>2, <2>3 DEF Lines
<1>3. /\ plan.confirm = c /\ plan.counted = None /\ plan.kind = "sale"
      /\ plan.ops = ops /\ plan.births = << >> /\ DOMAIN plan = DOMAIN NoRequest
    BY DEF Plan, NoRequest
<1>4. IsFiniteSet(DOMAIN ops)
    BY <1>2
<1>5. ASSUME NEW o \in ToSet(ops)
      PROVE  /\ o.product \in Product
             /\ o.qty \in Int /\ o.qty <= 0 /\ o.type = "sale"
             /\ o.batch \in DOMAIN batches /\ batches[o.batch].product = o.product
    <2>1. PICK i \in DOMAIN lines : o = ops[i]
        BY DEF ToSet
    <2>2. /\ o.product = batches[lines[i].batch].product /\ o.qty = -lines[i].qty
          /\ o.batch = lines[i].batch /\ o.type = "sale"
        BY <2>1, RowFields
    <2>3. batches[lines[i].batch] \in BatchRecord
        BY <1>2 DEF IInv, BatchesFit
    <2>4. batches[lines[i].batch].product \in Product
        BY <2>3 DEF BatchRecord
    <2>5. -lines[i].qty \in Int /\ -lines[i].qty <= 0
        BY <1>2, QtyIsInt
    <2> HIDE DEF ops
    <2>6. QED
        BY <1>2, <2>2, <2>4, <2>5
<1> HIDE DEF ops, plan
<1>6. Writes(plan) /\ PlanFits(plan, ledger, batches)
    BY <1>3, <1>4, <1>5, NoBirths, PlanIsFit
<1>7. StillCovered(plan)
    <2>1. SUFFICES ASSUME ~c, NEW o \in ToSet(ops)
                   PROVE  /\ o.batch \in DOMAIN batches
                          /\ batches[o.batch].quantity + OfBatch(ToBag(ops), o.batch) >= 0
        BY <1>3 DEF StillCovered
    <2>2. -OfBatch(ToBag(ops), o.batch) <= batches[o.batch].quantity
        BY <1>1, <2>1 DEF Covers
    <2>3. o.batch \in DOMAIN batches /\ batches[o.batch].quantity \in Int
        BY <1>5 DEF IInv, BatchesFit, BatchRecord
    <2>4. OfBatch(ToBag(ops), o.batch) \in Int
        <3>1. GoodBag(ToBag(ops))
            BY <1>4, <1>5, SeqBag DEF GoodBag
        <3>2. QED
            BY <3>1, SumsAreInts
    <2>5. QED
        BY <2>2, <2>3, <2>4
<1>8. /\ StillCounts(plan) /\ StillReturnable(plan)
    BY <1>3, <1>5 DEF StillCounts, StillReturnable
<1>9. SoundPlan(plan)
    BY <1>3, <1>6, <1>7, <1>8, NoBirths DEF SoundPlan, Still
<1>10. QED
    BY <1>1, <1>9

(* A guarded deletion has found nothing on hand (quick_delete_product,     *)
(* soft_delete_warehouse).                                                 *)
LEMMA DeletePlan ==
    ASSUME IInv, NEW t \in Thread, NEW x \in Product \cup Warehouse, NEW c \in BOOLEAN,
           CheckDelete(t, x, c)
    PROVE  \E plan : Plans(t, plan) /\ SoundPlan(plan)
<1> DEFINE plan == [Plan("delete", <<>>, << >>, c) EXCEPT !.drop = x]
<1>1. Plans(t, plan)
    BY DEF CheckDelete
<1>2. /\ plan.counted = None /\ plan.kind = "delete" /\ plan.drop = x
      /\ plan.ops = <<>> /\ plan.births = << >> /\ DOMAIN plan = DOMAIN NoRequest
    BY DEF Plan, NoRequest
<1>3. /\ IsFiniteSet(DOMAIN <<>>) /\ ToSet(<<>>) = {}
    BY NoBirths DEF ToSet
<1>4. \A held : Fits(ToBag(<<>>), held) /\ Batched(ToBag(<<>>))
    BY <1>3, RowsFit
<1> HIDE DEF plan
<1>5. Writes(plan) /\ PlanFits(plan, ledger, batches)
    BY <1>2, <1>3, <1>4, NoBirths DEF Writes, PlanFits
<1>6. Still(plan)
    BY <1>1, <1>2, <1>3 DEF Still, StillCovered, StillCounts, StillReturnable
<1>7. SoundPlan(plan)
    BY <1>2, <1>5, <1>6, NoBirths DEF SoundPlan
<1>8. QED
    BY <1>1, <1>7

(* Every check but that of a push leaves a plan that fits and that stands. *)
LEMMA CheckPlans ==
    ASSUME IInv, NEW t \in Thread, Check(t)
    PROVE  \/ \E plan : Plans(t, plan) /\ SoundPlan(plan)
           \/ \E rows \in SUBSET Pushed : MergeReads(t, rows)
<1>1. ASSUME NEW p \in Product, NEW w \in Warehouse, NEW q \in Qty, CheckReceipt(t, p, w, q)
      PROVE  \E plan : Plans(t, plan) /\ SoundPlan(plan)
    BY <1>1, ReceiptPlan
<1>2. ASSUME NEW s \in FreshSale, NEW lines \in Basket, NEW c \in BOOLEAN,
             CheckSale(t, s, lines, c)
      PROVE  \E plan : Plans(t, plan) /\ SoundPlan(plan)
    BY <1>2, SalePlan
<1>3. ASSUME NEW origin \in BagToSet(ledger), NEW q \in Qty, CheckReturn(t, origin, q)
      PROVE  \E plan : Plans(t, plan) /\ SoundPlan(plan)
    BY <1>3, ReturnPlan
<1>4. ASSUME NEW b \in DOMAIN batches, NEW w \in Warehouse, NEW q \in Qty, NEW c \in BOOLEAN,
             CheckTransfer(t, b, w, q, c)
      PROVE  \E plan : Plans(t, plan) /\ SoundPlan(plan)
    BY <1>4, TransferPlan
<1>5. ASSUME NEW b \in DOMAIN batches, NEW q \in Qty, NEW c \in BOOLEAN,
             CheckWriteoff(t, b, q, c)
      PROVE  \E plan : Plans(t, plan) /\ SoundPlan(plan)
    BY <1>5, WriteoffPlan
<1>6. ASSUME NEW b \in DOMAIN batches, NEW d \in -MaxQty..MaxQty, NEW c \in BOOLEAN,
             CheckCorrection(t, b, d, c, None)
      PROVE  \E plan : Plans(t, plan) /\ SoundPlan(plan)
    <2>1. d \in Int
        OBVIOUS
    <2>2. PICK n : n = None
        OBVIOUS
    <2>3. QED
        BY <1>6, <2>1, <2>2, CorrectionPlan
<1>7. ASSUME NEW b \in DOMAIN batches, NEW n \in 0..MaxQty, NEW c \in BOOLEAN,
             CheckCount(t, b, n, c)
      PROVE  \E plan : Plans(t, plan) /\ SoundPlan(plan)
    <2>1. n \in Int /\ batches[b].quantity \in Int
        BY DEF IInv, BatchesFit, BatchRecord
    <2>2. PICK d \in Int : d = n - batches[b].quantity
        BY <2>1
    <2>3. CheckCorrection(t, b, d, c, n)
        BY <1>7, <2>2 DEF CheckCount
    <2>4. QED
        BY <2>1, <2>2, <2>3, CorrectionPlan
<1>8. ASSUME NEW x \in Product \cup Warehouse, NEW c \in BOOLEAN, CheckDelete(t, x, c)
      PROVE  \E plan : Plans(t, plan) /\ SoundPlan(plan)
    BY <1>8, DeletePlan
<1>9. QED
    BY <1>1, <1>2, <1>3, <1>4, <1>5, <1>6, <1>7, <1>8 DEF Check

(* The first half of a request keeps the invariant. *)
LEMMA CheckInv ==
    ASSUME IInv, MergeLocks \/ OneAtATime, NEW t \in Thread, Check(t)
    PROVE  IInv'
<1>1. deleted \subseteq Product \cup Warehouse
    BY DEF IInv
<1>2. ASSUME NEW plan, Plans(t, plan), SoundPlan(plan)
      PROVE  IInv'
    <2>1. \A u \in Thread \ {t} : DOMAIN plan.births \cap DOMAIN request[u].births = {}
        BY <1>2 DEF SoundPlan, FreshBatch
    <2>2. Admissible(t, plan)
        BY <1>2, <2>1 DEF SoundPlan, Admissible
    <2>3. QED
        BY <1>1, <1>2, <2>2, Planned DEF Plans
<1>3. ASSUME NEW rows \in SUBSET Pushed, MergeReads(t, rows)
      PROVE  IInv'
    <2>1. PICK plan : plan = MergePlan(rows)
        OBVIOUS
    <2>2. plan.kind = "merge" /\ Merges(plan)
        BY <1>3, <2>1 DEF MergeReads, Merges, MergePlan, Plan, NoRequest
    <2>3. \A u \in Thread \ {t} : request[u].kind # "merge"
        BY <1>3 DEF MergeReads, Unlocked, MergeUnderWay, OneAtATime
    <2>4. Admissible(t, plan)
        BY <2>2, <2>3 DEF Admissible
    <2>5. Plans(t, plan)
        BY <1>3, <2>1 DEF MergeReads
    <2>6. QED
        BY <1>1, <2>4, <2>5, Planned DEF Plans
<1>4. QED
    BY <1>2, <1>3, CheckPlans

-----------------------------------------------------------------------------
(* The second half of a request *)

(* The same batches, of the same products. *)
Alike(held, after) ==
    /\ DOMAIN after = DOMAIN held
    /\ \A b \in DOMAIN held :
          after[b].product = held[b].product /\ after[b].legacy = held[b].legacy

(* Rows fit the batches as long as those that are there stay and keep      *)
(* their product.                                                          *)
LEMMA FitsAlike ==
    ASSUME NEW B, NEW held, NEW after, Fits(B, held),
           DOMAIN held \subseteq DOMAIN after,
           \A b \in DOMAIN held : after[b].product = held[b].product
    PROVE  Fits(B, after)
BY DEF Fits

(* What a batch is computed to hold does not depend on cached quantities. *)
LEMMA BatchStockAlike ==
    ASSUME NEW B, NEW held, NEW after, Alike(held, after), NEW b \in DOMAIN held
    PROVE  ComputeBatchStock(B, after, b) = ComputeBatchStock(B, held, b)
BY DEF ComputeBatchStock, Alike

(* Neither does the assertion of recompute_derived. *)
LEMMA BalancedAlike ==
    ASSUME NEW B, NEW held, NEW after, Alike(held, after), Balanced(B, held)
    PROVE  Balanced(B, after)
<1> SUFFICES ASSUME NEW p \in Product
             PROVE  ComputeStock(B, p) =
                       SumFunctionOnSet([b \in Own(after, p) |-> ComputeBatchStock(B, after, b)],
                                        Own(after, p))
                       + (IF \E b \in Own(after, p) : after[b].legacy THEN 0
                          ELSE NullBucket(B, p))
    BY DEF Balanced
<1>1. Own(after, p) = Own(held, p)
    BY DEF Own, Alike
<1>2. [b \in Own(after, p) |-> ComputeBatchStock(B, after, b)]
         = [b \in Own(held, p) |-> ComputeBatchStock(B, held, b)]
    BY <1>1, BatchStockAlike DEF Own
<1>3. (\E b \in Own(after, p) : after[b].legacy) <=> (\E b \in Own(held, p) : held[b].legacy)
    BY <1>1 DEF Own, Alike
<1>4. ComputeStock(B, p) =
         SumFunctionOnSet([b \in Own(held, p) |-> ComputeBatchStock(B, held, b)], Own(held, p))
         + (IF \E b \in Own(held, p) : held[b].legacy THEN 0 ELSE NullBucket(B, p))
    BY DEF Balanced
<1>5. QED
    BY <1>1, <1>2, <1>3, <1>4, Zenon

(* What a plan fits, it fits when others have written. *)
LEMMA PlanStaysFit ==
    ASSUME NEW r, NEW B, NEW held, PlanFits(r, B, held),
           NEW C, NEW after, DOMAIN held \subseteq DOMAIN after,
           DOMAIN r.births \cap DOMAIN after = {},
           \A b \in DOMAIN held : after[b].product = held[b].product,
           \A p \in Product : NullBucket(C, p) = NullBucket(B, p)
    PROVE  PlanFits(r, C, after)
<1>1. Newborn(r.births, C)
    BY DEF PlanFits, Newborn, BatchRecord
<1>2. Fits(ToBag(r.ops), With(after, r.births))
    <2>1. Fits(ToBag(r.ops), With(held, r.births))
        BY DEF PlanFits
    <2>2. /\ DOMAIN With(held, r.births) \subseteq DOMAIN With(after, r.births)
          /\ \A b \in DOMAIN With(held, r.births) :
                With(after, r.births)[b].product = With(held, r.births)[b].product
        BY DEF With, PlanFits
    <2>3. QED
        BY <2>1, <2>2, FitsAlike
<1>3. QED
    BY <1>1, <1>2 DEF PlanFits

(* The second half of a request keeps the invariant: the increments of     *)
(* record_operation applied to whatever the ledger and the batches have    *)
(* become since the check.                                                 *)
LEMMA CommitInv ==
    ASSUME IInv, MergeLocks \/ OneAtATime, NEW t \in Thread, Commit(t)
    PROVE  IInv'
<1> DEFINE r == request[t]
           births == r.births
           C == ToBag(r.ops)
           N == With(batches, births)
           H == HeldAfter(N, C)
<1>1. /\ ledger' = ledger (+) C /\ batches' = H
      /\ stock' = [p \in Product |-> stock[p] + ComputeStock(C, p)]
      /\ deleted' = deleted
      /\ request' = [request EXCEPT ![t] = NoRequest]
    BY DEF Commit, Done
<1>2. Writes(r) /\ PlanFits(r, ledger, batches)
    BY DEF Commit, Writes, IInv, PlansFit
<1>3. /\ DOMAIN births \subseteq Batch \ DOMAIN batches /\ IsFiniteSet(DOMAIN births)
      /\ Newborn(births, ledger) /\ Batched(C) /\ Fits(C, N) /\ GoodBag(C)
    BY <1>2 DEF PlanFits, Fits
<1>4. /\ Fits(ledger, batches) /\ GoodBag(ledger) /\ Balanced(ledger, batches)
      /\ IsFiniteSet(DOMAIN batches) /\ DOMAIN batches \subseteq BatchIds
      /\ \A b \in DOMAIN batches : batches[b] \in BatchRecord /\ b # None
      /\ \A b \in DOMAIN births : b # None
      /\ DOMAIN births \cap DOMAIN batches = {}
    BY <1>3, BatchIdsApart DEF IInv, BatchesFit, Rebuildable, Fits
<1>5. /\ DOMAIN N = DOMAIN batches \cup DOMAIN births
      /\ \A b \in DOMAIN batches : N[b] = batches[b]
      /\ \A b \in DOMAIN births : N[b] = births[b]
      /\ \A b \in DOMAIN N : N[b] \in BatchRecord
    BY <1>3, <1>4 DEF With, Newborn
<1> HIDE DEF r, births, C, N, H
<1>6. /\ DOMAIN H = DOMAIN N
      /\ \A b \in DOMAIN N :
            /\ H[b].product = N[b].product /\ H[b].legacy = N[b].legacy
            /\ H[b].quantity = N[b].quantity + OfBatch(C, b)
            /\ H[b] \in BatchRecord
    <2>1. \A b : OfBatch(C, b) \in Int
        BY <1>3, SumsAreInts
    <2>2. \A b \in DOMAIN N : H[b] = [N[b] EXCEPT !.quantity = @ + OfBatch(C, b)]
        BY DEF H, HeldAfter
    <2>3. ASSUME NEW b \in DOMAIN N
          PROVE  H[b] \in BatchRecord
        <3>1. PICK batch \in BatchRecord : N[b] = batch
            BY <1>5
        <3>2. PICK q \in Int : OfBatch(C, b) = q
            BY <2>1
        <3>3. H[b] = [batch EXCEPT !.quantity = @ + q]
            BY <2>2, <3>1, <3>2
        <3>4. QED
            BY <3>3 DEF BatchRecord
    <2>4. QED
        BY <1>5, <2>3, HeldIs DEF H
<1>7. \A p : NullBucket(ledger (+) C, p) = NullBucket(ledger, p)
    <2>1. \A p : /\ NullBucket(ledger (+) C, p) = NullBucket(ledger, p) + NullBucket(C, p)
                 /\ NullBucket(ledger, p) \in Int
        BY <1>3, <1>4, SumsPlus, SumsAreInts
    <2>2. \A p : NullBucket(C, p) = 0
        BY <1>3, NoNullRow DEF Batched
    <2>3. QED
        BY <2>1, <2>2
<1>8. Fits(ledger, batches)'
    <2>1. Fits(ledger, N)
        BY <1>4, <1>5, FitsAlike
    <2>2. Fits(ledger (+) C, N)
        BY <1>3, <2>1, PlusFits
    <2>3. Fits(ledger (+) C, H)
        BY <1>6, <2>2, FitsAlike
    <2>4. QED
        BY <1>1, <2>3
<1>9. BatchesFit'
    <2>1. IsFiniteSet(DOMAIN H)
        BY <1>3, <1>4, <1>5, <1>6, FS_Union
    <2>2. DOMAIN H \subseteq BatchIds
        BY <1>3, <1>4, <1>5, <1>6 DEF BatchIds
    <2>3. ASSUME NEW b \in DOMAIN H \cap DOMAIN PushedBatch
          PROVE  H[b].product = PushedBatch[b].product
        <3>1. b \notin Batch
            BY Ids
        <3>2. b \in DOMAIN batches
            BY <1>3, <1>5, <1>6, <3>1
        <3>3. batches[b].product = PushedBatch[b].product
            BY <3>2 DEF IInv, BatchesFit
        <3>4. QED
            BY <1>5, <1>6, <3>2, <3>3
    <2>4. QED
        BY <1>1, <1>6, <2>1, <2>2, <2>3 DEF BatchesFit
<1>10. SeedsStay'
    <2>1. ASSUME NEW p \in Product, NullBucket(ledger, p) # 0
          PROVE  LegacyId[p] \in Own(H, p) /\ H[LegacyId[p]].legacy
        <3>1. LegacyId[p] \in Own(batches, p) /\ batches[LegacyId[p]].legacy
            BY <2>1 DEF IInv, SeedsStay
        <3>2. QED
            BY <1>5, <1>6, <3>1 DEF Own
    <2>2. QED
        BY <1>1, <1>7, <2>1 DEF SeedsStay
<1>11. Projection'
    <2>1. ASSUME NEW p \in Product
          PROVE  stock'[p] = ComputeStock(ledger (+) C, p)
        <3>1. ComputeStock(ledger (+) C, p) = ComputeStock(ledger, p) + ComputeStock(C, p)
            BY <1>3, <1>4, SumsPlus
        <3>2. stock[p] = ComputeStock(ledger, p) /\ stock'[p] = stock[p] + ComputeStock(C, p)
            BY <1>1 DEF IInv, Projection
        <3>3. QED
            BY <3>1, <3>2
    <2>2. ASSUME NEW b \in DOMAIN H
          PROVE  H[b].quantity = ComputeBatchStock(ledger (+) C, H, b)
        <3>1. b \in DOMAIN batches \cup DOMAIN births
            BY <1>5, <1>6
        <3>2. /\ ComputeBatchStock(ledger (+) C, H, b)
                    = (IF b \in DOMAIN batches THEN ComputeBatchStock(ledger, batches, b) ELSE 0)
                      + OfBatch(C, b)
              /\ OfBatch(C, b) \in Int
            BY <1>3, <1>4, <3>1, BatchAfter DEF H, N
        <3>3. H[b].quantity = N[b].quantity + OfBatch(C, b)
            BY <1>6
        <3>4. b \in DOMAIN batches => N[b].quantity = ComputeBatchStock(ledger, batches, b)
            BY <1>5 DEF IInv, Projection
        <3>5. b \notin DOMAIN batches => N[b].quantity = 0
            BY <1>3, <1>5, <3>1 DEF Newborn
        <3>6. QED
            BY <3>2, <3>3, <3>4, <3>5
    <2>3. QED
        BY <1>1, <2>1, <2>2 DEF Projection
<1>12. Rebuildable'
    <2>1. Balanced(ledger (+) C, H)
        BY <1>3, <1>4, KeepsBalance DEF H, N
    <2>2. QED
        BY <1>1, <2>1 DEF Rebuildable
<1>13. /\ (stock \in [Product -> Int])' /\ (deleted \subseteq Product \cup Warehouse)'
    <2>1. \A p \in Product : stock[p] \in Int /\ ComputeStock(C, p) \in Int
        BY <1>3, SumsAreInts DEF IInv
    <2>2. QED
        BY <1>1, <2>1 DEF IInv
<1>14. PlansFit'
    <2>1. /\ DOMAIN request' = Thread /\ request'[t] = NoRequest
          /\ \A u \in Thread \ {t} : request'[u] = request[u]
        BY <1>1 DEF IInv, PlansFit
    <2>2. NoRequest.kind = "none"
        BY DEF NoRequest
    <2>3. ASSUME NEW u \in Thread \ {t}
          PROVE  /\ request[u].kind # "merge"
                 /\ request[u].kind = "none" => request[u] = NoRequest
                 /\ Writes(request[u]) => PlanFits(request[u], ledger (+) C, H)
        <3>1. request[u].kind # "merge"
            BY DEF Commit, Unlocked, MergeUnderWay, OneAtATime
        <3>2. request[u].kind = "none" => request[u] = NoRequest
            BY DEF IInv, PlansFit
        <3>3. ASSUME Writes(request[u])
              PROVE  PlanFits(request[u], ledger (+) C, H)
            <4>1. PlanFits(request[u], ledger, batches)
                BY <3>3 DEF IInv, PlansFit
            <4>2. DOMAIN request[u].births \cap DOMAIN births = {}
                BY <1>2, <3>3 DEF IInv, PlansFit, births, r
            <4>3. DOMAIN request[u].births \cap DOMAIN H = {}
                BY <1>5, <1>6, <4>1, <4>2 DEF PlanFits
            <4>4. DOMAIN batches \subseteq DOMAIN H
                BY <1>5, <1>6
            <4>5. \A b \in DOMAIN batches : H[b].product = batches[b].product
                BY <1>5, <1>6
            <4>6. QED
                BY <1>7, <4>1, <4>3, <4>4, <4>5, PlanStaysFit
        <3>4. QED
            BY <3>1, <3>2, <3>3
    <2>4. \A u, v \in Thread \ {t} :
             u # v /\ Writes(request[u]) /\ Writes(request[v]) =>
                DOMAIN request[u].births \cap DOMAIN request[v].births = {}
        BY DEF IInv, PlansFit
    <2>5. QED
        BY <1>1, <2>1, <2>2, <2>3, <2>4 DEF PlansFit, Writes
<1>15. QED
    BY <1>8, <1>9, <1>10, <1>11, <1>12, <1>13, <1>14 DEF IInv

(* What a merge finds when it writes is what it recomputed. *)
LEMMA MergeInv ==
    ASSUME IInv, PushesNameBatches, NEW t \in Thread, MergeCommits(t)
    PROVE  IInv'
<1>1. PICK rows \in SUBSET Pushed : Mergeable(rows) /\ request[t] = MergePlan(rows)
    BY DEF MergeCommits, IInv, PlansFit, Merges
<1> DEFINE new == Arriving(rows)
           C == SetToBag(new)
           B == Grown(rows)
           come == {o.batch : o \in rows} \cap DOMAIN PushedBatch
           G == Gathered(rows)
           R == Recomputed(B, G)
<1>2. /\ new \subseteq Pushed /\ B = ledger (+) C
      /\ Balanced(B, G)
    BY <1>1 DEF Mergeable, Arriving, Grown
<1>3. /\ request[t].ops = SetToSeq(new) /\ request[t].births = G
      /\ request[t].overwrite = R /\ request[t].kind = "merge"
    BY <1>1 DEF MergePlan, Plan, NoRequest
<1>4. /\ IsFiniteSet(new) /\ IsFiniteSet(rows)
      /\ \A o \in new : /\ o \in rows
                        /\ o.product \in Product /\ o.qty \in Int /\ o.batch # None
                        /\ o.batch \in come /\ PushedBatch[o.batch].product = o.product
    BY <1>2, PushesFit, FS_Subset DEF Arriving, PushesNameBatches
<1>5. GoodBag(C) /\ BagToSet(C) = new /\ ToBag(SetToSeq(new)) = C
    BY <1>4, SetBagGood, SetSeqBag
<1>6. /\ DOMAIN G = DOMAIN batches \cup come
      /\ \A b \in DOMAIN batches : G[b] = batches[b]
      /\ \A b \in come : b \notin DOMAIN batches => G[b] = PushedBatch[b]
      /\ With(batches, G) = G
    BY DEF Gathered, With
<1>7. /\ \A b \in DOMAIN G : G[b] \in BatchRecord
      /\ \A b \in DOMAIN G \cap DOMAIN PushedBatch : G[b].product = PushedBatch[b].product
    BY <1>6, PushesFit DEF IInv, BatchesFit, BatchRecord
<1> DEFINE H == [b \in DOMAIN G |-> [G[b] EXCEPT !.quantity = Overwrite(t, b, @)]]
<1>8. /\ ledger' = B
      /\ batches' = H
      /\ stock' = [p \in Product |-> Overwrite(t, p, stock[p])]
      /\ deleted' = deleted
      /\ request' = [request EXCEPT ![t] = NoRequest]
    BY <1>2, <1>3, <1>5, <1>6 DEF MergeCommits, Done
<1>9. /\ IsFiniteSet(DOMAIN G)
      /\ DOMAIN G \subseteq BatchIds /\ DOMAIN G \cap Product = {}
    <2>1. IsFiniteSet(come)
        <3> DEFINE named == {o.batch : o \in rows}
                   f == [o \in rows |-> o.batch]
        <3>1. f \in Surjection(rows, named)
            BY DEF Surjection
        <3> HIDE DEF f, named
        <3>2. IsFiniteSet(named)
            BY <1>4, <3>1, FS_Surjection
        <3>3. QED
            BY <3>2, FS_Subset DEF named
    <2>2. IsFiniteSet(DOMAIN batches) /\ DOMAIN batches \subseteq BatchIds
        BY DEF IInv, BatchesFit
    <2>3. DOMAIN batches \cap Product = {} /\ DOMAIN PushedBatch \cap Product = {}
        BY BatchIdsApart
    <2> HIDE DEF G, come
    <2>4. IsFiniteSet(DOMAIN G)
        BY <1>6, <2>1, <2>2, FS_Union
    <2>5. come \subseteq DOMAIN PushedBatch
        BY DEF come
    <2>6. QED
        BY <1>6, <2>2, <2>3, <2>4, <2>5 DEF BatchIds
<1> HIDE DEF new, C, B, G, R, H, come
<1>10. /\ Fits(ledger, batches) /\ GoodBag(ledger)
       /\ Fits(B, G) /\ GoodBag(B)
    <2>1. Fits(ledger, batches) /\ GoodBag(ledger)
        BY DEF IInv, Fits
    <2>2. Fits(ledger, G)
        BY <1>6, <2>1, FitsAlike
    <2>3. Fits(C, G)
        <3>1. \A o \in new : o.batch \in DOMAIN G \cap DOMAIN PushedBatch
            BY <1>4, <1>6 DEF come
        <3>2. QED
            BY <1>4, <1>5, <1>7, <3>1 DEF Fits
    <2>4. Fits(B, G)
        BY <1>2, <2>2, <2>3, PlusFits
    <2>5. QED
        BY <2>1, <2>4 DEF Fits
<1>11. \A p : NullBucket(B, p) = NullBucket(ledger, p)
    <2>1. \A p : NullBucket(ledger (+) C, p) = NullBucket(ledger, p) + NullBucket(C, p)
        BY <1>5, <1>10, SumsPlus
    <2>2. \A p : NullBucket(C, p) = 0
        BY <1>4, <1>5, NoNullRow
    <2>3. \A p : NullBucket(ledger, p) \in Int
        BY <1>10, SumsAreInts
    <2>4. QED
        BY <1>2, <2>1, <2>2, <2>3
<1>12. ASSUME NEW p \in Product
       PROVE  stock'[p] = ComputeStock(B, p)
    <2>1. p \in DOMAIN R <=> ComputeStock(B, p) # stock[p]
        BY <1>9 DEF R, Recomputed
    <2>2. p \in DOMAIN R => R[p] = ComputeStock(B, p)
        BY DEF R, Recomputed
    <2>3. QED
        BY <1>3, <1>8, <2>1, <2>2 DEF Overwrite
<1>13. ASSUME NEW b \in DOMAIN G
       PROVE  /\ H[b].quantity = ComputeBatchStock(B, G, b)
              /\ H[b].product = G[b].product /\ H[b].legacy = G[b].legacy
              /\ H[b] \in BatchRecord
    <2>1. b \in DOMAIN R <=> ComputeBatchStock(B, G, b) # G[b].quantity
        BY <1>9 DEF R, Recomputed
    <2>2. b \in DOMAIN R => R[b] = ComputeBatchStock(B, G, b)
        BY <1>9 DEF R, Recomputed
    <2>3. Overwrite(t, b, G[b].quantity) = ComputeBatchStock(B, G, b)
        BY <1>3, <2>1, <2>2 DEF Overwrite
    <2>4. H[b] = [G[b] EXCEPT !.quantity = ComputeBatchStock(B, G, b)]
        BY <2>3 DEF H
    <2>5. ComputeBatchStock(B, G, b) \in Int
        <3>1. \A x : OfBatch(B, x) \in Int /\ NullBucket(B, x) \in Int
            BY <1>10, SumsAreInts
        <3>2. QED
            BY <3>1 DEF ComputeBatchStock
    <2>6. QED
        <3>1. PICK batch \in BatchRecord : G[b] = batch
            BY <1>7
        <3>2. PICK q \in Int : ComputeBatchStock(B, G, b) = q
            BY <2>5
        <3>3. H[b] = [batch EXCEPT !.quantity = q]
            BY <2>4, <3>1, <3>2
        <3>4. QED
            BY <3>1, <3>2, <3>3 DEF BatchRecord
<1>14. Alike(G, H)
    BY <1>13 DEF Alike, H
<1>15. Fits(ledger, batches)'
    <2>1. Fits(B, H)
        BY <1>10, <1>14, FitsAlike DEF Alike
    <2>2. QED
        BY <1>8, <2>1
<1>16. BatchesFit'
    BY <1>7, <1>8, <1>9, <1>13, <1>14 DEF BatchesFit, Alike
<1>17. SeedsStay'
    <2>1. ASSUME NEW p \in Product, NullBucket(ledger, p) # 0
          PROVE  LegacyId[p] \in Own(H, p) /\ H[LegacyId[p]].legacy
        <3>1. LegacyId[p] \in Own(batches, p) /\ batches[LegacyId[p]].legacy
            BY <2>1 DEF IInv, SeedsStay
        <3>2. QED
            BY <1>6, <1>14, <3>1 DEF Own, Alike
    <2>2. QED
        BY <1>8, <1>11, <2>1 DEF SeedsStay
<1>18. Projection'
    <2>1. \A b \in DOMAIN H : H[b].quantity = ComputeBatchStock(B, H, b)
        BY <1>13, <1>14, BatchStockAlike DEF Alike
    <2>2. QED
        BY <1>8, <1>12, <2>1 DEF Projection
<1>19. Rebuildable'
    BY <1>2, <1>8, <1>14, BalancedAlike DEF Rebuildable
<1>20. /\ (stock \in [Product -> Int])' /\ (deleted \subseteq Product \cup Warehouse)'
    <2>1. \A p \in Product : ComputeStock(B, p) \in Int
        BY <1>10, SumsAreInts
    <2>2. QED
        BY <1>8, <1>12, <2>1 DEF IInv
<1>21. PlansFit'
    <2>1. /\ DOMAIN request' = Thread /\ request'[t] = NoRequest
          /\ \A u \in Thread \ {t} : request'[u] = request[u]
        BY <1>8 DEF IInv, PlansFit
    <2>2. NoRequest.kind = "none"
        BY DEF NoRequest
    <2>3. ASSUME NEW u \in Thread \ {t}
          PROVE  /\ request[u].kind # "merge"
                 /\ request[u].kind = "none" => request[u] = NoRequest
                 /\ Writes(request[u]) => PlanFits(request[u], B, H)
        <3>1. request[u].kind # "merge"
            BY <1>3 DEF IInv, PlansFit
        <3>2. request[u].kind = "none" => request[u] = NoRequest
            BY DEF IInv, PlansFit
        <3>3. ASSUME Writes(request[u])
              PROVE  PlanFits(request[u], B, H)
            <4>1. PlanFits(request[u], ledger, batches)
                BY <3>3 DEF IInv, PlansFit
            <4>2. DOMAIN request[u].births \cap DOMAIN H = {}
                <5>1. Batch \cap DOMAIN PushedBatch = {}
                    BY Ids
                <5>2. QED
                    BY <1>6, <1>14, <4>1, <5>1 DEF PlanFits, Alike, come
            <4>3. DOMAIN batches \subseteq DOMAIN H
                BY <1>6, <1>14 DEF Alike
            <4>4. \A b \in DOMAIN batches : H[b].product = batches[b].product
                BY <1>6, <1>14 DEF Alike
            <4>5. QED
                BY <1>11, <4>1, <4>2, <4>3, <4>4, PlanStaysFit
        <3>4. QED
            BY <3>1, <3>2, <3>3
    <2>4. \A u, v \in Thread \ {t} :
             u # v /\ Writes(request[u]) /\ Writes(request[v]) =>
                DOMAIN request[u].births \cap DOMAIN request[v].births = {}
        BY DEF IInv, PlansFit
    <2>5. QED
        BY <1>8, <2>1, <2>2, <2>3, <2>4 DEF PlansFit, Writes
<1>22. QED
    BY <1>15, <1>16, <1>17, <1>18, <1>19, <1>20, <1>21 DEF IInv

(* A step that changes nothing keeps the invariant. *)
LEMMA StutterInv ==
    ASSUME IInv, UNCHANGED vars
    PROVE  IInv'
<1>1. /\ (stock \in [Product -> Int])' /\ (deleted \subseteq Product \cup Warehouse)'
      /\ Fits(ledger, batches)' /\ BatchesFit' /\ SeedsStay' /\ Projection' /\ Rebuildable'
    BY DEF vars, IInv, BatchesFit, SeedsStay, Projection, Rebuildable
<1>2. PlansFit'
    <2>1. ASSUME NEW t \in Thread, request[t].kind = "merge"
          PROVE  Merges(request[t])'
        <3>1. PICK r : r = request[t]
            OBVIOUS
        <3>2. Merges(r)
            BY <2>1, <3>1 DEF IInv, PlansFit, Merges
        <3>3. Merges(r)'
            BY <3>2, SameMerges DEF vars
        <3>4. QED
            BY <3>1, <3>3 DEF Merges, vars
    <2>2. QED
        BY <2>1 DEF IInv, PlansFit, Writes, vars
<1>3. QED
    BY <1>1, <1>2 DEF IInv

(* Every step keeps the invariant. *)
LEMMA StepInv ==
    ASSUME MergeLocks \/ OneAtATime, PushesNameBatches, IInv, [Next]_vars
    PROVE  IInv'
<1>1. ASSUME NEW t \in Thread, Check(t) PROVE IInv'
    BY <1>1, CheckInv
<1>2. ASSUME NEW t \in Thread, Commit(t) PROVE IInv'
    BY <1>2, CommitInv
<1>3. ASSUME NEW t \in Thread, MergeCommits(t) PROVE IInv'
    BY <1>3, MergeInv
<1>4. ASSUME NEW t \in Thread,
             \/ Delete(t) \/ Fail(t)
             \/ \E p \in Product : SoftDelete(t, p)
             \/ \E x \in Product \cup Warehouse : RestoreDeleted(t, x)
      PROVE  IInv'
    BY <1>4, QuietSteps
<1>5. CASE UNCHANGED vars
    BY <1>5, StutterInv
<1>6. QED
    BY <1>1, <1>2, <1>3, <1>4, <1>5 DEF Next

(* For any number of products, warehouses, batches and rows, and on SQLite *)
(* for any number of requests at a time: the cached quantities of products *)
(* and batches are what the ledger adds up to, rows name batches of their  *)
(* own product, and recompute_derived never raises (LedgerHolds).  Without *)
(* a lock that keeps writers out of a merge it holds for one request at a  *)
(* time.                                                                   *)
THEOREM LedgerAgrees ==
    ASSUME MergeLocks \/ OneAtATime, NobodyOversold, PushesNameBatches
    PROVE  Spec => []LedgerHolds
<1>1. Init => IInv
    BY InitInv
<1>2. IInv /\ [Next]_vars => IInv'
    BY StepInv
<1>3. IInv => LedgerHolds
    BY InvGivesLedgerHolds
<1>4. QED
    BY <1>1, <1>2, <1>3, PTL DEF Spec

-----------------------------------------------------------------------------
(* Returns and sales *)

(* Values of which none is positive add up to no positive one. *)
LEMMA SumNotPositive ==
    ASSUME NEW f, NEW S, IsFiniteSet(S), Ints(f, S), \A x \in S : f[x] <= 0
    PROVE  SumFunctionOnSet(f, S) <= 0
<1> DEFINE Q == {T \in SUBSET S : SumFunctionOnSet(f, T) <= 0}
<1>1. {} \in Q
    BY SumEmpty
<1>2. ASSUME NEW T \in SUBSET S, NEW x \in S, T \in Q, x \notin T
      PROVE  T \cup {x} \in Q
    <2>1. IsFiniteSet(T) /\ Ints(f, T \cup {x})
        BY FS_Subset DEF Ints
    <2>2. /\ SumFunctionOnSet(f, T \cup {x}) = f[x] + SumFunctionOnSet(f, T)
          /\ SumFunctionOnSet(f, T) \in Int /\ f[x] \in Int
        BY <1>2, <2>1, SumPut
    <2>3. QED
        BY <1>2, <2>2
<1> HIDE DEF Q
<1>3. S \in Q
    BY <1>1, <1>2, SetInduction
<1>4. QED
    BY <1>3 DEF Q

(* Sales and returns of a product under one sale, counted together and     *)
(* apart (sold_qty counts them together).                                  *)
LEMMA SalesAndReturns ==
    ASSUME NEW B, GoodBag(B), NEW s, NEW p
    PROVE  /\ OfSale(B, s, p, {"sale", "return"})
                 = OfSale(B, s, p, {"sale"}) + OfSale(B, s, p, {"return"})
           /\ OfSale(B, s, p, {"sale"}) \in Int /\ OfSale(B, s, p, {"return"}) \in Int
<1> DEFINE X == {o \in BagToSet(B) : o.sale = s /\ o.product = p /\ o.type \in {"sale"}}
           Y == {o \in BagToSet(B) : o.sale = s /\ o.product = p /\ o.type \in {"return"}}
           Z == {o \in BagToSet(B) :
                    o.sale = s /\ o.product = p /\ o.type \in {"sale", "return"}}
           w == [o \in BagToSet(B) |-> o.qty * B[o]]
<1>1. Z = X \cup Y /\ X \cap Y = {}
    <2>1. "sale" # "return"
        OBVIOUS
    <2>2. QED
        BY <2>1
<1>2. /\ X \in SUBSET BagToSet(B) /\ Y \in SUBSET BagToSet(B) /\ Z \in SUBSET BagToSet(B)
      /\ \A o \in BagToSet(B) : w[o] = o.qty * B[o]
    OBVIOUS
<1>3. /\ OfSale(B, s, p, {"sale", "return"}) = Total(B, Z)
      /\ OfSale(B, s, p, {"sale"}) = Total(B, X)
      /\ OfSale(B, s, p, {"return"}) = Total(B, Y)
    BY DEF OfSale
<1> HIDE DEF X, Y, Z, w
<1>4. /\ Total(B, X) = SumFunctionOnSet(w, X) /\ Ints(w, X) /\ IsFiniteSet(X)
      /\ Total(B, X) \in Int
    BY <1>2, TotalIs
<1>5. /\ Total(B, Y) = SumFunctionOnSet(w, Y) /\ Ints(w, Y) /\ IsFiniteSet(Y)
      /\ Total(B, Y) \in Int
    BY <1>2, TotalIs
<1>6. Total(B, Z) = SumFunctionOnSet(w, Z)
    BY <1>2, TotalIs
<1>7. SumFunctionOnSet(w, X \cup Y) = SumFunctionOnSet(w, X) + SumFunctionOnSet(w, Y)
    BY <1>1, <1>4, <1>5, SumUnion
<1>8. SumFunctionOnSet(w, Z) = SumFunctionOnSet(w, X \cup Y)
    BY <1>1, Zenon
<1>9. QED
    BY <1>3, <1>4, <1>5, <1>6, <1>7, <1>8

(* Rows that return nothing and sell no negative number of pieces. *)
OnlySells(C) == \A o \in BagToSet(C) : o.type # "return" /\ (o.type = "sale" => o.qty <= 0)

(* Such rows lower what a sale has of a product, or leave it. *)
LEMMA SalesTake ==
    ASSUME NEW C, GoodBag(C), OnlySells(C), NEW s, NEW p
    PROVE  OfSale(C, s, p, {"sale", "return"}) <= 0
<1> DEFINE Z == {o \in BagToSet(C) :
                    o.sale = s /\ o.product = p /\ o.type \in {"sale", "return"}}
           w == [o \in BagToSet(C) |-> o.qty * C[o]]
<1>1. Z \in SUBSET BagToSet(C) /\ \A o \in Z : w[o] = o.qty * C[o]
    OBVIOUS
<1>2. ASSUME NEW o \in Z
      PROVE  w[o] <= 0
    <2>1. o.qty \in Int /\ o.qty <= 0 /\ C[o] \in Nat
        BY DEF OnlySells, GoodBag
    <2>2. \A x \in Int, n \in Nat : x <= 0 => x * n <= 0
        OBVIOUS
    <2>3. o.qty * C[o] <= 0
        BY <2>1, <2>2
    <2>4. QED
        BY <2>3
<1>3. OfSale(C, s, p, {"sale", "return"}) = Total(C, Z)
    BY DEF OfSale
<1> HIDE DEF Z, w
<1>4. Total(C, Z) = SumFunctionOnSet(w, Z) /\ Ints(w, Z) /\ IsFiniteSet(Z)
    BY <1>1, TotalIs
<1>5. QED
    BY <1>2, <1>3, <1>4, SumNotPositive

(* Of what was sold under a sale something or nothing is left out, never   *)
(* less than nothing.                                                      *)
Redeemed(B) ==
    \A o \in BagToSet(B) :
        o.type = "return" => OfSale(B, o.sale, o.product, {"sale", "return"}) <= 0

(* That is ReturnsWithinSold. *)
LEMMA RedeemedIs ==
    ASSUME GoodBag(ledger)
    PROVE  Redeemed(ledger) <=> ReturnsWithinSold
<1>1. ASSUME NEW o \in BagToSet(ledger)
      PROVE  OfSale(ledger, o.sale, o.product, {"sale", "return"}) <= 0
                <=> OfSale(ledger, o.sale, o.product, {"return"})
                       <= -OfSale(ledger, o.sale, o.product, {"sale"})
    BY SalesAndReturns
<1>2. QED
    BY <1>1 DEF Redeemed, ReturnsWithinSold

(* Rows that return nothing keep the returns within the sales. *)
LEMMA SalesKeepRedeemed ==
    ASSUME NEW B, GoodBag(B), Redeemed(B), NEW C, GoodBag(C), OnlySells(C)
    PROVE  Redeemed(B (+) C)
<1> SUFFICES ASSUME NEW o \in BagToSet(B (+) C), o.type = "return"
             PROVE  OfSale(B (+) C, o.sale, o.product, {"sale", "return"}) <= 0
    BY DEF Redeemed
<1> DEFINE both == {"sale", "return"}
<1>1. o \in BagToSet(B)
    BY PlusGood DEF OnlySells
<1>2. OfSale(B, o.sale, o.product, both) <= 0
    BY <1>1 DEF Redeemed
<1>3. OfSale(C, o.sale, o.product, both) <= 0
    BY SalesTake
<1> HIDE DEF both
<1>4. /\ OfSale(B (+) C, o.sale, o.product, both)
            = OfSale(B, o.sale, o.product, both) + OfSale(C, o.sale, o.product, both)
      /\ OfSale(B, o.sale, o.product, both) \in Int
      /\ OfSale(C, o.sale, o.product, both) \in Int
    BY SumsPlus, SumsAreInts
<1>5. QED
    BY <1>2, <1>3, <1>4 DEF both

(* So does a return within what returnable_qty says. *)
LEMMA ReturnKeepsRedeemed ==
    ASSUME NEW B, GoodBag(B), Redeemed(B), NEW r, r.qty \in Int,
           r.type = "return", r.qty <= Returnable(B, r.sale, r.product)
    PROVE  Redeemed(B (+) SetToBag({r}))
<1> DEFINE C == SetToBag({r})
           both == {"sale", "return"}
<1> SUFFICES ASSUME NEW o \in BagToSet(B (+) C), o.type = "return"
             PROVE  OfSale(B (+) C, o.sale, o.product, both) <= 0
    BY DEF Redeemed
<1>1. GoodBag(C) /\ BagToSet(C) = {r}
    BY SetBagGood, FS_Singleton
<1>2. OfSale(C, o.sale, o.product, both)
         = IF r.sale = o.sale /\ r.product = o.product THEN r.qty ELSE 0
    <2>1. r.type \in both
        OBVIOUS
    <2> HIDE DEF both
    <2>2. QED
        BY <2>1, RowSums
<1>3. r.qty <= -OfSale(B, r.sale, r.product, both)
    BY DEF Returnable
<1>4. o \in BagToSet(B) => OfSale(B, o.sale, o.product, both) <= 0
    BY DEF Redeemed
<1> HIDE DEF both, C
<1>5. o \in BagToSet(B) \/ o = r
    <2>1. BagToSet(B (+) C) = BagToSet(B) \cup BagToSet(C)
        BY <1>1, PlusGood
    <2>2. QED
        BY <1>1, <2>1
<1>6. /\ OfSale(B (+) C, o.sale, o.product, both)
            = OfSale(B, o.sale, o.product, both) + OfSale(C, o.sale, o.product, both)
      /\ OfSale(B, o.sale, o.product, both) \in Int
    BY <1>1, SumsPlus, SumsAreInts
<1>7. CASE r.sale = o.sale /\ r.product = o.product
    BY <1>2, <1>3, <1>6, <1>7
<1>8. CASE ~(r.sale = o.sale /\ r.product = o.product)
    BY <1>2, <1>4, <1>5, <1>6, <1>8
<1>9. QED
    BY <1>7, <1>8

-----------------------------------------------------------------------------
(* One request at a time *)

(* The inductive invariant for one request at a time. *)
AloneStands == IInv /\ AloneInv

(* A plan is what it was when what it reads has not changed. *)
LEMMA StillSame ==
    ASSUME UNCHANGED <<ledger, batches>>, NEW r, Still(r)
    PROVE  Still(r)'
BY DEF Still, StillCovered, StillCounts, StillReturnable

(* With one request at a time no plan goes stale. *)
LEMMA AloneStep ==
    ASSUME OneAtATime, PushesNameBatches, IInv, AloneInv, NEW t \in Thread, 
           \/ Check(t) \/ Commit(t) \/ Delete(t) \/ MergeCommits(t) \/ Fail(t)
           \/ \E p \in Product : SoftDelete(t, p)
           \/ \E x \in Product \cup Warehouse : RestoreDeleted(t, x)
    PROVE  AloneInv'
<1>1. Thread = {t} /\ DOMAIN request = Thread
    BY DEF OneAtATime, IInv, PlansFit
<1> SUFFICES ASSUME Writes(request[t])'
             PROVE  Still(request[t])'
    BY <1>1 DEF AloneInv
<1>2. CASE Check(t)
    <2>1. ASSUME NEW plan, Plans(t, plan), SoundPlan(plan)
          PROVE  Still(request[t])'
        <3>1. UNCHANGED <<ledger, batches, stock, deleted>> /\ request'[t] = plan
            BY <1>1, <2>1 DEF Plans
        <3>2. Still(plan)'
            BY <2>1, <3>1, StillSame DEF SoundPlan
        <3>3. QED
            BY <3>1, <3>2 DEF Still, StillCovered, StillCounts, StillReturnable
    <2>2. ASSUME NEW rows \in SUBSET Pushed, MergeReads(t, rows)
          PROVE  Still(request[t])'
        <3>1. PICK plan : plan = MergePlan(rows)
            OBVIOUS
        <3>2. plan.kind = "merge"
            BY <3>1 DEF MergePlan, Plan, NoRequest
        <3>3. request'[t] = plan
            BY <1>1, <2>2, <3>1 DEF MergeReads, Plans
        <3>4. QED
            BY <3>2, <3>3 DEF Writes
    <2>3. QED
        BY <1>2, <2>1, <2>2, CheckPlans
<1>3. CASE Commit(t) \/ Delete(t) \/ MergeCommits(t) \/ Fail(t)
    <2>1. request'[t] = NoRequest
        BY <1>1, <1>3 DEF Commit, Delete, MergeCommits, Fail, Done
    <2>2. QED
        BY <2>1 DEF Writes, NoRequest
<1>4. CASE \/ \E p \in Product : SoftDelete(t, p)
           \/ \E x \in Product \cup Warehouse : RestoreDeleted(t, x)
    <2>1. request' = request /\ request[t].kind = "none"
        BY <1>4 DEF SoftDelete, RestoreDeleted, Idle
    <2>2. QED
        BY <2>1 DEF Writes
<1>5. QED
    BY <1>2, <1>3, <1>4

(* A step that changes nothing makes no plan stale. *)
LEMMA AloneStutter ==
    ASSUME AloneInv, UNCHANGED vars
    PROVE  AloneInv'
BY DEF AloneInv, Still, StillCovered, StillCounts, StillReturnable,
       OnHand, Writes, vars

(* At first there is no plan. *)
LEMMA AloneInit == Init => AloneInv
BY DEF Init, AloneInv, Writes, NoRequest

(* The rows of a plan are a ledger of their own. *)
LEMMA OpsBag ==
    ASSUME IInv, NEW t \in Thread, Writes(request[t])
    PROVE  /\ GoodBag(ledger) /\ GoodBag(ToBag(request[t].ops))
           /\ BagToSet(ToBag(request[t].ops)) = ToSet(request[t].ops)
<1>1. PlanFits(request[t], ledger, batches)
    BY DEF IInv, PlansFit
<1>2. QED
    BY <1>1, SeqBag DEF IInv, PlanFits, Fits

(* ReturnsWithinSold after a step, from the ledger after it. *)
LEMMA RedeemedAfter ==
    ASSUME GoodBag(ledger'), Redeemed(ledger')
    PROVE  ReturnsWithinSold'
<1>1. ASSUME NEW o \in BagToSet(ledger')
      PROVE  OfSale(ledger', o.sale, o.product, {"sale", "return"}) <= 0
                <=> OfSale(ledger', o.sale, o.product, {"return"})
                       <= -OfSale(ledger', o.sale, o.product, {"sale"})
    BY SalesAndReturns
<1>2. QED
    BY <1>1 DEF Redeemed, ReturnsWithinSold

(* Every step keeps the returns within the sales: a return by its plan,    *)
(* which is not stale, any other row because it is no return.              *)
LEMMA ReturnsStep ==
    ASSUME PushesNameBatches, ReturnsStayHome, IInv, AloneInv, ReturnsWithinSold,
           NEW t \in Thread,
           \/ Check(t) \/ Commit(t) \/ Delete(t) \/ MergeCommits(t) \/ Fail(t)
           \/ \E p \in Product : SoftDelete(t, p)
           \/ \E x \in Product \cup Warehouse : RestoreDeleted(t, x),
           GoodBag(ledger)'
    PROVE  ReturnsWithinSold'
<1>1. GoodBag(ledger) /\ Redeemed(ledger)
    BY RedeemedIs DEF IInv, Fits
<1>2. CASE Commit(t)
    <2> DEFINE C == ToBag(request[t].ops)
    <2>1. Writes(request[t]) /\ Still(request[t]) /\ ledger' = ledger (+) C
        BY <1>2 DEF Commit, Writes, AloneInv
    <2>2. GoodBag(C) /\ BagToSet(C) = ToSet(request[t].ops)
        BY <2>1, OpsBag
    <2>3. Redeemed(ledger (+) C)
        <3>1. CASE request[t].kind = "return"
            <4>1. PICK o \in ToSet(request[t].ops) :
                     /\ request[t].ops = <<o>> /\ o.type = "return"
                     /\ o.qty <= Returnable(ledger, o.sale, o.product)
                BY <2>1, <3>1 DEF Still, StillReturnable
            <4>2. C = SetToBag({o})
                BY <4>1, RowBag
            <4>3. o.qty \in Int
                BY <2>2 DEF GoodBag
            <4> HIDE DEF C
            <4>4. Redeemed(ledger (+) SetToBag({o}))
                BY <1>1, <4>1, <4>3, ReturnKeepsRedeemed
            <4>5. QED
                BY <4>2, <4>4, Zenon
        <3>2. CASE request[t].kind # "return"
            <4>1. OnlySells(C)
                BY <2>1, <2>2, <3>2 DEF Still, StillReturnable, OnlySells
            <4>2. QED
                BY <1>1, <2>2, <4>1, SalesKeepRedeemed
        <3>3. QED
            BY <3>1, <3>2
    <2>4. Redeemed(ledger')
        BY <2>1, <2>3, Zenon
    <2>5. QED
        BY <2>4, RedeemedAfter
<1>3. CASE MergeCommits(t)
    <2>1. PICK rows \in SUBSET Pushed : request[t] = MergePlan(rows)
        BY <1>3 DEF MergeCommits, IInv, PlansFit, Merges
    <2> DEFINE new == Arriving(rows)
    <2>2. new \subseteq Pushed /\ IsFiniteSet(new)
        BY PushesFit, FS_Subset DEF Arriving
    <2>3. request[t].ops = SetToSeq(new)
        BY <2>1 DEF MergePlan, Plan, NoRequest
    <2>4. \A o \in new : o.qty \in Int
        BY <2>2, PushesFit
    <2> HIDE DEF new
    <2>5. ledger' = ledger (+) SetToBag(new)
        BY <1>3, <2>2, <2>3, SetSeqBag DEF MergeCommits
    <2>6. GoodBag(SetToBag(new)) /\ BagToSet(SetToBag(new)) = new
        BY <2>2, <2>4, SetBagGood
    <2>7. OnlySells(SetToBag(new))
        BY <2>2, <2>6 DEF OnlySells, ReturnsStayHome
    <2>8. Redeemed(ledger (+) SetToBag(new))
        BY <1>1, <2>6, <2>7, SalesKeepRedeemed
    <2>9. Redeemed(ledger')
        BY <2>5, <2>8, Zenon
    <2>10. QED
        BY <2>9, RedeemedAfter
<1>4. CASE ledger' = ledger
    BY <1>4 DEF ReturnsWithinSold
<1>5. ASSUME \/ Check(t) \/ Delete(t) \/ Fail(t)
             \/ \E p \in Product : SoftDelete(t, p)
             \/ \E x \in Product \cup Warehouse : RestoreDeleted(t, x)
      PROVE  ledger' = ledger
    <2>1. CASE Check(t)
        BY <2>1, CheckPlans DEF Plans, MergeReads
    <2>2. QED
        BY <1>5, <2>1 DEF Delete, Fail, SoftDelete, RestoreDeleted
<1>6. QED
    BY <1>2, <1>3, <1>4, <1>5

(* Every step keeps the invariant of one request at a time. *)
LEMMA AloneStandsStep ==
    ASSUME OneAtATime, PushesNameBatches, AloneStands, [Next]_vars
    PROVE  AloneStands'
<1>1. IInv'
    BY StepInv DEF AloneStands
<1>2. AloneInv'
    <2>1. CASE Next
        <3>1. PICK t \in Thread :
                 \/ Check(t) \/ Commit(t) \/ Delete(t) \/ MergeCommits(t) \/ Fail(t)
                 \/ \E p \in Product : SoftDelete(t, p)
                 \/ \E x \in Product \cup Warehouse : RestoreDeleted(t, x)
            BY <2>1 DEF Next
        <3>2. QED
            BY <3>1, AloneStep DEF AloneStands
    <2>2. CASE UNCHANGED vars
        BY <2>2, AloneStutter DEF AloneStands
    <2>3. QED
        BY <2>1, <2>2
<1>3. QED
    BY <1>1, <1>2 DEF AloneStands

(* Migration 0008 leaves a database in which it holds. *)
LEMMA AloneStandsInit ==
    ASSUME NobodyOversold, Init
    PROVE  AloneStands
BY InitInv, AloneInit DEF AloneStands

(* The inductive invariant behind LedgerSound. *)
SoundInv == AloneStands /\ ReturnsWithinSold

(* It holds at first. *)
LEMMA SoundInit ==
    ASSUME NobodyOversold, ReturnsStayHome, Init
    PROVE  SoundInv
<1>1. AloneStands
    BY AloneStandsInit
<1>2. ledger = ToBag(OldLedger) /\ GoodBag(ledger) /\ BagToSet(ledger) = ToSet(OldLedger)
    BY OldBag DEF Init
<1>3. ASSUME NEW o \in BagToSet(ledger), o.type = "return"
      PROVE  OfSale(ledger, o.sale, o.product, {"sale", "return"}) <= 0
    <2>1. Returnable(ledger, o.sale, o.product) >= 0
        BY <1>2, <1>3 DEF ReturnsStayHome
    <2>2. OfSale(ledger, o.sale, o.product, {"sale", "return"}) \in Int
        BY <1>2, SumsAreInts
    <2>3. QED
        BY <2>1, <2>2 DEF Returnable
<1>4. ReturnsWithinSold
    BY <1>2, <1>3, RedeemedIs DEF Redeemed
<1>5. QED
    BY <1>1, <1>4 DEF SoundInv

(* Every step keeps it. *)
LEMMA SoundStep ==
    ASSUME OneAtATime, PushesNameBatches, ReturnsStayHome, SoundInv, [Next]_vars
    PROVE  SoundInv'
<1>1. AloneStands'
    BY AloneStandsStep DEF SoundInv
<1>2. GoodBag(ledger)'
    BY <1>1 DEF AloneStands, IInv, Fits
<1>3. ReturnsWithinSold'
    <2>1. CASE Next
        <3>1. PICK t \in Thread :
                 \/ Check(t) \/ Commit(t) \/ Delete(t) \/ MergeCommits(t) \/ Fail(t)
                 \/ \E p \in Product : SoftDelete(t, p)
                 \/ \E x \in Product \cup Warehouse : RestoreDeleted(t, x)
            BY <2>1 DEF Next
        <3>2. QED
            BY <1>2, <3>1, ReturnsStep DEF SoundInv, AloneStands
    <2>2. CASE UNCHANGED vars
        BY <2>2 DEF SoundInv, ReturnsWithinSold, vars
    <2>3. QED
        BY <2>1, <2>2
<1>4. QED
    BY <1>1, <1>3 DEF SoundInv

(* With one request at a time, for any products, batches and sales and     *)
(* whatever the other devices push, the ledger agrees with what is cached  *)
(* of it and no more of a product comes back from a sale than the sale     *)
(* sold (LedgerSound, returns.py).                                         *)
THEOREM OneAtATimeIsSound ==
    ASSUME OneAtATime, NobodyOversold, PushesNameBatches, ReturnsStayHome
    PROVE  Spec => []LedgerSound
<1>1. Init => SoundInv
    BY SoundInit
<1>2. SoundInv /\ [Next]_vars => SoundInv'
    BY SoundStep
<1>3. SoundInv => LedgerSound
    BY InvGivesLedgerHolds DEF SoundInv, AloneStands, LedgerSound
<1>4. QED
    BY <1>1, <1>2, <1>3, PTL DEF Spec

(* Who writes rows: a request's own commit, or that of a push. *)
LEMMA CommitsAre ==
    ASSUME OneAtATime, AloneStands, [Next]_vars, NEW t \in Thread, Commits(t)
    PROVE  \/ Commit(t) /\ Writes(request[t]) /\ Still(request[t])
           \/ request[t].kind = "merge" /\ request[t].confirm = TRUE /\ request[t].counted = None
<1>1. ledger' # ledger
    BY DEF Commits
<1>2. PICK u \in Thread : Commit(u) \/ MergeCommits(u)
    <2>1. ASSUME NEW u \in Thread, Check(u)
          PROVE  ledger' = ledger
        BY <2>1, CheckPlans DEF Plans, MergeReads, AloneStands
    <2>2. QED
        BY <1>1, <2>1 DEF Next, vars, Delete, Fail, SoftDelete, RestoreDeleted
<1>3. u = t
    BY DEF OneAtATime
<1>4. CASE Commit(t)
    BY <1>4 DEF Commit, Writes, AloneStands, AloneInv
<1>5. CASE MergeCommits(t)
    <2>1. PICK rows \in SUBSET Pushed : request[t] = MergePlan(rows)
        BY <1>5 DEF MergeCommits, AloneStands, IInv, PlansFit, Merges
    <2>2. QED
        BY <2>1 DEF MergePlan, Plan, NoRequest
<1>6. QED
    BY <1>2, <1>3, <1>4, <1>5

(* What a commit leaves in a batch that was there. *)
LEMMA BatchAfterCommit ==
    ASSUME IInv, NEW t \in Thread, Commit(t), NEW b \in DOMAIN batches
    PROVE  /\ batches'[b].quantity
                 = batches[b].quantity + OfBatch(ToBag(request[t].ops), b)
           /\ batches[b].quantity \in Int
<1> DEFINE N == With(batches, request[t].births)
           C == ToBag(request[t].ops)
<1>1. batches' = HeldAfter(N, C)
    BY DEF Commit
<1>2. b \in DOMAIN N /\ N[b] = batches[b] /\ batches[b] \in BatchRecord
    BY DEF With, IInv, BatchesFit
<1> HIDE DEF N, C
<1>3. HeldAfter(N, C)[b] = [N[b] EXCEPT !.quantity = @ + OfBatch(C, b)]
    BY <1>2 DEF HeldAfter
<1>4. HeldAfter(N, C)[b].quantity = N[b].quantity + OfBatch(C, b)
    BY <1>2, <1>3 DEF BatchRecord
<1>5. QED
    BY <1>1, <1>2, <1>4 DEF C, BatchRecord

(* A commit that was not confirmed leaves every batch it takes from at     *)
(* zero or above.                                                          *)
LEMMA UnconfirmedStep ==
    ASSUME OneAtATime, AloneStands, [Next]_vars, NEW t \in Thread, Commits(t),
           ~request[t].confirm, NEW o \in ToSet(request[t].ops), o.qty < 0
    PROVE  batches'[o.batch].quantity >= 0
<1>1. Commit(t) /\ Still(request[t])
    BY CommitsAre
<1>2. /\ o.batch \in DOMAIN batches
      /\ batches[o.batch].quantity + OfBatch(ToBag(request[t].ops), o.batch) >= 0
    BY <1>1 DEF Still, StillCovered
<1>3. QED
    BY <1>1, <1>2, BatchAfterCommit DEF AloneStands

(* A correction by count leaves the counted quantity. *)
LEMMA CountStep ==
    ASSUME OneAtATime, AloneStands, [Next]_vars, NEW t \in Thread, Commits(t),
           request[t].counted # None
    PROVE  batches'[request[t].ops[1].batch].quantity = request[t].counted
<1>1. Commit(t) /\ Still(request[t])
    BY CommitsAre
<1>2. PICK b \in DOMAIN batches :
         /\ request[t].counted \in Int
         /\ request[t].ops = <<Op("correction", batches[b].product,
                                  request[t].counted - batches[b].quantity, b, None)>>
    BY <1>1 DEF Still, StillCounts
<1> DEFINE d == request[t].counted - batches[b].quantity
           r == Op("correction", batches[b].product, d, b, None)
<1>3. batches'[b].quantity = batches[b].quantity + OfBatch(ToBag(request[t].ops), b)
    BY <1>1, BatchAfterCommit DEF AloneStands
<1>4. batches[b].quantity \in Int
    BY <1>1, BatchAfterCommit DEF AloneStands
<1>5. request[t].ops = <<r>> /\ r.qty = d /\ r.batch = b /\ d \in Int
    BY <1>2, <1>4, RowFields
<1> HIDE DEF r
<1>6. OfBatch(SetToBag({r}), b) = d
    BY <1>5, RowSums
<1>7. ToBag(request[t].ops) = SetToBag({r}) /\ request[t].ops[1] = r
    BY <1>5, RowBag
<1>8. OfBatch(ToBag(request[t].ops), b) = d
    BY <1>6, <1>7, Zenon
<1>9. request[t].ops[1].batch = b
    BY <1>5, <1>7
<1>10. QED
    BY <1>2, <1>3, <1>4, <1>8, <1>9

(* No plan is ever stale. *)
LEMMA AloneStandsAlways ==
    ASSUME OneAtATime, NobodyOversold, PushesNameBatches
    PROVE  Spec => []AloneStands
<1>1. Init => AloneStands
    BY AloneStandsInit
<1>2. AloneStands /\ [Next]_vars => AloneStands'
    BY AloneStandsStep
<1>3. QED
    BY <1>1, <1>2, PTL DEF Spec

(* With one request at a time a removal that the operator was not asked to *)
(* confirm takes no batch below zero, all lines of a basket counted        *)
(* together (register_sale, register_writeoff, register_transfer,          *)
(* register_correction: UnconfirmedKeepsStock).                            *)
THEOREM RemovalsAreCovered ==
    ASSUME OneAtATime, NobodyOversold, PushesNameBatches
    PROVE  Spec => UnconfirmedKeepsStock
<1>1. Spec => []AloneStands
    BY AloneStandsAlways
<1>2. AloneStands /\ [Next]_vars =>
         [\A t \in Thread : Commits(t) /\ ~request[t].confirm =>
             \A o \in ToSet(request[t].ops) :
                 o.qty < 0 => batches'[o.batch].quantity >= 0]_vars
    BY UnconfirmedStep
<1>3. QED
    BY <1>1, <1>2, PTL DEF Spec, UnconfirmedKeepsStock

(* With one request at a time a batch holds what was counted after a       *)
(* correction by count (register_correction: CountMeansCount).             *)
THEOREM CountsAreKept ==
    ASSUME OneAtATime, NobodyOversold, PushesNameBatches
    PROVE  Spec => CountMeansCount
<1>1. Spec => []AloneStands
    BY AloneStandsAlways
<1>2. AloneStands /\ [Next]_vars =>
         [\A t \in Thread : Commits(t) /\ request[t].counted # None =>
             batches'[request[t].ops[1].batch].quantity = request[t].counted]_vars
    BY CountStep
<1>3. QED
    BY <1>1, <1>2, PTL DEF Spec, CountMeansCount
=============================================================================
