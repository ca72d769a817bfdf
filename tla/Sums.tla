-------------------------------- MODULE Sums --------------------------------
(***************************************************************************)
(* Sums over finite sets: the facts that the proofs about the two ledgers  *)
(* share.  What ledger.py, sales.py and the reports compute with           *)
(* func.sum(...) is SumFunctionOnSet(f, S), the values f[x] added up over  *)
(* the rows x of S.                                                        *)
(*                                                                         *)
(* The library defines it by a fold, and its induction theorems take an    *)
(* operator; here induction is over a set of subsets (SetInduction), from  *)
(* the least element of a set of numbers.                                  *)
(***************************************************************************)
EXTENDS Integers, FiniteSets, Functions, FiniteSetTheorems, WellFoundedInduction,
        TLAPS

(* A set of numbers that holds 0 and, with a number, the next one holds    *)
(* all of them: the least number it lacks has no predecessor.              *)
LEMMA NatInduction1 ==
    ASSUME NEW T \in SUBSET Nat, 0 \in T, \A n \in T : n + 1 \in T
    PROVE  T = Nat
<1> SUFFICES ASSUME Nat \ T # {} PROVE FALSE
    OBVIOUS
<1> DEFINE R == OpToRel(<, Nat)
<1>1. PICK x \in Nat \ T : \A y \in Nat \ T : ~(<<y, x>> \in R)
    <2>1. IsWellFoundedOn(R, Nat)
        BY NatLessThanWellFounded
    <2> HIDE DEF R
    <2>2. Nat \ T \subseteq Nat
        OBVIOUS
    <2>3. QED
        BY <2>1, <2>2, WFMin
<1>2. x # 0 /\ x - 1 \in Nat /\ x - 1 < x
    OBVIOUS
<1>3. <<x - 1, x>> \in R
    BY <1>2 DEF OpToRel
<1>4. x - 1 \in T
    BY <1>1, <1>2, <1>3
<1>5. (x - 1) + 1 \in T /\ (x - 1) + 1 = x
    BY <1>2, <1>4
<1>6. QED
    BY <1>1, <1>5

(* What holds of the empty set and survives an element more holds of every *)
(* part of a finite set; the sums of the ledger are all of this kind.      *)
LEMMA SetInduction ==
    ASSUME NEW S, IsFiniteSet(S), NEW Q, {} \in Q,
           \A T \in SUBSET S, x \in S : T \in Q /\ x \notin T => T \cup {x} \in Q
    PROVE  \A T \in SUBSET S : T \in Q
<1> DEFINE N == {n \in Nat : \A T \in SUBSET S : Cardinality(T) = n => T \in Q}
<1>1. \A T \in SUBSET S : IsFiniteSet(T) /\ Cardinality(T) \in Nat
    BY FS_Subset, FS_CardinalityType
<1>2. 0 \in N
    BY <1>1, FS_EmptySet
<1>3. ASSUME NEW n \in N PROVE n + 1 \in N
    <2> SUFFICES ASSUME NEW T \in SUBSET S, Cardinality(T) = n + 1
                 PROVE  T \in Q
        OBVIOUS
    <2>1. n \in Nat /\ Cardinality(T) # 0
        OBVIOUS
    <2>2. PICK x : x \in T
        BY <1>1, <2>1, FS_EmptySet
    <2>3. Cardinality(T \ {x}) = n
        BY <1>1, <2>1, <2>2, FS_RemoveElement
    <2>4. T \ {x} \in Q
        BY <2>3
    <2>5. (T \ {x}) \cup {x} = T
        BY <2>2
    <2>6. QED
        BY <2>2, <2>4, <2>5
<1>4. N = Nat
    <2>1. N \in SUBSET Nat
        OBVIOUS
    <2> HIDE DEF N
    <2>2. QED
        BY <1>2, <1>3, <2>1, NatInduction1
<1>5. QED
    BY <1>1, <1>4

(* The function it gives the sum of f over every subset of S. *)
Adds(f, S, it) ==
    it = [T \in SUBSET S |->
             IF T = {} THEN 0
             ELSE f[CHOOSE x \in T : TRUE] + it[T \ {CHOOSE x \in T : TRUE}]]

(* The sum over a set is what the function that adds up its subsets says   *)
(* of it (the fold of the library, unfolded).                              *)
LEMMA SumIs ==
    ASSUME NEW f, NEW S
    PROVE  SumFunctionOnSet(f, S) = (CHOOSE it : Adds(f, S, it))[S]
BY DEF SumFunctionOnSet, FoldFunctionOnSet, MapThenFoldSet, Adds

(* Over a finite set that function exists: the sums of ledger.py are       *)
(* defined whatever the rows are.                                          *)
LEMMA AddsExists ==
    ASSUME NEW f, NEW S, IsFiniteSet(S)
    PROVE  \E it : Adds(f, S, it)
<1> DEFINE pick(T) == CHOOSE x \in T : TRUE
           step(it) == [T \in SUBSET S |-> IF T = {} THEN 0
                                           ELSE f[pick(T)] + it[T \ {pick(T)}]]
           upto(n) == {T \in SUBSET S : Cardinality(T) <= n}
           Fixed(n) == \E it : \A T \in upto(n) : it[T] = step(it)[T]
           N == {n \in Nat : Fixed(n)}
<1>1. \A T \in SUBSET S :
          /\ IsFiniteSet(T) /\ Cardinality(T) \in Nat
          /\ T # {} => /\ pick(T) \in T
                       /\ Cardinality(T \ {pick(T)}) = Cardinality(T) - 1
    BY FS_Subset, FS_CardinalityType, FS_RemoveElement
<1>2. 0 \in N
    <2>1. \A T \in upto(0) : T = {}
        BY <1>1, FS_EmptySet
    <2>2. \A T \in upto(0) : [U \in SUBSET S |-> 0][T] = step([U \in SUBSET S |-> 0])[T]
        BY <2>1
    <2>3. QED
        BY <2>2
<1>3. ASSUME NEW n \in N PROVE n + 1 \in N
    <2>1. PICK it : \A T \in upto(n) : it[T] = step(it)[T]
        OBVIOUS
    <2>2. ASSUME NEW T \in upto(n + 1)
          PROVE  step(it)[T] = step(step(it))[T]
        <3>1. CASE T = {}
            BY <3>1
        <3>2. CASE T # {}
            <4>1. T \ {pick(T)} \in upto(n)
                BY <1>1, <3>2
            <4>2. it[T \ {pick(T)}] = step(it)[T \ {pick(T)}]
                BY <2>1, <4>1
            <4>3. QED
                BY <3>2, <4>2
        <3>3. QED
            BY <3>1, <3>2
    <2>3. Fixed(n + 1)
        <3> HIDE DEF step, upto
        <3>1. QED
            BY <2>2
    <2> HIDE DEF Fixed
    <2>4. QED
        BY <2>3
<1>4. N = Nat
    <2>1. N \in SUBSET Nat
        OBVIOUS
    <2> HIDE DEF N
    <2>2. QED
        BY <1>2, <1>3, <2>1, NatInduction1
<1>5. Cardinality(S) \in Nat /\ \A T \in SUBSET S : Cardinality(T) <= Cardinality(S)
    BY FS_Subset, FS_CardinalityType
<1>6. PICK it : \A T \in SUBSET S : it[T] = step(it)[T]
    <2>1. Cardinality(S) \in N
        BY <1>4, <1>5
    <2>2. QED
        BY <1>5, <2>1
<1>7. step(it) = step(step(it))
    BY <1>6
<1>8. QED
    BY <1>7 DEF Adds

(* It says the same of a set whichever larger set it is taken for. *)
LEMMA AddsAgree ==
    ASSUME NEW f, NEW S, IsFiniteSet(S), NEW U \in SUBSET S,
           NEW i, Adds(f, S, i), NEW j, Adds(f, U, j)
    PROVE  \A T \in SUBSET U : i[T] = j[T]
<1> DEFINE pick(T) == CHOOSE x \in T : TRUE
           N == {n \in Nat : \A T \in SUBSET U : Cardinality(T) = n => i[T] = j[T]}
<1>1. \A T \in SUBSET U :
          /\ IsFiniteSet(T) /\ Cardinality(T) \in Nat
          /\ T # {} => /\ pick(T) \in T
                       /\ Cardinality(T \ {pick(T)}) = Cardinality(T) - 1
    BY FS_Subset, FS_CardinalityType, FS_RemoveElement
<1>2. \A T \in SUBSET U :
          /\ i[T] = IF T = {} THEN 0 ELSE f[pick(T)] + i[T \ {pick(T)}]
          /\ j[T] = IF T = {} THEN 0 ELSE f[pick(T)] + j[T \ {pick(T)}]
    BY DEF Adds
<1>3. 0 \in N
    <2>1. \A T \in SUBSET U : Cardinality(T) = 0 => T = {}
        BY <1>1, FS_EmptySet
    <2>2. QED
        BY <1>2, <2>1
<1>4. ASSUME NEW n \in N PROVE n + 1 \in N
    <2> SUFFICES ASSUME NEW T \in SUBSET U, Cardinality(T) = n + 1
                 PROVE  i[T] = j[T]
        OBVIOUS
    <2>1. T # {}
        <3>1. n + 1 # 0
            OBVIOUS
        <3>2. QED
            BY <3>1, FS_EmptySet
    <2>2. i[T \ {pick(T)}] = j[T \ {pick(T)}]
        BY <1>1, <2>1
    <2>3. QED
        BY <1>2, <2>1, <2>2
<1>5. N = Nat
    <2>1. N \in SUBSET Nat
        OBVIOUS
    <2> HIDE DEF N
    <2>2. QED
        BY <1>3, <1>4, <2>1, NatInduction1
<1>6. QED
    BY <1>1, <1>5

(* Every value added up is a whole number. *)
Ints(f, S) == \A x \in S : f[x] \in Int

(* No row adds up to nothing. *)
LEMMA SumEmpty == ASSUME NEW f PROVE SumFunctionOnSet(f, {}) = 0
<1>1. PICK it : Adds(f, {}, it) /\ SumFunctionOnSet(f, {}) = it[{}]
    BY SumIs, AddsExists, FS_EmptySet
<1>2. QED
    BY <1>1 DEF Adds

(* A sum is one of its values and the sum of the others. *)
LEMMA SumChosen ==
    ASSUME NEW f, NEW S, IsFiniteSet(S), S # {}
    PROVE  \E x \in S : SumFunctionOnSet(f, S) = f[x] + SumFunctionOnSet(f, S \ {x})
<1>1. PICK i : Adds(f, S, i) /\ SumFunctionOnSet(f, S) = i[S]
    BY SumIs, AddsExists
<1> DEFINE x == CHOOSE x \in S : TRUE
<1>2. x \in S /\ IsFiniteSet(S \ {x})
    BY FS_RemoveElement
<1>3. PICK j : Adds(f, S \ {x}, j) /\ SumFunctionOnSet(f, S \ {x}) = j[S \ {x}]
    BY <1>2, SumIs, AddsExists
<1>4. i[S \ {x}] = j[S \ {x}]
    BY <1>1, <1>3, AddsAgree
<1>5. i[S] = f[x] + i[S \ {x}]
    BY <1>1 DEF Adds
<1>6. QED
    BY <1>1, <1>2, <1>3, <1>4, <1>5

(* The same for any of its values: SUM(qty_delta) does not depend on the   *)
(* order in which the rows are read.                                       *)
LEMMA SumPick ==
    ASSUME NEW f, NEW S, IsFiniteSet(S), Ints(f, S)
    PROVE  /\ SumFunctionOnSet(f, S) \in Int
           /\ \A x \in S : SumFunctionOnSet(f, S) = f[x] + SumFunctionOnSet(f, S \ {x})
<1> DEFINE sum(T) == SumFunctionOnSet(f, T)
           Good(T) == /\ sum(T) \in Int
                      /\ \A x \in T : sum(T) = f[x] + sum(T \ {x})
           Small(n) == \A T \in SUBSET S : Cardinality(T) <= n => Good(T)
           N == {n \in Nat : Small(n)}
<1>1. \A T \in SUBSET S : /\ IsFiniteSet(T) /\ Cardinality(T) \in Nat
                          /\ \A x \in T : Cardinality(T \ {x}) = Cardinality(T) - 1
    BY FS_Subset, FS_CardinalityType, FS_RemoveElement
<1>2. 0 \in N
    <2>1. \A T \in SUBSET S : Cardinality(T) <= 0 => T = {}
        BY <1>1, FS_EmptySet
    <2>2. Good({})
        BY SumEmpty
    <2> HIDE DEF Good
    <2>3. QED
        BY <2>1, <2>2
<1>3. ASSUME NEW n \in N PROVE n + 1 \in N
    <2>1. ASSUME NEW T \in SUBSET S, Cardinality(T) = n + 1
          PROVE  Good(T)
        <3> HIDE DEF sum
        <3>1. T # {}
            <4>1. n + 1 # 0
                OBVIOUS
            <4>2. QED
                BY <2>1, <4>1, FS_EmptySet
        <3>2. PICK x \in T : sum(T) = f[x] + sum(T \ {x})
            BY <1>1, <3>1, SumChosen DEF sum
        <3>3. \A y \in T : Good(T \ {y})
            BY <1>1, <2>1
        <3>4. sum(T) \in Int
            BY <3>2, <3>3 DEF Ints
        <3>5. ASSUME NEW y \in T, y # x
              PROVE  sum(T) = f[y] + sum(T \ {y})
            <4>1. /\ sum(T \ {x}) = f[y] + sum((T \ {x}) \ {y})
                  /\ sum(T \ {y}) = f[x] + sum((T \ {y}) \ {x})
                BY <3>3, <3>5
            <4>2. (T \ {x}) \ {y} = (T \ {y}) \ {x}
                OBVIOUS
            <4>3. f[x] \in Int /\ f[y] \in Int
                BY DEF Ints
            <4>4. sum((T \ {x}) \ {y}) \in Int
                <5>1. Cardinality((T \ {x}) \ {y}) <= n /\ n \in Nat
                    <6>1. T \ {x} \in SUBSET S /\ y \in T \ {x}
                        BY <3>5
                    <6>2. /\ Cardinality(T \ {x}) = (n + 1) - 1 /\ n \in Nat
                          /\ Cardinality((T \ {x}) \ {y}) = Cardinality(T \ {x}) - 1
                        <7> HIDE DEF Small
                        <7>1. QED
                            BY <1>1, <2>1, <6>1
                    <6>3. QED
                        BY <6>2
                <5>2. QED
                    BY <5>1
            <4>5. QED
                BY <3>2, <4>1, <4>2, <4>3, <4>4
        <3>6. QED
            BY <3>2, <3>4, <3>5
    <2> HIDE DEF Good
    <2>2. ASSUME NEW T \in SUBSET S, Cardinality(T) <= n + 1
          PROVE  Good(T)
        <3>1. Cardinality(T) \in Nat /\ n \in Nat
            BY <1>1
        <3>2. Cardinality(T) <= n \/ Cardinality(T) = n + 1
            BY <2>2, <3>1
        <3>3. QED
            BY <2>1, <3>2
    <2>3. QED
        BY <2>2
<1>4. N = Nat
    <2>1. N \in SUBSET Nat
        OBVIOUS
    <2> HIDE DEF N
    <2>2. QED
        BY <1>2, <1>3, <2>1, NatInduction1
<1>5. Good(S)
    <2> HIDE DEF Good
    <2>1. Cardinality(S) \in Nat
        BY <1>1
    <2>2. QED
        BY <1>4, <2>1
<1>6. QED
    BY <1>5

(* A new element adds its value to the sum. *)
LEMMA SumPut ==
    ASSUME NEW f, NEW S, IsFiniteSet(S), NEW x, x \notin S, Ints(f, S \cup {x})
    PROVE  /\ SumFunctionOnSet(f, S \cup {x}) = f[x] + SumFunctionOnSet(f, S)
           /\ SumFunctionOnSet(f, S) \in Int /\ f[x] \in Int
<1>1. IsFiniteSet(S \cup {x}) /\ (S \cup {x}) \ {x} = S
    BY FS_AddElement
<1>2. Ints(f, S)
    BY DEF Ints
<1>3. QED
    BY <1>1, <1>2, SumPick DEF Ints

(* Sums of the same values are the same. *)
LEMMA SumSame ==
    ASSUME NEW f, NEW g, NEW S, IsFiniteSet(S), Ints(f, S),
           \A x \in S : f[x] = g[x]
    PROVE  SumFunctionOnSet(f, S) = SumFunctionOnSet(g, S)
<1> DEFINE Q == {T \in SUBSET S : SumFunctionOnSet(f, T) = SumFunctionOnSet(g, T)}
<1>1. {} \in Q
    BY SumEmpty
<1>2. ASSUME NEW T \in SUBSET S, NEW x \in S, T \in Q, x \notin T
      PROVE  T \cup {x} \in Q
    <2>1. IsFiniteSet(T) /\ Ints(f, T \cup {x}) /\ Ints(g, T \cup {x})
        BY FS_Subset DEF Ints
    <2>2. /\ SumFunctionOnSet(f, T \cup {x}) = f[x] + SumFunctionOnSet(f, T)
          /\ SumFunctionOnSet(g, T \cup {x}) = g[x] + SumFunctionOnSet(g, T)
        BY <1>2, <2>1, SumPut
    <2>3. QED
        BY <1>2, <2>2
<1> HIDE DEF Q
<1>3. S \in Q
    BY <1>1, <1>2, SetInduction
<1>4. QED
    BY <1>3 DEF Q

(* The sum of sums of two values. *)
LEMMA SumBoth ==
    ASSUME NEW f, NEW g, NEW h, NEW S, IsFiniteSet(S), Ints(f, S), Ints(g, S),
           \A x \in S : h[x] = f[x] + g[x]
    PROVE  SumFunctionOnSet(h, S) = SumFunctionOnSet(f, S) + SumFunctionOnSet(g, S)
<1> DEFINE Q == {T \in SUBSET S :
                    SumFunctionOnSet(h, T) = SumFunctionOnSet(f, T) + SumFunctionOnSet(g, T)}
<1>1. {} \in Q
    BY SumEmpty
<1>2. ASSUME NEW T \in SUBSET S, NEW x \in S, T \in Q, x \notin T
      PROVE  T \cup {x} \in Q
    <2>1. /\ IsFiniteSet(T) /\ Ints(f, T \cup {x})
          /\ Ints(g, T \cup {x}) /\ Ints(h, T \cup {x})
        BY FS_Subset DEF Ints
    <2>2. /\ SumFunctionOnSet(f, T \cup {x}) = f[x] + SumFunctionOnSet(f, T)
          /\ SumFunctionOnSet(g, T \cup {x}) = g[x] + SumFunctionOnSet(g, T)
          /\ SumFunctionOnSet(h, T \cup {x}) = h[x] + SumFunctionOnSet(h, T)
          /\ SumFunctionOnSet(f, T) \in Int /\ SumFunctionOnSet(g, T) \in Int
          /\ f[x] \in Int /\ g[x] \in Int
        BY <1>2, <2>1, SumPut
    <2>3. QED
        BY <1>2, <2>2
<1> HIDE DEF Q
<1>3. S \in Q
    BY <1>1, <1>2, SetInduction
<1>4. QED
    BY <1>3 DEF Q

(* The sum over two sets without common elements. *)
LEMMA SumUnion ==
    ASSUME NEW f, NEW R, NEW S, IsFiniteSet(R), IsFiniteSet(S), R \cap S = {},
           Ints(f, R), Ints(f, S)
    PROVE  SumFunctionOnSet(f, R \cup S) = SumFunctionOnSet(f, R) + SumFunctionOnSet(f, S)
<1> DEFINE Q == {T \in SUBSET S :
                    SumFunctionOnSet(f, R \cup T) = SumFunctionOnSet(f, R) + SumFunctionOnSet(f, T)}
<1>1. {} \in Q
    <2>1. R \cup {} = R
        OBVIOUS
    <2>2. QED
        BY <2>1, SumEmpty, SumPick
<1>2. ASSUME NEW T \in SUBSET S, NEW x \in S, T \in Q, x \notin T
      PROVE  T \cup {x} \in Q
    <2>1. /\ IsFiniteSet(T) /\ IsFiniteSet(R \cup T)
          /\ Ints(f, T \cup {x}) /\ Ints(f, (R \cup T) \cup {x})
        BY FS_Subset, FS_Union DEF Ints
    <2>2. /\ SumFunctionOnSet(f, T \cup {x}) = f[x] + SumFunctionOnSet(f, T)
          /\ SumFunctionOnSet(f, (R \cup T) \cup {x}) = f[x] + SumFunctionOnSet(f, R \cup T)
          /\ SumFunctionOnSet(f, T) \in Int /\ f[x] \in Int
        BY <1>2, <2>1, SumPut
    <2>3. SumFunctionOnSet(f, R) \in Int /\ R \cup (T \cup {x}) = (R \cup T) \cup {x}
        BY SumPick
    <2>4. SumFunctionOnSet(f, R \cup (T \cup {x}))
             = SumFunctionOnSet(f, R) + SumFunctionOnSet(f, T \cup {x})
        <3>1. SumFunctionOnSet(f, R \cup T)
                 = SumFunctionOnSet(f, R) + SumFunctionOnSet(f, T)
            BY <1>2
        <3>2. SumFunctionOnSet(f, R \cup (T \cup {x}))
                 = f[x] + SumFunctionOnSet(f, R \cup T)
            BY <2>2, <2>3, Zenon
        <3> HIDE DEF Q
        <3>3. QED
            BY <2>2, <2>3, <3>1, <3>2
    <2>5. QED
        BY <2>4
<1> HIDE DEF Q
<1>3. S \in Q
    BY <1>1, <1>2, SetInduction
<1>4. QED
    BY <1>3 DEF Q

(* Values that are all 0 add up to 0. *)
LEMMA SumZero ==
    ASSUME NEW f, NEW S, IsFiniteSet(S), \A x \in S : f[x] = 0
    PROVE  SumFunctionOnSet(f, S) = 0
<1> DEFINE Q == {T \in SUBSET S : SumFunctionOnSet(f, T) = 0}
<1>1. {} \in Q
    BY SumEmpty
<1>2. ASSUME NEW T \in SUBSET S, NEW x \in S, T \in Q, x \notin T
      PROVE  T \cup {x} \in Q
    <2>1. IsFiniteSet(T) /\ Ints(f, T \cup {x})
        BY FS_Subset DEF Ints
    <2>2. SumFunctionOnSet(f, T \cup {x}) = f[x] + SumFunctionOnSet(f, T)
        BY <1>2, <2>1, SumPut
    <2>3. QED
        BY <1>2, <2>2
<1> HIDE DEF Q
<1>3. S \in Q
    BY <1>1, <1>2, SetInduction
<1>4. QED
    BY <1>3 DEF Q

(* The sum over a single element. *)
LEMMA SumOne ==
    ASSUME NEW f, NEW x, f[x] \in Int
    PROVE  SumFunctionOnSet(f, {x}) = f[x]
<1>1. IsFiniteSet({}) /\ {} \cup {x} = {x} /\ Ints(f, {} \cup {x})
    BY FS_EmptySet DEF Ints
<1>2. QED
    BY <1>1, SumPut, SumEmpty

(* Summing by groups: the rows of a product, grouped by batch (GROUP BY in *)
(* recompute_derived), add up to the rows of the product.                  *)
LEMMA SumSplit ==
    ASSUME NEW f, NEW S, IsFiniteSet(S), Ints(f, S),
           NEW K, IsFiniteSet(K), NEW key \in [S -> K],
           NEW rows, \A k \in K : \A x : x \in rows[k] <=> x \in S /\ key[x] = k,
           NEW g, \A k \in K : g[k] = SumFunctionOnSet(f, rows[k])
    PROVE  SumFunctionOnSet(f, S) = SumFunctionOnSet(g, K)
<1> DEFINE fiber(T, k) == {x \in T : key[x] = k}
           part(T) == [k \in K |-> SumFunctionOnSet(f, fiber(T, k))]
           Q == {T \in SUBSET S : SumFunctionOnSet(f, T) = SumFunctionOnSet(part(T), K)}
<1>1. {} \in Q
    <2>1. \A k \in K : part({})[k] = 0
        <3>1. \A k \in K : {x \in {} : key[x] = k} = {}
            OBVIOUS
        <3>2. QED
            BY <3>1, SumEmpty
    <2>2. SumFunctionOnSet(part({}), K) = 0
        BY <2>1, SumZero
    <2>3. QED
        BY <2>2, SumEmpty
<1>2. ASSUME NEW T \in SUBSET S, NEW y \in S, T \in Q, y \notin T
      PROVE  T \cup {y} \in Q
    <2> DEFINE more == [k \in K |-> IF k = key[y] THEN f[y] ELSE 0]
    <2>1. IsFiniteSet(T) /\ Ints(f, T \cup {y}) /\ key[y] \in K /\ f[y] \in Int
        BY FS_Subset DEF Ints
    <2>2. ASSUME NEW k \in K
          PROVE  /\ part(T)[k] \in Int
                 /\ part(T \cup {y})[k] = part(T)[k] + more[k]
        <3>1. IsFiniteSet(fiber(T, k)) /\ Ints(f, fiber(T, k)) /\ y \notin fiber(T, k)
            BY <1>2, <2>1, FS_Subset DEF Ints
        <3>2. SumFunctionOnSet(f, fiber(T, k)) \in Int
            BY <3>1, SumPick
        <3>3. CASE k = key[y]
            <4>1. fiber(T \cup {y}, k) = fiber(T, k) \cup {y} /\ Ints(f, fiber(T, k) \cup {y})
                BY <3>3, <2>1 DEF Ints
            <4>2. SumFunctionOnSet(f, fiber(T, k) \cup {y})
                     = f[y] + SumFunctionOnSet(f, fiber(T, k))
                <5> HIDE DEF fiber
                <5>1. QED
                    BY <3>1, <4>1, SumPut
            <4>3. more[k] = f[y]
                BY <3>3
            <4>4. part(T \cup {y})[k] = f[y] + SumFunctionOnSet(f, fiber(T, k))
                BY <4>1, <4>2
            <4>5. part(T)[k] = SumFunctionOnSet(f, fiber(T, k))
                OBVIOUS
            <4> HIDE DEF fiber, more, part
            <4>6. QED
                BY <2>1, <3>2, <4>3, <4>4, <4>5
        <3>4. CASE k # key[y]
            <4>1. fiber(T \cup {y}, k) = fiber(T, k)
                BY <3>4
            <4>2. more[k] = 0
                BY <3>4
            <4> HIDE DEF fiber, more
            <4>3. QED
                BY <3>2, <4>1, <4>2
        <3>5. QED
            BY <3>3, <3>4
    <2>3. SumFunctionOnSet(more, K) = f[y]
        <3>1. IsFiniteSet(K \ {key[y]}) /\ Ints(more, K)
            BY <2>1, FS_RemoveElement DEF Ints
        <3>2. SumFunctionOnSet(more, K \ {key[y]}) = 0
            BY <3>1, SumZero
        <3>3. SumFunctionOnSet(more, K) = more[key[y]] + SumFunctionOnSet(more, K \ {key[y]})
            <4> HIDE DEF more
            <4>1. QED
                BY <2>1, <3>1, SumPick
        <3>4. QED
            BY <2>1, <3>2, <3>3
    <2>4. Ints(part(T), K) /\ Ints(more, K)
        <3>1. Ints(more, K)
            BY <2>1 DEF Ints
        <3> HIDE DEF part
        <3>2. QED
            BY <2>2, <3>1 DEF Ints
    <2>5. \A k \in K : part(T \cup {y})[k] = part(T)[k] + more[k]
        BY <2>2
    <2>6. SumFunctionOnSet(f, T \cup {y}) = f[y] + SumFunctionOnSet(f, T)
        BY <1>2, <2>1, SumPut
    <2> HIDE DEF part, more
    <2>7. SumFunctionOnSet(part(T \cup {y}), K) = SumFunctionOnSet(part(T), K) + SumFunctionOnSet(more, K)
        <3> DEFINE before == part(T)
                   after == part(T \cup {y})
        <3>1. /\ Ints(before, K) /\ Ints(more, K)
              /\ \A k \in K : after[k] = before[k] + more[k]
            BY <2>4, <2>5
        <3> HIDE DEF before, after, Q, fiber
        <3>2. SumFunctionOnSet(after, K) = SumFunctionOnSet(before, K) + SumFunctionOnSet(more, K)
            BY <3>1, SumBoth
        <3>3. QED
            BY <3>2 DEF before, after
    <2>8. SumFunctionOnSet(part(T), K) \in Int
        BY <2>4, SumPick
    <2>9. QED
        BY <1>2, <2>1, <2>3, <2>6, <2>7, <2>8
<1>3. S \in Q
    <2> HIDE DEF Q
    <2>1. QED
        BY <1>1, <1>2, SetInduction
<1>4. \A k \in K : part(S)[k] = g[k] /\ part(S)[k] \in Int
    <2>0. ASSUME NEW k \in K
          PROVE  g[k] = SumFunctionOnSet(f, {x \in S : key[x] = k})
        <3>1. rows[k] = {x \in S : key[x] = k}
            OBVIOUS
        <3>2. QED
            BY <3>1
    <2>1. ASSUME NEW k \in K
          PROVE  SumFunctionOnSet(f, {x \in S : key[x] = k}) \in Int
        <3>1. IsFiniteSet({x \in S : key[x] = k}) /\ Ints(f, {x \in S : key[x] = k})
            BY FS_Subset DEF Ints
        <3>2. QED
            BY <3>1, SumPick
    <2>2. QED
        BY <2>0, <2>1
<1>5. SumFunctionOnSet(part(S), K) = SumFunctionOnSet(g, K)
    <2> HIDE DEF part
    <2>1. QED
        BY <1>4, SumSame DEF Ints
<1>6. QED
    BY <1>3, <1>5

(* Sums of values that are not negative are not negative. *)
LEMMA SumNotNegative ==
    ASSUME NEW f, NEW S, IsFiniteSet(S), Ints(f, S), \A x \in S : f[x] >= 0
    PROVE  SumFunctionOnSet(f, S) >= 0
<1> DEFINE Q == {T \in SUBSET S : SumFunctionOnSet(f, T) >= 0}
<1>1. {} \in Q
    BY SumEmpty
<1>2. ASSUME NEW T \in SUBSET S, NEW x \in S, T \in Q, x \notin T
      PROVE  T \cup {x} \in Q
    <2>1. IsFiniteSet(T) /\ Ints(f, T \cup {x})
        BY FS_Subset DEF Ints
    <2>2. /\ SumFunctionOnSet(f, T \cup {x}) = f[x] + SumFunctionOnSet(f, T)
          /\ SumFunctionOnSet(f, T) \in Int /\ f[x] \in Int
        BY <1>2, <2>1, SumPut
    <2>3. QED
        BY <1>2, <2>2
<1> HIDE DEF Q
<1>3. S \in Q
    BY <1>1, <1>2, SetInduction
<1>4. QED
    BY <1>3 DEF Q

LEMMA TimesZero == \A u \in Int : u * 0 = 0
    OBVIOUS

LEMMA TimesSum == \A u, a, b \in Int : u * (a + b) = u * a + u * b /\ u * a \in Int
    OBVIOUS

(* Pieces that all have one price are worth that price times their number. *)
LEMMA SumTimes ==
    ASSUME NEW f, NEW g, NEW S, IsFiniteSet(S), Ints(f, S),
           NEW u \in Int, \A x \in S : g[x] = u * f[x]
    PROVE  SumFunctionOnSet(g, S) = u * SumFunctionOnSet(f, S)
<1> DEFINE Q == {T \in SUBSET S : SumFunctionOnSet(g, T) = u * SumFunctionOnSet(f, T)}
<1>1. {} \in Q
    BY SumEmpty, TimesZero
<1>2. ASSUME NEW T \in SUBSET S, NEW x \in S, T \in Q, x \notin T
      PROVE  T \cup {x} \in Q
    <2>1. IsFiniteSet(T) /\ Ints(f, T \cup {x}) /\ Ints(g, T \cup {x})
        BY FS_Subset, TimesSum DEF Ints
    <2>2. /\ SumFunctionOnSet(f, T \cup {x}) = f[x] + SumFunctionOnSet(f, T)
          /\ SumFunctionOnSet(g, T \cup {x}) = g[x] + SumFunctionOnSet(g, T)
          /\ SumFunctionOnSet(f, T) \in Int /\ f[x] \in Int
        BY <1>2, <2>1, SumPut
    <2>3. u * (f[x] + SumFunctionOnSet(f, T)) = u * f[x] + u * SumFunctionOnSet(f, T)
        BY <2>2, TimesSum
    <2>4. SumFunctionOnSet(g, T \cup {x}) = u * SumFunctionOnSet(f, T \cup {x})
        BY <1>2, <2>2, <2>3
    <2>5. QED
        BY <2>4
<1> HIDE DEF Q
<1>3. S \in Q
    BY <1>1, <1>2, SetInduction
<1>4. QED
    BY <1>3 DEF Q

(* Rows that add nothing may be left out. *)
LEMMA SumFilter ==
    ASSUME NEW f, NEW S, IsFiniteSet(S), Ints(f, S),
           NEW R \in SUBSET S, \A x \in S \ R : f[x] = 0
    PROVE  SumFunctionOnSet(f, S) = SumFunctionOnSet(f, R)
<1>1. /\ IsFiniteSet(R) /\ IsFiniteSet(S \ R) /\ Ints(f, R) /\ Ints(f, S \ R)
      /\ R \cap (S \ R) = {} /\ R \cup (S \ R) = S
    BY FS_Subset DEF Ints
<1>2. SumFunctionOnSet(f, S) = SumFunctionOnSet(f, R) + SumFunctionOnSet(f, S \ R)
    BY <1>1, SumUnion
<1>3. SumFunctionOnSet(f, S \ R) = 0
    BY <1>1, SumZero
<1>4. SumFunctionOnSet(f, R) \in Int
    BY <1>1, SumPick
<1>5. QED
    BY <1>2, <1>3, <1>4

(* The same values under other names add up to the same. *)
LEMMA SumMap ==
    ASSUME NEW f, NEW g, NEW S, IsFiniteSet(S), Ints(f, S), NEW T,
           NEW h \in Bijection(S, T), \A x \in S : g[h[x]] = f[x]
    PROVE  SumFunctionOnSet(f, S) = SumFunctionOnSet(g, T)
<1> DEFINE image(U) == {h[x] : x \in U}
           Q == {U \in SUBSET S : /\ IsFiniteSet(image(U))
                                  /\ SumFunctionOnSet(f, U) = SumFunctionOnSet(g, image(U))}
<1>0. /\ \A x \in S : h[x] \in T
      /\ \A x, y \in S : h[x] = h[y] => x = y
      /\ \A z \in T : \E x \in S : h[x] = z
    BY DEF Bijection, Injection, Surjection, IsInjective
<1>1. {} \in Q
    <2>1. image({}) = {}
        OBVIOUS
    <2>2. QED
        BY <2>1, SumEmpty, FS_EmptySet
<1>2. ASSUME NEW U \in SUBSET S, NEW x \in S, U \in Q, x \notin U
      PROVE  U \cup {x} \in Q
    <2>1. /\ IsFiniteSet(U) /\ IsFiniteSet(image(U)) /\ Ints(f, U \cup {x})
          /\ Ints(g, image(U) \cup {h[x]}) /\ h[x] \notin image(U)
          /\ image(U \cup {x}) = image(U) \cup {h[x]}
        <3>1. IsFiniteSet(U)
            BY FS_Subset
        <3>2. IsFiniteSet(image(U))
            BY <1>2
        <3>3. h[x] \notin image(U)
            BY <1>0, <1>2
        <3>4. image(U \cup {x}) = image(U) \cup {h[x]}
            OBVIOUS
        <3>5. QED
            BY <3>1, <3>2, <3>3, <3>4 DEF Ints
    <2> HIDE DEF image
    <2>2. /\ SumFunctionOnSet(f, U \cup {x}) = f[x] + SumFunctionOnSet(f, U)
          /\ SumFunctionOnSet(g, image(U) \cup {h[x]})
                = g[h[x]] + SumFunctionOnSet(g, image(U))
        BY <1>2, <2>1, SumPut
    <2>3. IsFiniteSet(image(U) \cup {h[x]})
        BY <2>1, FS_AddElement
    <2>4. QED
        BY <1>2, <2>1, <2>2, <2>3
<1>3. S \in Q
    <2> HIDE DEF Q
    <2>1. QED
        BY <1>1, <1>2, SetInduction
<1>4. image(S) = T
    BY <1>0
<1>5. QED
    BY <1>3, <1>4
=============================================================================
