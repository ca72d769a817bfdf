-------------------------- MODULE CatalogueProofs --------------------------
(***************************************************************************)
(* Proofs about what the shop sells: cards, codes and pages (module        *)
(* Catalogue), for any cards, batches, clients, codes and page sizes; the  *)
(* price history and the dictionary they take their names from (module     *)
(* Import), for every set of codes, catalogues and consoles; and the sheet *)
(* that is booked as a receipt (module Sheet), for any rows and batches.   *)
(*                                                                         *)
(* That a push meets no duplicate code needs that a code with a suffix     *)
(* stays on the card it was made for, wherever pages carry it.  That a     *)
(* complete pull has missed nothing needs what a run that is paging has    *)
(* brought so far: every row behind its cursor.  That a dry run predicts   *)
(* the booking needs what it says of the rows that are not booked yet.     *)
(***************************************************************************)
EXTENDS Catalogue, Import, Sheet, TLAPS

-----------------------------------------------------------------------------
(* Cards, codes and pages *)

(* A card has a code that was typed, or its own with its UUID.             *)
OwnCode(p, c) == c \in Code \/ \E typed \in Code : c = Suffixed(typed, p)
OwnCodes(f) == \A p \in Product : Present(f, p) => OwnCode(p, f[p].code)

(* What a client sends is there to be sent.                                *)
ClientRows(d) ==
    /\ \A r \in unsynced[d] : Present(local[d], r)
    /\ \A b \in Batch : Present(local[d], b) => Present(local[d], Of[b])

(* Behind the cursor everything has arrived.                               *)
Paged(d) ==
    run[d].step = "pull" =>
        \A r \in Row \ run[d].changed :
            Present(server, r) /\ ~Past(run[d].cursor, r)
                => local[d][r] = Unstamped(server[r])

IInv ==
    /\ TypeOK /\ now <= changes
    /\ OwnCodes(server) /\ CodesUnique(server)
    /\ \A d \in Client : OwnCodes(local[d]) /\ ClientRows(d) /\ Paged(d)

-----------------------------------------------------------------------------
(* Rows and codes *)

LEMMA Kinds ==
    /\ Product \subseteq Row /\ Batch \subseteq Row
    /\ \A r \in Row : r \in Nat /\ (r \in Batch <=> r \notin Product)
    /\ \A b \in Batch : Of[b] \in Product
    BY Ids DEF Row

LEMMA RowTypes ==
    /\ \A carried \in LocalRow, t \in Nat :
          /\ Stamped(carried, t) \in ServerRow /\ Stamped(carried, t) # None
          /\ Stamped(carried, t).code = carried.code
          /\ Stamped(carried, t).deleted = carried.deleted
          /\ Unstamped(Stamped(carried, t)) = carried
          /\ carried # None
    /\ \A row \in ServerRow :
          /\ Unstamped(row) \in LocalRow /\ Unstamped(row) # None /\ row # None
          /\ Unstamped(row).code = row.code /\ Unstamped(row).deleted = row.deleted
    /\ \A c \in Codes, gone \in BOOLEAN :
          /\ Card(c, gone) \in LocalRow
          /\ Card(c, gone).code = c /\ Card(c, gone).deleted = gone
<1>1. \A c \in Codes, gone \in BOOLEAN :
          /\ Card(c, gone) \in LocalRow
          /\ Card(c, gone).code = c /\ Card(c, gone).deleted = gone
    BY DEF Card, LocalRow
<1>2. ASSUME NEW carried \in LocalRow, NEW t \in Nat
      PROVE  /\ Stamped(carried, t) \in ServerRow /\ Stamped(carried, t) # None
             /\ Stamped(carried, t).code = carried.code
             /\ Stamped(carried, t).deleted = carried.deleted
             /\ Unstamped(Stamped(carried, t)) = carried
             /\ carried # None
    BY Absent DEF Stamped, Unstamped, Card, LocalRow, ServerRow
<1>3. ASSUME NEW row \in ServerRow
      PROVE  /\ Unstamped(row) \in LocalRow /\ Unstamped(row) # None /\ row # None
             /\ Unstamped(row).code = row.code /\ Unstamped(row).deleted = row.deleted
    BY Absent DEF Unstamped, Card, LocalRow, ServerRow
<1>4. QED
    BY <1>1, <1>2, <1>3

(* Codes with different suffixes differ, and none is one that was typed.   *)
LEMMA OwnApart ==
    ASSUME NEW p \in Product, NEW q \in Product, p # q, NEW c \in Code,
           NEW e, OwnCode(q, e)
    PROVE  e # Suffixed(c, p)
    BY Typed DEF OwnCode, Suffixed

LEMMA OwnIsCode == ASSUME NEW p \in Product, NEW c, OwnCode(p, c) PROVE c \in Codes
    BY DEF OwnCode, Codes

(* One card that takes no other's code leaves codes unique.                *)
LEMMA StaysUnique ==
    ASSUME NEW f, NEW g, CodesUnique(f), NEW r \in Row,
           \A q \in Product \ {r} : g[q] = f[q],
           r \in Product => g[r].deleted \/ ~Taken(f, r, g[r].code)
    PROVE  CodesUnique(g)
<1> USE DEF CodesUnique, Taken, Active, Present
<1> SUFFICES ASSUME NEW p \in Product, NEW q \in Product, p # q,
                    Active(g, p), Active(g, q), g[p].code = g[q].code
             PROVE  FALSE
    OBVIOUS
<1>1. CASE p # r /\ q # r
    BY <1>1
<1>2. CASE p = r
    BY <1>2
<1>3. CASE q = r
    BY <1>3
<1>4. QED
    BY <1>1, <1>2, <1>3

-----------------------------------------------------------------------------
(* The push *)

LEMMA SentPresent ==
    ASSUME IInv, NEW d \in Client, NEW r \in Sent(d)
    PROVE  r \in Row /\ Present(local[d], r) /\ local[d][r] \in LocalRow
<1>1. r \in Row /\ Present(local[d], r)
    BY Kinds DEF IInv, ClientRows, Sent, TypeOK
<1>2. QED
    BY <1>1 DEF IInv, TypeOK, Present

(* _resolve_code_collisions gives a card a code of its own.                *)
LEMMA ResolvedOwn ==
    ASSUME IInv, NEW d \in Client, NEW p \in New(d) \cap Product
    PROVE  /\ OwnCode(p, Resolved(d, p))
           /\ \/ Resolved(d, p) = local[d][p].code
              \/ /\ Resolved(d, p) = Suffixed(local[d][p].code, p)
                 /\ local[d][p].code \in Code
<1> DEFINE c == local[d][p].code
           Loses == \/ Taken(server, p, c)
                    \/ \E q \in New(d) \cap Product :
                          q < p /\ Active(local[d], q) /\ local[d][q].code = c
<1>1. OwnCode(p, c)
    BY SentPresent DEF New, IInv, OwnCodes
<1>2. ASSUME NEW typed \in Code, c = Suffixed(typed, p)
      PROVE  ~Loses
    <2>1. ~Taken(server, p, c)
        BY <1>2, OwnApart DEF Taken, Active, IInv, OwnCodes
    <2>2. ASSUME NEW q \in New(d) \cap Product, q < p, local[d][q].code = c
          PROVE  FALSE
        <3>1. OwnCode(q, local[d][q].code) /\ q # p
            BY <2>2, SentPresent, Kinds DEF New, IInv, OwnCodes
        <3>2. QED
            BY <1>2, <2>2, <3>1, OwnApart
    <2>3. QED
        BY <2>1, <2>2
<1>3. CASE Loses
    <2>1. c \in Code
        BY <1>1, <1>2, <1>3 DEF OwnCode
    <2>2. Resolved(d, p) \in {c, Suffixed(c, p)}
        BY DEF Resolved
    <2>3. QED
        BY <2>1, <2>2 DEF OwnCode
<1>4. CASE ~Loses
    <2>1. Resolved(d, p) = c
        BY <1>4 DEF Resolved
    <2>2. QED
        BY <1>1, <2>1
<1>5. QED
    BY <1>3, <1>4

(* No two active cards have one code after a merge.                        *)
LEMMA MergedUnique ==
    ASSUME IInv, NEW d \in Client, NEW t \in Nat
    PROVE  CodesUnique(Merged(d, t))
<1> DEFINE m == Merged(d, t)
<1>1. \A r \in Row \ New(d) : m[r] = server[r]
    BY DEF Merged
<1>2. ASSUME NEW p \in New(d) \cap Product
      PROVE  /\ m[p].code = Resolved(d, p) /\ m[p].deleted = local[d][p].deleted
             /\ Present(local[d], p) /\ ~Present(server, p)
             /\ OwnCode(p, local[d][p].code)
    <2>1. /\ p \in Row /\ Present(local[d], p) /\ local[d][p] \in LocalRow
          /\ ~Present(server, p)
        BY SentPresent DEF New
    <2>2. m[p] = Stamped(Card(Resolved(d, p), local[d][p].deleted), t)
        BY <2>1 DEF Merged
    <2>3. QED
        BY <2>1, <2>2 DEF Stamped, Card, IInv, OwnCodes
<1>3. ASSUME NEW p \in New(d) \cap Product, NEW q \in Product \ New(d),
             Active(m, p), Active(m, q), m[p].code = m[q].code
      PROVE  FALSE
    <2>1. Active(server, q) /\ server[q].code = m[q].code /\ p # q
        BY <1>1, <1>3, Kinds DEF Active, Present
    <2>2. OwnCode(q, m[q].code)
        BY <2>1 DEF IInv, OwnCodes, Active
    <2>3. m[p].code = local[d][p].code
        BY <1>2, <1>3, <2>1, <2>2, ResolvedOwn, OwnApart
    <2>4. Taken(server, p, local[d][p].code) /\ Active(local[d], p)
        BY <1>2, <1>3, <2>1, <2>3 DEF Taken, Active
    <2>5. m[p].code = Suffixed(local[d][p].code, p)
        BY <1>2, <2>4 DEF Resolved
    <2>6. local[d][p].code \in Code
        BY <1>2, <2>1, <2>4, OwnApart DEF OwnCode, Taken, Active, IInv, OwnCodes
    <2>7. QED
        BY <1>3, <2>1, <2>2, <2>5, <2>6, OwnApart
<1>4. ASSUME NEW p \in New(d) \cap Product, NEW q \in New(d) \cap Product, p < q,
             Active(m, p), Active(m, q), m[p].code = m[q].code
      PROVE  FALSE
    <2>1. p # q
        BY <1>4, Kinds
    <2>2. m[p].code = local[d][p].code /\ m[q].code = local[d][q].code
        BY <1>2, <1>4, <2>1, ResolvedOwn, OwnApart
    <2>3. Active(local[d], p) /\ Active(local[d], q)
        BY <1>2, <1>4 DEF Active
    <2>4. m[q].code = Suffixed(local[d][q].code, q)
        BY <1>2, <1>4, <2>2, <2>3 DEF Resolved
    <2>5. OwnCode(p, Suffixed(local[d][q].code, q))
        BY <1>2, <1>4, <2>2, <2>4
    <2>6. local[d][q].code \in Code
        <3>1. /\ OwnCode(q, local[d][q].code) /\ OwnCode(p, local[d][q].code)
            BY <1>2, <1>4, <2>2
        <3>2. \A typed \in Code : local[d][q].code # Suffixed(typed, q)
            BY <2>1, <3>1, OwnApart
        <3>3. QED
            BY <3>1, <3>2 DEF OwnCode
    <2>7. QED
        BY <2>1, <2>5, <2>6, OwnApart
<1>5. SUFFICES ASSUME NEW p \in Product, NEW q \in Product, p # q,
                      Active(m, p), Active(m, q), m[p].code = m[q].code
               PROVE  FALSE
    BY DEF CodesUnique, Taken
<1>6. CASE p \notin New(d) /\ q \notin New(d)
    BY <1>1, <1>5, <1>6, Kinds DEF IInv, CodesUnique, Taken, Active, Present
<1>7. CASE p \in New(d) /\ q \notin New(d)
    BY <1>3, <1>5, <1>7
<1>8. CASE q \in New(d) /\ p \notin New(d)
    BY <1>3, <1>5, <1>8
<1>9. CASE p \in New(d) /\ q \in New(d)
    <2>1. p < q \/ q < p
        BY <1>5, Kinds
    <2>2. QED
        BY <1>4, <1>5, <1>9, <2>1
<1>10. QED
    BY <1>6, <1>7, <1>8, <1>9
-----------------------------------------------------------------------------
(* What each step keeps *)

RunRecord == [step : {"idle", "pull"}, cursor : Cursor \cup {None},
              status : {"none", "ok", "partial"}, changed : SUBSET Row]

LEMMA RunShapes ==
    \A status \in {"none", "ok", "partial"} :
        /\ Idle(status) \in RunRecord /\ Begun(status) \in RunRecord
        /\ Idle(status).step = "idle" /\ Begun(status).step = "pull"
        /\ Idle(status).cursor = None /\ Begun(status).cursor = None
        /\ Idle(status).status = status
    BY DEF Idle, Begun, RunRecord

LEMMA InitInv == Init => IInv
<1> SUFFICES ASSUME Init PROVE IInv
    OBVIOUS
<1>1. \A d \in Client : run[d] \in RunRecord /\ run[d].step = "idle" /\ run[d].cursor = None
    BY RunShapes DEF Init
<1>2. run \in [Client -> RunRecord]
    BY <1>1 DEF Init
<1>3. TypeOK
    <2>1. server \in [Row -> ServerRow \cup {None}]
        BY DEF Init
    <2>2. local \in [Client -> [Row -> LocalRow \cup {None}]]
        BY DEF Init
    <2>3. unsynced \in [Client -> SUBSET Row] /\ reused \in BOOLEAN
        BY DEF Init
    <2>4. now \in 0..MaxChanges /\ changes \in 0..MaxChanges
        BY Bounds DEF Init
    <2>5. QED
        BY <1>1, <1>2, <2>1, <2>2, <2>3, <2>4 DEF TypeOK, RunRecord
<1>4. OwnCodes(server) /\ CodesUnique(server) /\ \A d \in Client : OwnCodes(local[d])
    BY Kinds DEF Init, OwnCodes, CodesUnique, Active, Present
<1>5. \A d \in Client : ClientRows(d) /\ Paged(d)
    BY <1>1, Kinds DEF Init, ClientRows, Paged, Present
<1>6. QED
    BY <1>3, <1>4, <1>5 DEF Init, IInv

(* The parts of the invariant that a step does not touch.                  *)
LEMMA NotedRun ==
    ASSUME TypeOK, NEW r \in Row, NEW d \in Client
    PROVE  /\ Noted(r, d) \in RunRecord
           /\ Noted(r, d).step = run[d].step /\ Noted(r, d).cursor = run[d].cursor
           /\ run[d].step = "pull" => Noted(r, d).changed = run[d].changed \cup {r}
<1>1. run[d] \in RunRecord
    BY DEF TypeOK, RunRecord
<1>2. Noted(r, d) \in {run[d], [run[d] EXCEPT !.changed = @ \cup {r}]}
    BY DEF Noted
<1>3. [run[d] EXCEPT !.changed = @ \cup {r}] \in RunRecord
    BY <1>1 DEF RunRecord
<1>4. QED
    BY <1>1, <1>2, <1>3 DEF RunRecord, Noted

LEMMA ServerStep ==
    ASSUME IInv, NEW r \in Row, NEW carried \in LocalRow, Server(r, carried),
           reused' \in BOOLEAN,
           r \in Product => /\ OwnCode(r, carried.code)
                            /\ carried.deleted \/ ~Taken(server, r, carried.code)
    PROVE  IInv'
<1>1. /\ now \in Nat /\ now' \in Nat /\ changes' = changes + 1
      /\ now' <= changes' /\ now' \in 0..MaxChanges /\ changes' \in 0..MaxChanges
    BY Bounds DEF Server, Counted, IInv, TypeOK
<1>2. /\ server' = [server EXCEPT ![r] = Stamped(carried, now')]
      /\ Stamped(carried, now') \in ServerRow
      /\ Stamped(carried, now').code = carried.code
      /\ Stamped(carried, now').deleted = carried.deleted
    BY <1>1, RowTypes DEF Server
<1>3. /\ server'[r] = Stamped(carried, now')
      /\ \A q \in Row \ {r} : server'[q] = server[q]
      /\ server' \in [Row -> ServerRow \cup {None}]
    BY <1>2 DEF IInv, TypeOK
<1>4. \A d \in Client :
          /\ run'[d] \in RunRecord
          /\ run'[d].step = run[d].step /\ run'[d].cursor = run[d].cursor
          /\ run[d].step = "pull" => run'[d].changed = run[d].changed \cup {r}
    BY NotedRun DEF Server, IInv
<1>5. run' \in [Client -> RunRecord]
    BY <1>4 DEF Server
<1>6. UNCHANGED <<local, unsynced>>
    BY DEF Server
<1>7. TypeOK'
    BY <1>1, <1>3, <1>4, <1>5, <1>6 DEF TypeOK, IInv, RunRecord
<1>8. OwnCodes(server')
    BY <1>2, <1>3, Kinds DEF OwnCodes, IInv, Present
<1>9. CodesUnique(server')
    BY <1>2, <1>3, StaysUnique, Kinds DEF IInv
<1>10. ASSUME NEW d \in Client PROVE Paged(d)'
    <2>1. SUFFICES ASSUME run[d].step = "pull", NEW q \in Row \ run'[d].changed,
                          Present(server', q), ~(Past(run[d].cursor, q))'
                   PROVE  local'[d][q] = Unstamped(server'[q])
        BY <1>4 DEF Paged
    <2>2. q # r /\ q \notin run[d].changed /\ server'[q] = server[q]
        BY <1>3, <1>4, <2>1
    <2>3. ~Past(run[d].cursor, q)
        BY <1>4, <2>1, <2>2 DEF Past
    <2>4. QED
        BY <1>6, <2>1, <2>2, <2>3 DEF Paged, IInv, Present
<1>11. QED
    BY <1>1, <1>6, <1>7, <1>8, <1>9, <1>10 DEF IInv, ClientRows

LEMMA LocalStep ==
    ASSUME IInv, NEW d \in Client, NEW r \in Row, NEW carried \in LocalRow,
           NEW recorded \in SUBSET Row, Local(d, r, carried, recorded),
           reused' \in BOOLEAN,
           r \in Product => OwnCode(r, carried.code),
           r \in Batch => Present(local[d], Of[r]),
           \A q \in recorded \ {r} : Present(local[d], q)
    PROVE  IInv'
<1>1. /\ changes' = changes + 1 /\ changes' \in 0..MaxChanges
      /\ UNCHANGED <<server, now>>
    BY Bounds DEF Local, Counted, IInv, TypeOK
<1>2. /\ local' \in [Client -> [Row -> LocalRow \cup {None}]]
      /\ local'[d][r] = carried
      /\ \A q \in Row \ {r} : local'[d][q] = local[d][q]
      /\ \A e \in Client \ {d} : local'[e] = local[e]
    <2>1. local' = [local EXCEPT ![d] = [local[d] EXCEPT ![r] = carried]]
        BY DEF Local, IInv, TypeOK
    <2>2. [local[d] EXCEPT ![r] = carried] \in [Row -> LocalRow \cup {None}]
        BY DEF IInv, TypeOK
    <2>3. QED
        BY <2>1, <2>2 DEF IInv, TypeOK
<1>3. /\ unsynced' \in [Client -> SUBSET Row]
      /\ unsynced'[d] = unsynced[d] \cup recorded
      /\ \A e \in Client \ {d} : unsynced'[e] = unsynced[e]
    BY DEF Local, IInv, TypeOK
<1>4. /\ run'[d] = Noted(r, d)
      /\ \A e \in Client \ {d} : run'[e] = run[e]
    BY DEF Local, IInv, TypeOK
<1>5. run' \in [Client -> RunRecord]
    BY NotedRun DEF Local, IInv, TypeOK, RunRecord
<1>6. \A e \in Client : run'[e].step = run[e].step /\ run'[e].cursor = run[e].cursor
    BY <1>4, NotedRun DEF IInv
<1>7. TypeOK'
    BY <1>1, <1>2, <1>3, <1>5, <1>6 DEF TypeOK, IInv, RunRecord
<1>8. carried # None /\ local'[d][r] # None
    BY <1>2, RowTypes, Absent
<1>9. \A e \in Client : OwnCodes(local'[e])
    BY <1>2, Kinds DEF OwnCodes, IInv, Present
<1>10. ASSUME NEW e \in Client PROVE ClientRows(e)'
    <2>1. \A q \in Row : Present(local[e], q) => Present(local'[e], q)
        BY <1>2, <1>8 DEF Present
    <2>2. \A q \in unsynced'[e] : Present(local'[e], q)
        BY <1>3, <1>8, <2>1 DEF IInv, ClientRows, TypeOK, Present
    <2>3. ASSUME NEW b \in Batch, Present(local'[e], b)
          PROVE  Present(local'[e], Of[b])
        <3>1. CASE e = d /\ b = r
            BY <2>1, <3>1, Kinds
        <3>2. CASE Present(local[e], b)
            BY <2>1, <3>2, Kinds DEF IInv, ClientRows
        <3>3. QED
            BY <1>2, <2>3, <3>1, <3>2, Kinds DEF Present
    <2>4. QED
        BY <2>2, <2>3 DEF ClientRows
<1>11. ASSUME NEW e \in Client PROVE Paged(e)'
    <2>1. SUFFICES ASSUME run[e].step = "pull", NEW q \in Row \ run'[e].changed,
                          Present(server, q), ~(Past(run[e].cursor, q))'
                   PROVE  local'[e][q] = Unstamped(server[q])
        BY <1>1, <1>6 DEF Paged
    <2>2. ~Past(run[e].cursor, q)
        BY <1>1, <1>6, <2>1 DEF Past
    <2>3. q \notin run[e].changed /\ (e = d => q # r)
        BY <1>4, <2>1, NotedRun DEF IInv
    <2>4. QED
        BY <1>2, <2>1, <2>2, <2>3 DEF Paged, IInv
<1>12. QED
    BY <1>1, <1>7, <1>9, <1>10, <1>11 DEF IInv, TypeOK

LEMMA PeopleStep == ASSUME IInv, People PROVE IInv'
<1> USE DEF Creates, Edits, Deletes, Restores, Receives
<1>1. /\ \A c \in Code : c \in Codes /\ \A p \in Product : OwnCode(p, c)
      /\ NoCode \in Codes /\ TRUE \in BOOLEAN /\ FALSE \in BOOLEAN
    BY DEF Codes, OwnCode
<1>2. reused \in BOOLEAN /\ \A c : Types(c) => reused' \in BOOLEAN
    BY DEF IInv, TypeOK, Types
<1>3. \A p \in Product :
          /\ Present(server, p) => /\ OwnCode(p, server[p].code)
                                   /\ server[p].code \in Codes
          /\ \A d \in Client : Present(local[d], p) =>
                /\ OwnCode(p, local[d][p].code) /\ local[d][p].code \in Codes
    BY OwnIsCode DEF IInv, OwnCodes
<1>4. ASSUME NEW p \in Product, NEW c \in Codes,
             (ServerCreates(p, c) /\ c \in Code) \/ ServerEdits(p, c)
      PROVE  IInv'
    <2>1. Server(p, Card(c, FALSE)) /\ ~Taken(server, p, c) /\ reused' \in BOOLEAN
        BY <1>2, <1>4 DEF ServerCreates, ServerEdits
    <2>2. OwnCode(p, c)
        BY <1>1, <1>3, <1>4 DEF ServerCreates, ServerEdits, Active
    <2>3. /\ Card(c, FALSE) \in LocalRow /\ Card(c, FALSE).code = c
        BY RowTypes
    <2>4. QED
        BY <2>1, <2>2, <2>3, ServerStep, Kinds
<1>5. ASSUME NEW p \in Product, ServerDeletes(p) PROVE IInv'
    <2>1. /\ Server(p, Card(server[p].code, TRUE)) /\ reused' \in BOOLEAN
          /\ OwnCode(p, server[p].code) /\ server[p].code \in Codes
        BY <1>2, <1>3, <1>5 DEF ServerDeletes, Active
    <2>2. /\ Card(server[p].code, TRUE) \in LocalRow
          /\ Card(server[p].code, TRUE).code = server[p].code
          /\ Card(server[p].code, TRUE).deleted
        BY <2>1, RowTypes
    <2>3. QED
        BY <2>1, <2>2, ServerStep, Kinds
<1>6. ASSUME NEW p \in Product, ServerRestores(p) PROVE IInv'
    <2>1. /\ Server(p, Card(server[p].code, FALSE)) /\ reused' \in BOOLEAN
          /\ ~Taken(server, p, server[p].code)
          /\ OwnCode(p, server[p].code) /\ server[p].code \in Codes
        BY <1>2, <1>3, <1>6 DEF ServerRestores
    <2>2. /\ Card(server[p].code, FALSE) \in LocalRow
          /\ Card(server[p].code, FALSE).code = server[p].code
        BY <2>1, RowTypes
    <2>3. QED
        BY <2>1, <2>2, ServerStep, Kinds
<1>7. ASSUME NEW b \in Batch, ServerReceives(b) PROVE IInv'
    <2>1. Server(b, Card(NoCode, FALSE)) /\ reused' \in BOOLEAN
        BY <1>2, <1>7 DEF ServerReceives
    <2>2. Card(NoCode, FALSE) \in LocalRow
        BY <1>1, RowTypes
    <2>3. QED
        BY <2>1, <2>2, ServerStep, Kinds
<1>8. ASSUME NEW d \in Client, NEW p \in Product, NEW c \in Codes,
             (ClientCreates(d, p, c) /\ c \in Code) \/ ClientEdits(d, p, c)
      PROVE  IInv'
    <2>1. Local(d, p, Card(c, FALSE), {p}) /\ reused' \in BOOLEAN
        BY <1>2, <1>8 DEF ClientCreates, ClientEdits
    <2>2. OwnCode(p, c)
        BY <1>1, <1>3, <1>8 DEF ClientCreates, ClientEdits, Active
    <2>3. /\ Card(c, FALSE) \in LocalRow /\ Card(c, FALSE).code = c
        BY RowTypes
    <2>4. p \in Row /\ p \notin Batch /\ {p} \in SUBSET Row
        BY Kinds
    <2>5. QED
        BY <2>1, <2>2, <2>3, <2>4, LocalStep
<1>9. ASSUME NEW d \in Client, NEW p \in Product,
             ClientDeletes(d, p) \/ ClientRestores(d, p)
      PROVE  IInv'
    <2>1. PICK gone \in BOOLEAN : Local(d, p, Card(local[d][p].code, gone), {})
        BY <1>9 DEF ClientDeletes, ClientRestores
    <2>2. /\ reused' \in BOOLEAN
          /\ OwnCode(p, local[d][p].code) /\ local[d][p].code \in Codes
        BY <1>2, <1>3, <1>9 DEF ClientDeletes, ClientRestores, Active
    <2>3. /\ Card(local[d][p].code, gone) \in LocalRow
          /\ Card(local[d][p].code, gone).code = local[d][p].code
        BY <2>2, RowTypes
    <2>4. p \in Row /\ p \notin Batch /\ {} \in SUBSET Row
        BY Kinds
    <2>5. QED
        BY <2>1, <2>2, <2>3, <2>4, LocalStep
<1>10. ASSUME NEW d \in Client, NEW b \in Batch, ClientReceives(d, b) PROVE IInv'
    <2>1. /\ Local(d, b, Card(NoCode, FALSE), {b, Of[b]}) /\ reused' \in BOOLEAN
          /\ Present(local[d], Of[b])
        BY <1>2, <1>10 DEF ClientReceives, Active
    <2>2. Card(NoCode, FALSE) \in LocalRow
        BY <1>1, RowTypes
    <2>3. b \in Row /\ b \notin Product /\ {b, Of[b]} \in SUBSET Row
        BY Kinds
    <2>4. QED
        BY <2>1, <2>2, <2>3, LocalStep
<1>11. Code \subseteq Codes
    BY <1>1
<1>12. QED
    BY <1>4, <1>5, <1>6, <1>7, <1>8, <1>9, <1>10, <1>11 DEF People

LEMMA PushedRow ==
    ASSUME IInv, NEW d \in Client, NEW t \in Nat, NEW S \in {{}, Sent(d)},
           NEW f, f = Recomputed(Merged(d, t), S, now)
    PROVE  /\ f \in [Row -> ServerRow \cup {None}]
           /\ OwnCodes(f)
           /\ \A r \in Row \ Sent(d) : f[r] = server[r]
           /\ \A r \in Row : Present(server, r) =>
                 Present(f, r) /\ Unstamped(f[r]) = Unstamped(server[r])
<1> DEFINE m == Merged(d, t)
<1>1. \A r \in Row \ New(d) : m[r] = server[r]
    BY DEF Merged
<1>2. ASSUME NEW r \in New(d)
      PROVE  /\ r \in Row /\ m[r] \in ServerRow /\ ~Present(server, r)
             /\ r \in Product => OwnCode(r, m[r].code)
    <2>1. r \in Row /\ local[d][r] \in LocalRow /\ ~Present(server, r)
        BY SentPresent DEF New
    <2>2. CASE r \in Product
        <3>1. OwnCode(r, Resolved(d, r)) /\ Resolved(d, r) \in Codes
            BY <2>2, ResolvedOwn, OwnIsCode
        <3>2. local[d][r].deleted \in BOOLEAN
            BY <2>1 DEF LocalRow
        <3>3. /\ Card(Resolved(d, r), local[d][r].deleted) \in LocalRow
              /\ Card(Resolved(d, r), local[d][r].deleted).code = Resolved(d, r)
            BY <3>1, <3>2, RowTypes
        <3>4. m[r] = Stamped(Card(Resolved(d, r), local[d][r].deleted), t)
            BY <2>1, <2>2 DEF Merged
        <3>5. QED
            BY <2>1, <3>1, <3>3, <3>4, RowTypes
    <2>3. CASE r \notin Product
        <3>1. m[r] = Stamped(local[d][r], t)
            BY <2>1, <2>3 DEF Merged
        <3>2. QED
            BY <2>1, <2>3, <3>1, RowTypes
    <2>4. QED
        BY <2>2, <2>3
<1>3. \A r \in Row : m[r] \in ServerRow \cup {None}
    BY <1>1, <1>2 DEF IInv, TypeOK
<1>4. \A r \in Row : r \in Sent(d) => m[r] \in ServerRow
    BY <1>1, <1>2, <1>3 DEF New, Present
<1>5. \A r \in Row : f[r] = IF r \in S THEN [m[r] EXCEPT !.at = now] ELSE m[r]
    BY DEF Recomputed
<1>6. ASSUME NEW r \in Row
      PROVE  \/ f[r] = m[r]
             \/ /\ r \in Sent(d) /\ f[r] \in ServerRow /\ m[r] \in ServerRow
                /\ f[r].code = m[r].code /\ f[r].deleted = m[r].deleted
    <2>1. CASE r \notin S
        BY <1>5, <2>1
    <2>2. CASE r \in S
        <3>1. m[r] \in ServerRow /\ f[r] = [m[r] EXCEPT !.at = now] /\ r \in Sent(d)
            BY <1>4, <1>5, <2>2
        <3>2. now \in Nat
            BY Bounds DEF IInv, TypeOK
        <3>3. QED
            BY <3>1, <3>2 DEF ServerRow
    <2>3. QED
        BY <2>1, <2>2
<1>7. f \in [Row -> ServerRow \cup {None}]
    <2>1. \A r \in Row : f[r] \in ServerRow \cup {None}
        BY <1>3, <1>6
    <2>2. f = [r \in Row |-> IF r \in S THEN [m[r] EXCEPT !.at = now] ELSE m[r]]
        BY DEF Recomputed
    <2>3. QED
        BY <1>5, <2>1, <2>2
<1>8. OwnCodes(f)
    <2>1. \A p \in Product : Present(m, p) => OwnCode(p, m[p].code)
        BY <1>1, <1>2, Kinds DEF IInv, OwnCodes, Present
    <2>2. \A p \in Product : Present(f, p) =>
              Present(m, p) /\ f[p].code = m[p].code
        BY <1>6, Kinds, RowTypes DEF Present
    <2>3. QED
        BY <2>1, <2>2 DEF OwnCodes
<1>9. \A r \in Row \ Sent(d) : f[r] = server[r]
    BY <1>1, <1>6 DEF New
<1>10. ASSUME NEW r \in Row, Present(server, r)
       PROVE  Present(f, r) /\ Unstamped(f[r]) = Unstamped(server[r])
    <2>1. m[r] = server[r]
        BY <1>1, <1>10 DEF New
    <2>2. QED
        BY <1>6, <1>10, <2>1, RowTypes DEF Present, Unstamped, Card
<1>11. QED
    BY <1>7, <1>8, <1>9, <1>10

LEMMA PushStep == ASSUME IInv, NEW d \in Client, Push(d) PROVE IInv'
<1>1. PICK t \in 0..now, S \in {{}, Sent(d)} :
          /\ CodesUnique(Recomputed(Merged(d, t), S, now))
          /\ server' = Recomputed(Merged(d, t), S, now)
    BY DEF Push
<1>2. t \in Nat
    BY Bounds DEF IInv, TypeOK
<1>3. /\ server' \in [Row -> ServerRow \cup {None}] /\ OwnCodes(server')
      /\ CodesUnique(server')
      /\ \A r \in Row \ Sent(d) : server'[r] = server[r]
    BY <1>1, <1>2, PushedRow
<1>4. UNCHANGED <<local, now, changes, reused>>
    BY DEF Push
<1>5. /\ unsynced' \in [Client -> SUBSET Row] /\ unsynced'[d] = {}
      /\ \A e \in Client \ {d} : unsynced'[e] = unsynced[e]
    BY DEF Push, IInv, TypeOK
<1>6. Sent(d) \in SUBSET Row
    BY SentPresent
<1>7. \A e \in Client : run[e] \in RunRecord
    BY DEF IInv, TypeOK, RunRecord
<1>8. run'[d] = Begun(run[d].status)
    BY DEF Push
<1>9. \A e \in Client \ {d} :
          run'[e] = IF run[e].step = "pull"
                    THEN [run[e] EXCEPT !.changed = @ \cup Sent(d)] ELSE run[e]
    BY DEF Push
<1>10. /\ run'[d] \in RunRecord /\ run'[d].step = "pull" /\ run'[d].cursor = None
    BY <1>7, <1>8, RunShapes DEF RunRecord
<1>11. ASSUME NEW e \in Client \ {d}
       PROVE  /\ run'[e] \in RunRecord
              /\ run'[e].step = run[e].step /\ run'[e].cursor = run[e].cursor
              /\ run[e].step = "pull" => run'[e].changed = run[e].changed \cup Sent(d)
    <2>1. run'[e] \in {run[e], [run[e] EXCEPT !.changed = @ \cup Sent(d)]}
        BY <1>9
    <2>2. [run[e] EXCEPT !.changed = @ \cup Sent(d)] \in RunRecord
        BY <1>6, <1>7 DEF RunRecord
    <2>3. QED
        BY <1>7, <1>9, <2>1, <2>2 DEF RunRecord
<1>12. run' \in [Client -> RunRecord]
    BY <1>10, <1>11 DEF Push
<1>13. TypeOK'
    BY <1>3, <1>4, <1>5, <1>10, <1>11, <1>12 DEF TypeOK, IInv, RunRecord
<1>14. \A e \in Client : OwnCodes(local'[e]) /\ ClientRows(e)'
    BY <1>4, <1>5 DEF IInv, ClientRows
<1>15. ASSUME NEW e \in Client PROVE Paged(e)'
    <2>1. CASE e = d
        BY <1>10, <2>1 DEF Paged, Past
    <2>2. CASE e # d
        <3>1. SUFFICES ASSUME run[e].step = "pull", NEW q \in Row \ run'[e].changed,
                              Present(server', q), ~(Past(run[e].cursor, q))'
                       PROVE  local'[e][q] = Unstamped(server'[q])
            BY <1>11, <2>2 DEF Paged
        <3>2. q \notin Sent(d) /\ q \notin run[e].changed /\ server'[q] = server[q]
            BY <1>3, <1>11, <2>2, <3>1
        <3>3. ~Past(run[e].cursor, q)
            BY <1>11, <2>2, <3>1, <3>2 DEF Past
        <3>4. QED
            BY <1>4, <3>1, <3>2, <3>3 DEF IInv, Paged, Present
    <2>3. QED
        BY <2>1, <2>2
<1>16. QED
    BY <1>3, <1>4, <1>13, <1>14, <1>15 DEF IInv

-----------------------------------------------------------------------------
(* The pull *)

(* The rows up to the last of a page, and those behind the old cursor, are *)
(* all the rows behind the new cursor.                                     *)
LEMMA CursorAfter ==
    ASSUME TypeOK, NEW old \in Cursor \cup {None}, NEW last \in Rest(old),
           NEW r \in Row, Present(server, r),
           ~Past([since |-> server[last].at, id |-> last], r)
    PROVE  ~Past(old, r) \/ r \in UpTo(last, Rest(old))
<1> DEFINE cursor == [since |-> server[last].at, id |-> last]
<1>1. last \in Row /\ Present(server, last)
    BY DEF Rest
<1>2. server[last] \in ServerRow /\ server[r] \in ServerRow
    BY <1>1 DEF TypeOK, Present
<1>3. server[last].at \in Nat /\ server[r].at \in Nat
    BY <1>2 DEF ServerRow
<1>4. cursor \in Cursor
    BY <1>1, <1>3 DEF Cursor
<1>5. cursor # None
    BY <1>4, Absent
<1>6. cursor.since = server[last].at /\ cursor.id = last
    OBVIOUS
<1>7. r = last \/ Before(r, last)
    <2>1. last \in Product => r \notin Batch
        BY <1>5, <1>6 DEF Past
    <2>2. (last \in Product <=> r \in Product) =>
              /\ ~(server[r].at > server[last].at)
              /\ ~(server[r].at = server[last].at /\ r > last)
        BY <1>5, <1>6 DEF Past
    <2>3. r \in Nat /\ last \in Nat
        BY <1>1, Kinds
    <2>4. (last \in Product <=> r \in Product) =>
              \/ server[r].at < server[last].at
              \/ server[r].at = server[last].at /\ (r < last \/ r = last)
        BY <1>3, <2>2, <2>3
    <2>5. QED
        BY <1>1, <2>1, <2>4, Kinds DEF Before
<1>8. QED
    BY <1>7 DEF UpTo, Rest

(* What a page that applies leaves.                                        *)
LEMMA PulledRows ==
    ASSUME IInv, NEW d \in Client, NEW page, page \subseteq {r \in Row : Present(server, r)}
    PROVE  /\ Pulled(d, page) \in [Row -> LocalRow \cup {None}]
           /\ \A r \in page : Pulled(d, page)[r] = Unstamped(server[r])
           /\ \A r \in Row \ page : Pulled(d, page)[r] = local[d][r]
           /\ \A r \in Row : Present(local[d], r) => Present(Pulled(d, page), r)
           /\ OwnCodes(Pulled(d, page))
<1>1. \A r \in page : /\ r \in Row /\ server[r] \in ServerRow
                     /\ Unstamped(server[r]) \in LocalRow
                     /\ Unstamped(server[r]) # None
                     /\ Unstamped(server[r]).code = server[r].code
    BY RowTypes DEF IInv, TypeOK, Present
<1>2. /\ \A r \in page : Pulled(d, page)[r] = Unstamped(server[r])
      /\ \A r \in Row \ page : Pulled(d, page)[r] = local[d][r]
    BY <1>1 DEF Pulled
<1>3. \A r \in Row : Pulled(d, page)[r] \in LocalRow \cup {None}
    BY <1>1, <1>2 DEF IInv, TypeOK
<1>4. Pulled(d, page) \in [Row -> LocalRow \cup {None}]
    BY <1>3 DEF Pulled
<1>5. \A r \in Row : Present(local[d], r) => Present(Pulled(d, page), r)
    BY <1>1, <1>2 DEF Present
<1>6. OwnCodes(Pulled(d, page))
    <2>1. \A p \in Product : p \in page => OwnCode(p, Pulled(d, page)[p].code)
        BY <1>1, <1>2 DEF IInv, OwnCodes, Present
    <2>2. \A p \in Product : p \notin page /\ Present(Pulled(d, page), p)
              => OwnCode(p, Pulled(d, page)[p].code)
        BY <1>2, Kinds DEF IInv, OwnCodes, Present
    <2>3. QED
        BY <2>1, <2>2 DEF OwnCodes
<1>7. QED
    BY <1>2, <1>4, <1>5, <1>6

(* A page that applies brings batches with their cards.                    *)
LEMMA PulledParents ==
    ASSUME IInv, NEW d \in Client, NEW page, page \subseteq {r \in Row : Present(server, r)},
           Applies(d, page), NEW b \in Batch, Present(Pulled(d, page), b)
    PROVE  Present(Pulled(d, page), Of[b])
<1>1. CASE b \in page
    <2> DEFINE before == {q \in page : Precedes(d, q, b)}
    <2>1. Present(Pulled(d, before), Of[b])
        BY <1>1 DEF Applies
    <2>2. before \subseteq page /\ Of[b] \in Row
        BY Kinds
    <2>3. CASE Of[b] \in before
        <3>1. Of[b] \in page
            BY <2>3
        <3>2. Pulled(d, page)[Of[b]] = Unstamped(server[Of[b]])
            BY <3>1, PulledRows
        <3>3. server[Of[b]] \in ServerRow
            BY <3>1 DEF IInv, TypeOK, Present
        <3>4. QED
            BY <3>2, <3>3, RowTypes DEF Present
    <2>4. CASE Of[b] \notin before
        <3>1. Pulled(d, before)[Of[b]] = local[d][Of[b]]
            BY <2>2, <2>4 DEF Pulled
        <3>2. QED
            BY <2>1, <2>2, <3>1, PulledRows DEF Present
    <2>5. QED
        BY <2>3, <2>4
<1>2. CASE b \notin page
    <2>1. Present(local[d], b)
        BY <1>2, PulledRows, Kinds DEF Present
    <2>2. QED
        BY <2>1, PulledRows, Kinds DEF IInv, ClientRows
<1>3. QED
    BY <1>1, <1>2

(* One page, whichever: the run goes on, or ends with next or as partial.  *)
LEMMA TakeStep ==
    ASSUME IInv, NEW d \in Client, NEW page,
           page \subseteq {r \in Row : Present(server, r)},
           NEW next \in RunRecord, Take(d, page, next),
           UNCHANGED <<server, unsynced, now, changes, reused>>,
           next.step = "idle" => next.cursor = None,
           next.step = "pull" =>
               \A r \in Row \ next.changed :
                   Present(server, r) /\ ~Past(next.cursor, r) =>
                       r \in page \/ local[d][r] = Unstamped(server[r])
    PROVE  IInv'
<1>1. \A e \in Client \ {d} : local'[e] = local[e] /\ run'[e] = run[e]
    BY DEF Take, IInv, TypeOK
<1>2. CASE Applies(d, page)
    <2>1. local' = [local EXCEPT ![d] = Pulled(d, page)] /\ run' = [run EXCEPT ![d] = next]
        BY <1>2 DEF Take
    <2>2. local'[d] = Pulled(d, page) /\ run'[d] = next
        BY <2>1 DEF IInv, TypeOK
    <2>3. /\ local' \in [Client -> [Row -> LocalRow \cup {None}]]
          /\ run' \in [Client -> RunRecord]
        BY <2>1, PulledRows DEF IInv, TypeOK, RunRecord
    <2>4. TypeOK'
        BY <1>1, <2>2, <2>3 DEF IInv, TypeOK, RunRecord
    <2>5. ASSUME NEW e \in Client PROVE OwnCodes(local'[e]) /\ ClientRows(e)'
        <3>1. CASE e = d
            <4>1. OwnCodes(local'[d])
                BY <2>2, PulledRows
            <4>2. \A r \in unsynced'[d] : Present(local'[d], r)
                BY <2>2, PulledRows DEF IInv, ClientRows, TypeOK
            <4>3. \A b \in Batch : Present(local'[d], b) => Present(local'[d], Of[b])
                BY <1>2, <2>2, PulledParents
            <4>4. QED
                BY <3>1, <4>1, <4>2, <4>3 DEF ClientRows
        <3>2. CASE e # d
            BY <1>1, <3>2 DEF IInv, ClientRows
        <3>3. QED
            BY <3>1, <3>2
    <2>6. ASSUME NEW e \in Client PROVE Paged(e)'
        <3>1. CASE e = d
            <4>1. SUFFICES ASSUME next.step = "pull", NEW r \in Row \ next.changed,
                                  Present(server, r), ~Past(next.cursor, r)
                           PROVE  local'[d][r] = Unstamped(server[r])
                BY <2>2, <3>1 DEF Paged, Past
            <4>2. QED
                BY <2>2, <4>1, PulledRows
        <3>2. CASE e # d
            BY <1>1, <3>2 DEF IInv, Paged, Past
        <3>3. QED
            BY <3>1, <3>2
    <2>7. QED
        BY <2>4, <2>5, <2>6 DEF IInv
<1>3. CASE ~Applies(d, page)
    <2>1. UNCHANGED local /\ run' = [run EXCEPT ![d] = Idle("partial")]
        BY <1>3 DEF Take
    <2>2. /\ run' \in [Client -> RunRecord] /\ run'[d].step = "idle"
          /\ run'[d].cursor = None
        BY <2>1, RunShapes DEF IInv, TypeOK, RunRecord
    <2>3. TypeOK'
        BY <1>1, <2>1, <2>2 DEF IInv, TypeOK, RunRecord
    <2>4. \A e \in Client : OwnCodes(local'[e]) /\ ClientRows(e)'
        BY <2>1 DEF IInv, ClientRows
    <2>5. ASSUME NEW e \in Client PROVE Paged(e)'
        BY <1>1, <2>1, <2>2 DEF IInv, Paged, Past
    <2>6. QED
        BY <2>3, <2>4, <2>5 DEF IInv
<1>4. QED
    BY <1>2, <1>3

LEMMA PullStep == ASSUME IInv, NEW d \in Client, PullPage(d) PROVE IInv'
<1> DEFINE old == run[d].cursor
           rest == Rest(old)
<1>1. /\ run[d] \in RunRecord /\ old \in Cursor \cup {None}
      /\ rest \subseteq {r \in Row : Present(server, r)}
    BY DEF IInv, TypeOK, RunRecord, Rest
<1>2. /\ run[d].step = "pull"
      /\ UNCHANGED <<server, unsynced, now, changes, reused>>
    BY DEF PullPage
<1>3. ASSUME NEW last \in rest,
             Take(d, UpTo(last, rest), [run[d] EXCEPT
                 !.cursor = [since |-> server[last].at, id |-> last]])
      PROVE  IInv'
    <2>1. PICK next : next = [run[d] EXCEPT
              !.cursor = [since |-> server[last].at, id |-> last]]
        OBVIOUS
    <2>2. server[last] \in ServerRow /\ last \in Row
        BY <1>1 DEF IInv, TypeOK, Present
    <2>3. [since |-> server[last].at, id |-> last] \in Cursor
        BY <2>2 DEF ServerRow, Cursor
    <2>4. /\ next \in RunRecord /\ next.step = "pull"
          /\ next.changed = run[d].changed
          /\ next.cursor = [since |-> server[last].at, id |-> last]
        BY <1>1, <1>2, <2>1, <2>3 DEF RunRecord
    <2>5. UpTo(last, rest) \subseteq {r \in Row : Present(server, r)}
        BY <1>1 DEF UpTo
    <2>6. ASSUME NEW r \in Row \ next.changed, Present(server, r),
                 ~Past(next.cursor, r)
          PROVE  r \in UpTo(last, rest) \/ local[d][r] = Unstamped(server[r])
        <3>1. ~Past(old, r) \/ r \in UpTo(last, rest)
            BY <1>1, <2>4, <2>6, CursorAfter DEF IInv
        <3>2. QED
            BY <1>2, <2>4, <2>6, <3>1 DEF IInv, Paged
    <2>7. Take(d, UpTo(last, rest), next)
        BY <1>3, <2>1
    <2>8. QED
        BY <1>2, <2>4, <2>5, <2>6, <2>7, TakeStep
<1>4. CASE Take(d, rest, Idle("ok"))
    BY <1>1, <1>2, <1>4, RunShapes, TakeStep
<1>5. QED
    BY <1>3, <1>4 DEF PullPage

LEMMA NextInv == IInv /\ [Next]_vars => IInv'
<1> SUFFICES ASSUME IInv, [Next]_vars PROVE IInv'
    OBVIOUS
<1>1. CASE People
    BY <1>1, PeopleStep
<1>2. ASSUME NEW d \in Client, Push(d) PROVE IInv'
    BY <1>2, PushStep
<1>3. ASSUME NEW d \in Client, PullPage(d) PROVE IInv'
    BY <1>3, PullStep
<1>4. ASSUME NEW d \in Client, PullFails(d) PROVE IInv'
    <2>1. /\ run' = [run EXCEPT ![d] = Idle("partial")]
          /\ UNCHANGED <<server, local, unsynced, now, changes, reused>>
        BY <1>4 DEF PullFails
    <2>2. /\ run' \in [Client -> RunRecord] /\ run'[d].step = "idle"
          /\ run'[d].cursor = None
          /\ \A e \in Client \ {d} : run'[e] = run[e]
        BY <2>1, RunShapes DEF IInv, TypeOK, RunRecord
    <2>3. TypeOK'
        BY <2>1, <2>2 DEF IInv, TypeOK, RunRecord
    <2>4. \A e \in Client : Paged(e)'
        BY <2>1, <2>2 DEF IInv, Paged, Past
    <2>5. QED
        BY <2>1, <2>3, <2>4 DEF IInv, ClientRows
<1>5. CASE UNCHANGED vars
    <2>1. TypeOK' /\ \A e \in Client : ClientRows(e)' /\ Paged(e)'
        BY <1>5 DEF vars, IInv, TypeOK, ClientRows, Paged, Past
    <2>2. QED
        BY <1>5, <2>1 DEF vars, IInv
<1>6. QED
    BY <1>1, <1>2, <1>3, <1>4, <1>5 DEF Next

LEMMA Invariance == Spec => []IInv
    BY InitInv, NextInv, PTL DEF Spec

(* services/merge.py, _resolve_code_collisions: whatever cards were made on *)
(* either side, no push meets the unique index of active codes.             *)
THEOREM NoPushMeetsADuplicate == Spec => []PushesMerge
<1>1. IInv => PushesMerge
    BY MergedUnique DEF PushesMerge, IInv
<1>2. QED
    BY <1>1, Invariance, PTL

LEMMA PushChangesNothingThere ==
    ASSUME IInv, [Next]_vars, NEW d \in Client,
           run[d].step = "idle", run'[d].step = "pull",
           NEW r \in Row, Present(server, r)
    PROVE  Unstamped(server'[r]) = Unstamped(server[r])
<1>1. PICK e \in Client : Push(e)
    <2>1. CASE People
        <3>1. run'[d] = run[d] \/ \E q \in Row : run'[d] = Noted(q, d)
            <4>1. ASSUME NEW q \in Row, NEW carried, Server(q, carried)
                  PROVE  \E x \in Row : run'[d] = Noted(x, d)
                BY <4>1 DEF Server
            <4>2. ASSUME NEW e \in Client, NEW q \in Row, NEW carried, NEW S,
                         Local(e, q, carried, S)
                  PROVE  run'[d] = run[d] \/ \E x \in Row : run'[d] = Noted(x, d)
                BY <4>2 DEF Local, IInv, TypeOK
            <4>3. QED
                BY <2>1, <4>1, <4>2, Kinds
                DEF People, ServerCreates, ServerEdits, ServerDeletes,
                    ServerRestores, ServerReceives, ClientCreates, ClientEdits,
                    ClientDeletes, ClientRestores, ClientReceives
        <3>2. QED
            BY <3>1, NotedRun DEF IInv
    <2>2. ASSUME NEW e \in Client, PullPage(e) \/ PullFails(e)
          PROVE  FALSE
        <3>1. run[e].step = "pull" /\ \A c \in Client \ {e} : run'[c] = run[c]
            BY <2>2 DEF PullPage, PullFails, Take, IInv, TypeOK
        <3>2. QED
            BY <3>1
    <2>3. QED
        BY <2>1, <2>2 DEF Next, vars
<1>2. QED
    <2>1. PICK t \in 0..now, S \in {{}, Sent(e)} :
              server' = Recomputed(Merged(e, t), S, now)
        BY <1>1 DEF Push
    <2>2. t \in Nat
        BY Bounds DEF IInv, TypeOK
    <2>3. \A f : f = Recomputed(Merged(e, t), S, now)
                   => Unstamped(f[r]) = Unstamped(server[r])
        BY <2>2, PushedRow
    <2>4. QED
        BY <2>1, <2>3

LEMMA CompletePull ==
    ASSUME IInv, [Next]_vars, NEW d \in Client,
           run[d].step = "pull", run'[d] = Idle("ok"),
           NEW r \in Row \ run[d].changed, Present(server, r)
    PROVE  local'[d][r] = Unstamped(server[r])
<1>1. run'[d].step = "idle" /\ run'[d] # Idle("partial")
    BY RunShapes
<1>2. PullPage(d)
    <2>1. CASE People
        <3>1. run'[d] = run[d] \/ \E q \in Row : run'[d] = Noted(q, d)
            <4>1. ASSUME NEW q \in Row, NEW carried, Server(q, carried)
                  PROVE  \E x \in Row : run'[d] = Noted(x, d)
                BY <4>1 DEF Server
            <4>2. ASSUME NEW e \in Client, NEW q \in Row, NEW carried, NEW S,
                         Local(e, q, carried, S)
                  PROVE  run'[d] = run[d] \/ \E x \in Row : run'[d] = Noted(x, d)
                BY <4>2 DEF Local, IInv, TypeOK
            <4>3. QED
                BY <2>1, <4>1, <4>2, Kinds
                DEF People, ServerCreates, ServerEdits, ServerDeletes,
                    ServerRestores, ServerReceives, ClientCreates, ClientEdits,
                    ClientDeletes, ClientRestores, ClientReceives
        <3>2. QED
            BY <1>1, <3>1, NotedRun DEF IInv
    <2>2. ASSUME NEW e \in Client, Push(e) PROVE FALSE
        <3>1. e # d
            BY <2>2 DEF Push
        <3>2. run'[d] = [run[d] EXCEPT !.changed = @ \cup Sent(e)]
            BY <2>2, <3>1 DEF Push
        <3>3. QED
            BY <1>1, <3>2 DEF IInv, TypeOK
    <2>3. ASSUME NEW e \in Client, PullFails(e) PROVE FALSE
        BY <1>1, <2>3 DEF PullFails, IInv, TypeOK
    <2>4. ASSUME NEW e \in Client, PullPage(e) PROVE e = d
        BY <1>1, <2>4 DEF PullPage, Take, IInv, TypeOK
    <2>5. QED
        BY <1>1, <2>1, <2>2, <2>3, <2>4 DEF Next, vars
<1> DEFINE rest == Rest(run[d].cursor)
<1>3. Take(d, rest, Idle("ok"))
    <2>1. ASSUME NEW page, NEW cursor,
                 Take(d, page, [run[d] EXCEPT !.cursor = cursor])
          PROVE  FALSE
        BY <1>1, <2>1 DEF Take, IInv, TypeOK
    <2>2. QED
        BY <1>2, <2>1 DEF PullPage
<1>4. local'[d] = Pulled(d, rest)
    BY <1>1, <1>3 DEF Take, IInv, TypeOK
<1>5. rest \subseteq {q \in Row : Present(server, q)}
    BY DEF Rest
<1>6. CASE r \in rest
    BY <1>4, <1>5, <1>6, PulledRows
<1>7. CASE r \notin rest
    <2>1. ~Past(run[d].cursor, r)
        BY <1>7 DEF Rest
    <2>2. local[d][r] = Unstamped(server[r])
        BY <2>1 DEF IInv, Paged
    <2>3. QED
        BY <1>4, <1>5, <1>7, <2>2, PulledRows
<1>8. QED
    BY <1>6, <1>7

(* "an EXISTING UUID is DISCARDED - the server row is authoritative"       *)
(* (services/merge.py), and a pull that ends with ok has brought every row *)
(* that did not change meanwhile (services/sync.py, the composite cursor). *)
THEOREM TheServerDecides == Spec => ServerDecides
<1> DEFINE Authoritative ==
               \A d \in Client : run[d].step = "idle" /\ run'[d].step = "pull" =>
                   \A r \in Row : Present(server, r) =>
                       Unstamped(server'[r]) = Unstamped(server[r])
           Wins ==
               \A d \in Client :
                   run[d].step = "pull" /\ run'[d] = Idle("ok") =>
                       \A r \in Row \ run[d].changed :
                           Present(server, r) => local'[d][r] = Unstamped(server[r])
<1>1. IInv /\ [Next]_vars => [Authoritative]_vars
    BY PushChangesNothingThere
<1>2. IInv /\ [Next]_vars => [Wins]_vars
    BY CompletePull
<1>3. QED
    BY <1>1, <1>2, Invariance, PTL DEF Spec, ServerDecides, ServerAuthoritative,
       ServerWins

-----------------------------------------------------------------------------
(* The price history and the dictionary *)

(* One console at a time writes to each machine.  The history and the way  *)
(* back need it: with two of them a script writes what it read before the  *)
(* other one wrote.                                                        *)
OnePerMachine == \A c, d \in Console : On(c) = On(d) => c = d

(* What a script under way has read, and what has become of it since.      *)
JobOK(c, j) ==
    /\ j.step \in OnDictionary \cup {"catalogs"} => c \in Host
    /\ j.step = "export" => \A t \in Triple : file[t] # {} => j.rows[t] # {}
    /\ j.step = "shades" =>
          /\ j.codes \subseteq overrides
          /\ \A x \in j.codes : dict[x] = "hand" => x \in j.typed
    /\ OnePerMachine =>
          /\ j.step = "upsert" => j.seen = prices[On(c)]
          /\ j.step = "missing" => j.known = CodesOf(prices[On(c)])
          /\ j.step \in {"counting", "replace"} =>
                Entries \subseteq snaps \cup j.typed

OneExport ==
    \A c, d \in Console :
        job[c].step = "export" /\ job[d].step = "export" => c = d

ImportInv == ImportTypeOK /\ OneExport /\ \A c \in Console : JobOK(c, job[c])

-----------------------------------------------------------------------------
(* Two merged sets of fields are one that a row may have.                  *)
LEMMA KnownMerge ==
    ASSUME NEW a \in Known, NEW b \in Known
    PROVE  /\ MergeFields(a, b) \in Known
           /\ a \subseteq MergeFields(a, b)
<1>1. a \subseteq a \cup b
    OBVIOUS
<1>2. a \cup b \in {a, b}
    BY DEF Known
<1>3. QED
    BY <1>1, <1>2 DEF MergeFields

(* upsert_price_rows: no triple of the table is lost, nor any field of it  *)
(* that had been read.                                                     *)
LEMMA UpsertKeeps ==
    ASSUME NEW h \in History, NEW seen \in History, NEW rows \in History
    PROVE  /\ Upserted(h, seen, rows) \in History
           /\ ~Clash(h, seen, rows) /\ (\A t \in Triple : h[t] \subseteq seen[t])
                 => \A t \in Triple : h[t] \subseteq Upserted(h, seen, rows)[t]
<1>1. ASSUME NEW t \in Triple
      PROVE  /\ h[t] \in Known /\ seen[t] \in Known /\ rows[t] \in Known
             /\ {} \in Known
    BY DEF History, Known
<1>2. ASSUME NEW t \in Triple
      PROVE  Upserted(h, seen, rows)[t] \in Known
    <2>1. CASE rows[t] = {}
        BY <1>1, <2>1 DEF Upserted
    <2>2. CASE rows[t] # {} /\ seen[t] = {}
        BY <1>1, <2>2 DEF Upserted
    <2>3. CASE rows[t] # {} /\ seen[t] # {}
        BY <1>1, <2>3, KnownMerge DEF Upserted
    <2>4. QED
        BY <2>1, <2>2, <2>3
<1>3. Upserted(h, seen, rows) \in History
    BY <1>2 DEF History, Upserted
<1>4. ASSUME ~Clash(h, seen, rows), NEW t \in Triple, h[t] \subseteq seen[t]
      PROVE  h[t] \subseteq Upserted(h, seen, rows)[t]
    <2>1. CASE rows[t] = {}
        BY <2>1 DEF Upserted
    <2>2. CASE rows[t] # {} /\ seen[t] = {}
        BY <1>4, <2>2 DEF Upserted
    <2>3. CASE rows[t] # {} /\ seen[t] # {}
        BY <1>1, <1>4, <2>3, KnownMerge DEF Upserted
    <2>4. QED
        BY <2>1, <2>2, <2>3
<1>5. QED
    BY <1>3, <1>4

LEMMA IdleTyped == NoJob \in Job /\ Nothing \in History
<1>1. Nothing \in History
    BY DEF Nothing, History, Known
<1>2. QED
    BY <1>1 DEF NoJob, Job, Steps

LEMMA IdleOK ==
    ASSUME NEW c \in Console
    PROVE  JobOK(c, NoJob) /\ NoJob.step = "idle"
<1>1. NoJob.step = "idle"
    BY DEF NoJob
<1>2. QED
    BY <1>1 DEF JobOK, OnDictionary

LEMMA ImportInitInv == ImportInit => ImportInv
<1> SUFFICES ASSUME ImportInit PROVE ImportInv
    OBVIOUS
<1>1. ImportTypeOK
    BY IdleTyped DEF ImportInit, ImportTypeOK, DictCode, Name
<1>2. OneExport /\ \A c \in Console : JobOK(c, job[c])
    BY IdleOK DEF ImportInit, OneExport
<1>3. QED
    BY <1>1, <1>2 DEF ImportInv

-----------------------------------------------------------------------------
(* A script that starts reads the tables and the files, and changes at     *)
(* most the snapshots.                                                     *)
LEMMA StartInv ==
    ASSUME ImportInv, NEW c \in Console, NEW j \in Job, Starts(c, j),
           UNCHANGED <<tables, file, overrides>>,
           snaps' \in SUBSET DictCode, snaps \subseteq snaps',
           j.step = "export" => \A d \in Console : job[d].step # "export",
           JobOK(c, j)'
    PROVE  ImportInv'
<1>1. job' = [job EXCEPT ![c] = j]
    BY DEF Starts
<1>2. ImportTypeOK'
    BY <1>1 DEF ImportInv, ImportTypeOK, tables
<1>3. job'[c] = j /\ \A d \in Console \ {c} : job'[d] = job[d]
    BY <1>1 DEF ImportInv, ImportTypeOK
<1>4. OneExport'
    BY <1>3 DEF ImportInv, OneExport
<1>5. ASSUME NEW d \in Console \ {c} PROVE JobOK(d, job[d])'
    <2>1. JobOK(d, job[d]) /\ job'[d] = job[d]
        BY <1>3 DEF ImportInv
    <2>2. CodesOf(prices[On(d)])' = CodesOf(prices[On(d)]) /\ Entries' = Entries
        BY DEF CodesOf, Entries, tables
    <2>3. QED
        BY <2>1, <2>2 DEF JobOK, OnePerMachine, tables
<1>6. QED
    BY <1>2, <1>3, <1>4, <1>5 DEF ImportInv

(* A script that ends has answered for itself; what it wrote must not      *)
(* disturb the others.                                                     *)
LEMMA EndInv ==
    ASSUME ImportInv, NEW c \in Console, Ends(c),
           prices' \in [Machine -> History], file' \in History,
           dict' \in [DictCode -> Name], overrides' = overrides, snaps' = snaps,
           \A d \in Console \ {c} : JobOK(d, job[d]) => JobOK(d, job[d])'
    PROVE  ImportInv'
<1>1. job' = [job EXCEPT ![c] = NoJob]
    BY DEF Ends
<1>2. ImportTypeOK'
    BY <1>1, IdleTyped DEF ImportInv, ImportTypeOK
<1>3. job'[c] = NoJob /\ \A d \in Console \ {c} : job'[d] = job[d]
    BY <1>1 DEF ImportInv, ImportTypeOK
<1>4. OneExport'
    BY <1>3, IdleOK DEF ImportInv, OneExport
<1>5. JobOK(c, NoJob)'
    <2>1. NoJob.step = "idle"
        BY DEF NoJob
    <2>2. QED
        BY <2>1 DEF JobOK, OnDictionary
<1>6. QED
    BY <1>2, <1>3, <1>4, <1>5 DEF ImportInv

(* What the prices of one machine become is nobody's business on the other.*)
LEMMA PricesWritten ==
    ASSUME ImportInv, NEW c \in Console, NEW d \in Console \ {c},
           NEW h \in History,
           prices' = [prices EXCEPT ![On(c)] = h] \/ prices' = prices,
           UNCHANGED <<dict, files>>, JobOK(d, job[d]), job'[d] = job[d]
    PROVE  JobOK(d, job[d])'
<1>1. On(c) \in Machine /\ On(d) \in Machine
    BY DEF On, Machine
<1>2. OnePerMachine => prices'[On(d)] = prices[On(d)]
    BY <1>1 DEF OnePerMachine, ImportInv, ImportTypeOK
<1>3. Entries' = Entries
    BY DEF Entries
<1>4. OnePerMachine => CodesOf(prices[On(d)])' = CodesOf(prices[On(d)])
    BY <1>2 DEF CodesOf
<1>5. QED
    BY <1>2, <1>3, <1>4 DEF JobOK, OnePerMachine, files

(* A script on the server changes the dictionary: it is the only one       *)
(* there, or leaves the names that users type to them.                     *)
LEMMA DictWritten ==
    ASSUME ImportInv, NEW c \in Host, NEW d \in Console \ {c},
           \A x \in overrides : dict'[x] = "hand" => dict[x] = "hand",
           On(d) # On(c) => prices'[On(d)] = prices[On(d)],
           UNCHANGED files, JobOK(d, job[d]), job'[d] = job[d]
    PROVE  JobOK(d, job[d])'
<1>1. OnePerMachine => d \notin Host /\ On(d) # On(c)
    BY Consoles DEF OnePerMachine, On, Console
<1>2. OnePerMachine => job[d].step \notin {"counting", "replace"}
    BY <1>1 DEF JobOK, OnDictionary
<1>3. OnePerMachine => CodesOf(prices[On(d)])' = CodesOf(prices[On(d)])
    BY <1>1 DEF CodesOf
<1>4. QED
    BY <1>1, <1>2, <1>3 DEF JobOK, OnePerMachine, files

-----------------------------------------------------------------------------
(* The price history *)

LEMMA CodesTyped ==
    ASSUME NEW h \in History
    PROVE  CodesOf(h) \in SUBSET DictCode
    BY DEF CodesOf, DictCode

LEMMA OnMachine ==
    ASSUME NEW c \in Console
    PROVE  On(c) \in Machine
    BY DEF On, Machine

LEMMA ReadForUpsertInv ==
    ASSUME ImportInv, NEW c \in Console, NEW rows \in History,
           ReadForUpsert(c, rows), UNCHANGED <<tables, files>>
    PROVE  ImportInv'
<1> PICK j : j = [NoJob EXCEPT !.step = "upsert", !.rows = rows,
                              !.seen = prices[On(c)]]
    OBVIOUS
<1>1. prices[On(c)] \in History
    BY OnMachine DEF ImportInv, ImportTypeOK
<1>2. /\ j \in Job
      /\ j.step = "upsert" /\ j.seen = prices[On(c)]
    BY <1>1, IdleTyped DEF Job, NoJob, Steps
<1>3. JobOK(c, j)'
    BY <1>2 DEF JobOK, OnDictionary, tables
<1>4. /\ Starts(c, j) /\ UNCHANGED <<tables, file, overrides, snaps>>
      /\ snaps \in SUBSET DictCode
    BY DEF ReadForUpsert, files, ImportInv, ImportTypeOK
<1>5. QED
    BY <1>2, <1>3, <1>4, StartInv

LEMMA UpsertWriteInv ==
    ASSUME ImportInv, NEW c \in Console, UpsertWrite(c)
    PROVE  ImportInv'
<1> DEFINE m == On(c)
           h == Upserted(prices[m], job[c].seen, job[c].rows)
<1>1. /\ m \in Machine /\ prices \in [Machine -> History]
      /\ job[c] \in Job
    BY OnMachine DEF ImportInv, ImportTypeOK
<1>2. h \in History
    BY <1>1, UpsertKeeps DEF Job
<1>3. /\ prices' = [prices EXCEPT ![m] = h] \/ prices' = prices
      /\ Ends(c) /\ UNCHANGED <<dict, files>>
    BY DEF UpsertWrite
<1>4. prices' \in [Machine -> History]
    BY <1>1, <1>2, <1>3
<1>5. ASSUME NEW d \in Console \ {c}, JobOK(d, job[d]) PROVE JobOK(d, job[d])'
    BY <1>2, <1>3, <1>5, PricesWritten DEF Ends, ImportInv, ImportTypeOK
<1>6. QED
    BY <1>3, <1>4, <1>5, EndInv DEF ImportInv, ImportTypeOK, files

LEMMA FromExportMissingInv ==
    ASSUME ImportInv, NEW c \in Console, FromExportMissing(c)
    PROVE  ImportInv'
<1> PICK j : j = [NoJob EXCEPT !.step = "missing", !.rows = file,
                              !.known = CodesOf(prices[On(c)])]
    OBVIOUS
<1>1. /\ prices[On(c)] \in History /\ file \in History
    BY OnMachine DEF ImportInv, ImportTypeOK
<1>2. CodesOf(prices[On(c)]) \in SUBSET DictCode
    BY <1>1, CodesTyped
<1>3. /\ j \in Job
      /\ j.step = "missing" /\ j.known = CodesOf(prices[On(c)])
    BY <1>1, <1>2, IdleTyped DEF Job, NoJob, Steps
<1>4. /\ Starts(c, j) /\ UNCHANGED <<tables, file, overrides, snaps>>
      /\ snaps \in SUBSET DictCode
    BY DEF FromExportMissing, files, ImportInv, ImportTypeOK
<1>5. JobOK(c, j)'
    BY <1>3, <1>4 DEF JobOK, OnDictionary, tables, CodesOf
<1>6. QED
    BY <1>3, <1>4, <1>5, StartInv

(* Only rows of codes without a price are inserted.                        *)
LEMMA MissingTyped ==
    ASSUME ImportInv, NEW c \in Console
    PROVE  MissingRows(On(c), job[c]) \in History
<1>1. job[c].rows \in History
    BY DEF ImportInv, ImportTypeOK, Job
<1>2. QED
    BY <1>1 DEF MissingRows, History, Known

LEMMA InsertMissingInv ==
    ASSUME ImportInv, NEW c \in Console, InsertMissing(c)
    PROVE  ImportInv'
<1> DEFINE m == On(c)
           h == Upserted(prices[m], Nothing, MissingRows(m, job[c]))
<1>1. m \in Machine /\ prices \in [Machine -> History]
    BY OnMachine DEF ImportInv, ImportTypeOK
<1>2. h \in History
    BY <1>1, MissingTyped, IdleTyped, UpsertKeeps
<1>3. /\ prices' = [prices EXCEPT ![m] = h] \/ prices' = prices
      /\ Ends(c) /\ UNCHANGED <<dict, files>>
    BY DEF InsertMissing
<1>4. prices' \in [Machine -> History]
    BY <1>1, <1>2, <1>3
<1>5. ASSUME NEW d \in Console \ {c}, JobOK(d, job[d]) PROVE JobOK(d, job[d])'
    BY <1>2, <1>3, <1>5, PricesWritten DEF Ends, ImportInv, ImportTypeOK
<1>6. QED
    BY <1>3, <1>4, <1>5, EndInv DEF ImportInv, ImportTypeOK, files

(* The file an export is about to replace has no triple that the new one   *)
(* lacks, because nobody else exports.                                     *)
LEMMA ExportInv ==
    ASSUME ImportInv, NEW c \in Console, Export(c)
    PROVE  ImportInv'
<1> PICK j : j = [NoJob EXCEPT !.step = "export", !.rows = Accumulated(On(c))]
    OBVIOUS
<1>1. /\ prices[On(c)] \in History /\ file \in History
    BY OnMachine DEF ImportInv, ImportTypeOK
<1>2. Accumulated(On(c)) \in History
    BY <1>1 DEF Accumulated, History
<1>3. /\ j \in Job
      /\ j.step = "export" /\ j.rows = Accumulated(On(c))
    BY <1>2, IdleTyped DEF Job, NoJob, Steps
<1>4. /\ Starts(c, j) /\ UNCHANGED <<tables, file, overrides, snaps>>
      /\ \A d \in Console : job[d].step # "export"
      /\ snaps \in SUBSET DictCode
    BY DEF Export, SameFile, ImportInv, ImportTypeOK
<1>5. \A t \in Triple : file[t] # {} => Accumulated(On(c))[t] # {}
    BY DEF Accumulated
<1>6. JobOK(c, j)'
    BY <1>3, <1>4, <1>5 DEF JobOK, OnDictionary
<1>7. QED
    BY <1>3, <1>4, <1>6, StartInv

LEMMA ExportReplaceInv ==
    ASSUME ImportInv, NEW c \in Console, ExportReplace(c)
    PROVE  ImportInv'
<1>1. /\ file' = job[c].rows /\ job[c] \in Job
      /\ Ends(c) /\ UNCHANGED <<tables, overrides, snaps>>
    BY DEF ExportReplace, ImportInv, ImportTypeOK
<1>2. ASSUME NEW d \in Console \ {c}, JobOK(d, job[d]) PROVE JobOK(d, job[d])'
    <2>1. job'[d] = job[d] /\ job[d].step # "export"
        BY <1>1 DEF Ends, ExportReplace, ImportInv, ImportTypeOK, OneExport
    <2>2. CodesOf(prices[On(d)])' = CodesOf(prices[On(d)]) /\ Entries' = Entries
        BY <1>1 DEF CodesOf, Entries, tables
    <2>3. QED
        BY <1>1, <1>2, <2>1, <2>2 DEF JobOK, OnePerMachine, tables
<1>3. QED
    BY <1>1, <1>2, EndInv DEF ImportInv, ImportTypeOK, tables, Job

LEMMA RestoreShadesInv ==
    ASSUME ImportInv, NEW c \in Console, RestoreShades(c)
    PROVE  ImportInv'
<1>1. /\ overrides \subseteq overrides' /\ overrides' \in SUBSET DictCode
      /\ UNCHANGED <<tables, file, snaps, job>>
    BY DEF RestoreShades, ImportInv, ImportTypeOK, DictCode
<1>2. ASSUME NEW d \in Console PROVE JobOK(d, job[d])'
    <2>1. CodesOf(prices[On(d)])' = CodesOf(prices[On(d)]) /\ Entries' = Entries
        BY <1>1 DEF CodesOf, Entries, tables
    <2>2. QED
        BY <1>1, <2>1 DEF ImportInv, JobOK, OnePerMachine, tables
<1>3. QED
    BY <1>1, <1>2 DEF ImportInv, ImportTypeOK, OneExport, tables

-----------------------------------------------------------------------------
(* The dictionary *)

(* resolve_name gives a name typed by hand only where no override has one. *)
LEMMA ResolvedName ==
    ASSUME NEW x \in DictCode
    PROVE  /\ ResolvedEntry(x) \in Name
           /\ x \in overrides => ResolvedEntry(x) = "full"
<1>1. CASE x \in overrides
    BY <1>1 DEF ResolvedEntry, Name
<1>2. CASE x \in Listed \ overrides
    BY <1>2 DEF ResolvedEntry, Name
<1>3. CASE x \notin overrides /\ x \notin Listed
    BY <1>3 DEF ResolvedEntry, Name
<1>4. QED
    BY <1>1, <1>2, <1>3

LEMMA MasterInv ==
    ASSUME ImportInv, NEW c \in Console, Master(c)
    PROVE  ImportInv'
<1>1. PICK codes \in SUBSET Listed \ {{}}, i \in Issue, force \in BOOLEAN :
          Starts(c, [NoJob EXCEPT
              !.step = "counting", !.codes = codes, !.switch = force,
              !.rows = [t \in Triple |->
                          IF t[1] \in codes /\ t[2] = i THEN {"price"} ELSE {}]])
    BY Zenon DEF Master
<1>2. [t \in Triple |-> IF t[1] \in codes /\ t[2] = i THEN {"price"} ELSE {}]
          \in History
    <2>1. {"price"} \in Known /\ {} \in Known
        BY DEF Known
    <2>2. QED
        BY <2>1 DEF History
<1> PICK j : j = [NoJob EXCEPT
              !.step = "counting", !.codes = codes, !.switch = force,
              !.rows = [t \in Triple |->
                          IF t[1] \in codes /\ t[2] = i THEN {"price"} ELSE {}]]
    OBVIOUS
<1>3. codes \in SUBSET DictCode
    BY DEF DictCode
<1>4. /\ j \in Job /\ j.step = "counting"
    BY <1>2, <1>3, IdleTyped DEF Job, NoJob, Steps
<1>5. /\ UNCHANGED <<tables, file, overrides>> /\ c \in Host
      /\ snaps' = snaps \cup Entries /\ snaps' \in SUBSET DictCode
      /\ snaps \subseteq snaps'
    BY DEF Master, Snapshot, Entries, ImportInv, ImportTypeOK
<1>6. JobOK(c, j)'
    <2>1. Entries' = Entries
        BY <1>5 DEF Entries, tables
    <2>2. QED
        BY <1>4, <1>5, <2>1 DEF JobOK
<1>7. QED
    BY <1>1, <1>4, <1>5, <1>6, StartInv

LEMMA MasterCountInv ==
    ASSUME ImportInv, NEW c \in Console, MasterCount(c)
    PROVE  ImportInv'
<1>1. job[c].step = "counting" /\ UNCHANGED <<tables, files>>
    BY DEF MasterCount
<1>2. \A d \in Console : CodesOf(prices[On(d)])' = CodesOf(prices[On(d)])
    BY <1>1 DEF CodesOf, tables
<1>3. Entries' = Entries
    BY <1>1 DEF Entries, tables
<1>4. CASE Ends(c)
    <2>1. ASSUME NEW d \in Console \ {c}, JobOK(d, job[d])
          PROVE  JobOK(d, job[d])'
        BY <1>1, <1>2, <1>3, <1>4, <2>1
        DEF JobOK, OnePerMachine, Ends, ImportInv, ImportTypeOK, tables, files
    <2>2. QED
        BY <1>1, <1>4, <2>1, EndInv DEF ImportInv, ImportTypeOK, tables, files
<1>5. CASE job' = [job EXCEPT ![c].step = "replace"]
    <2>1. /\ job'[c] = [job[c] EXCEPT !.step = "replace"]
          /\ job[c] \in Job /\ \A d \in Console \ {c} : job'[d] = job[d]
        BY <1>5 DEF ImportInv, ImportTypeOK
    <2>2. /\ job'[c] \in Job /\ job'[c].step = "replace"
          /\ job'[c].typed = job[c].typed
        BY <2>1 DEF Job, Steps
    <2>3. ImportTypeOK'
        BY <1>1, <1>5, <2>1, <2>2 DEF ImportInv, ImportTypeOK, tables, files
    <2>4. OneExport'
        <3>1. ASSUME NEW d \in Console, job'[d].step = "export"
              PROVE  job[d].step = "export"
            BY <2>1, <2>2, <3>1
        <3>2. QED
            BY <3>1 DEF ImportInv, OneExport
    <2>5. JobOK(c, job[c])'
        <3>1. JobOK(c, job[c]) /\ snaps' = snaps
            BY <1>1 DEF ImportInv, files
        <3>2. OnePerMachine' => Entries' \subseteq snaps' \cup job'[c].typed
            BY <1>1, <1>3, <2>2, <3>1 DEF JobOK, OnePerMachine
        <3>3. job'[c].step \in OnDictionary \cup {"catalogs"} => c \in Host
            BY <1>1, <2>2, <3>1 DEF JobOK, OnDictionary
        <3>4. QED
            BY <2>2, <3>2, <3>3 DEF JobOK
    <2>6. ASSUME NEW d \in Console \ {c} PROVE JobOK(d, job[d])'
        BY <1>1, <1>2, <1>3, <2>1 DEF ImportInv, JobOK, OnePerMachine, tables, files
    <2>7. QED
        BY <2>3, <2>4, <2>5, <2>6 DEF ImportInv
<1>6. QED
    BY <1>4, <1>5 DEF MasterCount

LEMMA MasterReplaceInv ==
    ASSUME ImportInv, NEW c \in Console, MasterReplace(c)
    PROVE  ImportInv'
<1> DEFINE rows == Replacement(job[c])
           h == Upserted(prices[On(c)], prices[On(c)], job[c].rows)
<1>1. /\ c \in Host /\ job[c] \in Job /\ On(c) \in Machine
      /\ prices \in [Machine -> History]
    BY OnMachine DEF ImportInv, ImportTypeOK, MasterReplace, JobOK, OnDictionary
<1>2. h \in History
    BY <1>1, UpsertKeeps DEF Job
<1>3. /\ dict' = [x \in DictCode |-> IF x \in rows THEN ResolvedEntry(x) ELSE "none"]
      /\ prices' = [prices EXCEPT ![On(c)] = h]
      /\ Ends(c) /\ UNCHANGED files
    BY DEF MasterReplace
<1>4. dict' \in [DictCode -> Name]
    BY <1>3, ResolvedName DEF Name
<1>5. \A x \in overrides : dict'[x] # "hand"
    BY <1>3, ResolvedName DEF ImportInv, ImportTypeOK
<1>6. ASSUME NEW d \in Console \ {c}, JobOK(d, job[d]) PROVE JobOK(d, job[d])'
    BY <1>1, <1>3, <1>5, <1>6, OnMachine, DictWritten DEF Ends, ImportInv, ImportTypeOK
<1>7. QED
    BY <1>1, <1>2, <1>3, <1>4, <1>6, EndInv DEF ImportInv, ImportTypeOK, files

LEMMA MasterMissingInv ==
    ASSUME ImportInv, NEW c \in Console, MasterMissing(c)
    PROVE  ImportInv'
<1>1. /\ c \in Host /\ job[c] = NoJob /\ UNCHANGED <<prices, files, job>>
      /\ dict' \in [DictCode -> Name]
      /\ \A x \in overrides : dict'[x] = "hand" => dict[x] = "hand"
    BY DEF MasterMissing, ImportInv, ImportTypeOK, Name
<1>2. ASSUME NEW d \in Console PROVE JobOK(d, job[d])'
    <2>1. CASE d = c
        <3>1. NoJob.step = "idle"
            BY DEF NoJob
        <3>2. QED
            BY <1>1, <2>1, <3>1 DEF JobOK, OnDictionary
    <2>2. CASE d # c
        BY <1>1, <2>2, DictWritten DEF ImportInv
    <2>3. QED
        BY <2>1, <2>2
<1>3. QED
    BY <1>1, <1>2 DEF ImportInv, ImportTypeOK, OneExport, files

LEMMA CatalogsInv ==
    ASSUME ImportInv, NEW c \in Console, Catalogs(c)
    PROVE  ImportInv'
<1>0. PICK codes \in {Listed, snaps}, only \in BOOLEAN :
         Starts(c, [NoJob EXCEPT !.step = "catalogs", !.codes = codes,
                                !.known = Entries, !.switch = only])
    BY DEF Catalogs
<1>1. PICK j : /\ j = [NoJob EXCEPT !.step = "catalogs", !.codes = codes,
                                   !.known = Entries, !.switch = only]
               /\ Starts(c, j)
    BY <1>0
<1>2. codes \in SUBSET DictCode /\ Entries \in SUBSET DictCode
    BY DEF DictCode, Entries, ImportInv, ImportTypeOK
<1>3. j \in Job /\ j.step = "catalogs"
    BY <1>1, <1>2, IdleTyped DEF Job, NoJob, Steps
<1>4. /\ c \in Host /\ UNCHANGED <<tables, file, overrides, snaps>>
      /\ snaps \in SUBSET DictCode
    BY DEF Catalogs, files, ImportInv, ImportTypeOK
<1>5. JobOK(c, j)'
    BY <1>3, <1>4 DEF JobOK, OnDictionary
<1>6. QED
    BY <1>1, <1>3, <1>4, <1>5, StartInv

LEMMA CatalogsWriteInv ==
    ASSUME ImportInv, NEW c \in Console, CatalogsWrite(c)
    PROVE  ImportInv'
<1>1. /\ c \in Host /\ Ends(c) /\ UNCHANGED <<prices, files>>
    BY DEF ImportInv, CatalogsWrite, JobOK
<1>2. \/ dict' = dict
      \/ dict' = [x \in DictCode |->
                    IF x \in Refreshed(job[c]) THEN ResolvedEntry(x) ELSE dict[x]]
    BY DEF CatalogsWrite
<1>3. /\ dict' \in [DictCode -> Name]
      /\ \A x \in overrides : dict'[x] = "hand" => dict[x] = "hand"
    BY <1>2, ResolvedName DEF ImportInv, ImportTypeOK
<1>4. ASSUME NEW d \in Console \ {c}, JobOK(d, job[d]) PROVE JobOK(d, job[d])'
    BY <1>1, <1>3, <1>4, DictWritten DEF Ends, ImportInv, ImportTypeOK
<1>5. QED
    BY <1>1, <1>3, <1>4, EndInv DEF ImportInv, ImportTypeOK, files

LEMMA PlanShadesInv ==
    ASSUME ImportInv, NEW c \in Console, PlanShades(c)
    PROVE  ImportInv'
<1>1. PICK j : /\ j = [NoJob EXCEPT !.step = "shades", !.codes = ShadeRows]
               /\ Starts(c, j)
    BY DEF PlanShades
<1>2. ShadeRows \in SUBSET DictCode
    BY DEF ShadeRows, Entries, ImportInv, ImportTypeOK
<1>3. j \in Job /\ j.step = "shades" /\ j.codes = ShadeRows
    BY <1>1, <1>2, IdleTyped DEF Job, NoJob, Steps
<1>4. /\ c \in Host /\ UNCHANGED <<tables, file, overrides, snaps>>
      /\ snaps \in SUBSET DictCode
    BY DEF PlanShades, files, ImportInv, ImportTypeOK
<1>5. JobOK(c, j)'
    <2>1. /\ ShadeRows \subseteq overrides
          /\ \A x \in ShadeRows : dict[x] # "hand"
        BY DEF ShadeRows
    <2>2. QED
        BY <1>3, <1>4, <2>1 DEF JobOK, tables
<1>6. QED
    BY <1>1, <1>3, <1>4, <1>5, StartInv

LEMMA ApplyShadesInv ==
    ASSUME ImportInv, NEW c \in Console, ApplyShades(c)
    PROVE  ImportInv'
<1>1. /\ c \in Host /\ Ends(c) /\ UNCHANGED <<prices, files>>
    BY DEF ImportInv, ApplyShades, JobOK, OnDictionary
<1>2. /\ dict' \in [DictCode -> Name]
      /\ \A x \in overrides : dict'[x] = "hand" => dict[x] = "hand"
    BY DEF ApplyShades, ImportInv, ImportTypeOK, Name
<1>3. ASSUME NEW d \in Console \ {c}, JobOK(d, job[d]) PROVE JobOK(d, job[d])'
    BY <1>1, <1>2, <1>3, DictWritten DEF Ends, ImportInv, ImportTypeOK
<1>4. QED
    BY <1>1, <1>2, <1>3, EndInv DEF ImportInv, ImportTypeOK, files

(* Every script that has read the dictionary knows what is typed meanwhile.*)
LEMMA TypeInv ==
    ASSUME ImportInv, NEW x \in DictCode, Type(x)
    PROVE  ImportInv'
<1>1. /\ dict' = [dict EXCEPT ![x] = "hand"]
      /\ UNCHANGED <<prices, files>>
    BY DEF Type
<1>2. ASSUME NEW c \in Console
      PROVE  /\ job'[c] \in Job
             /\ job'[c].step = job[c].step /\ job'[c].rows = job[c].rows
             /\ job'[c].seen = job[c].seen /\ job'[c].codes = job[c].codes
             /\ job'[c].known = job[c].known
             /\ job[c].step \in OnDictionary =>
                    job'[c].typed = job[c].typed \cup {x}
    <2>1. job[c] \in Job
        BY DEF ImportInv, ImportTypeOK
    <2>2. CASE job[c].step \in OnDictionary
        <3>1. job'[c] = [job[c] EXCEPT !.typed = @ \cup {x}]
            BY <2>2 DEF Type
        <3>2. QED
            BY <2>1, <3>1 DEF Job
    <2>3. CASE job[c].step \notin OnDictionary
        <3>1. job'[c] = job[c]
            BY <2>3 DEF Type
        <3>2. QED
            BY <2>1, <2>3, <3>1
    <2>4. QED
        BY <2>2, <2>3
<1>3. ImportTypeOK'
    <2>1. job' \in [Console -> Job]
        BY <1>2 DEF Type
    <2>2. QED
        BY <1>1, <2>1 DEF ImportInv, ImportTypeOK, files, Name
<1>4. OneExport'
    BY <1>2 DEF ImportInv, OneExport
<1>5. ASSUME NEW c \in Console PROVE JobOK(c, job[c])'
    <2>1. JobOK(c, job[c])
        BY DEF ImportInv
    <2>2. Entries' = Entries \cup {x}
        BY <1>1 DEF Entries, ImportInv, ImportTypeOK
    <2>3. CodesOf(prices[On(c)])' = CodesOf(prices[On(c)])
        BY <1>1 DEF CodesOf
    <2>4. \A y \in DictCode : dict'[y] = "hand" => y = x \/ dict[y] = "hand"
        BY <1>1 DEF ImportInv, ImportTypeOK
    <2>5. job[c].codes \in SUBSET DictCode
        BY DEF ImportInv, ImportTypeOK, Job
    <2>6. QED
        BY <1>1, <1>2, <2>1, <2>2, <2>3, <2>4, <2>5
        DEF JobOK, OnDictionary, OnePerMachine, files
<1>6. QED
    BY <1>3, <1>4, <1>5 DEF ImportInv

LEMMA KilledInv ==
    ASSUME ImportInv, NEW c \in Console, Killed(c)
    PROVE  ImportInv'
<1>1. Ends(c) /\ UNCHANGED <<tables, files>>
    BY DEF Killed
<1>2. ASSUME NEW d \in Console \ {c}, JobOK(d, job[d]) PROVE JobOK(d, job[d])'
    BY <1>1, <1>2, PricesWritten, OnMachine DEF tables, Ends, ImportInv, ImportTypeOK
<1>3. QED
    BY <1>1, <1>2, EndInv DEF ImportInv, ImportTypeOK, tables, files

LEMMA StutterInv == ImportInv /\ UNCHANGED importVars => ImportInv'
<1> SUFFICES ASSUME ImportInv, UNCHANGED importVars PROVE ImportInv'
    OBVIOUS
<1>1. Entries' = Entries /\ \A c \in Console :
          CodesOf(prices[On(c)])' = CodesOf(prices[On(c)])
    BY DEF importVars, tables, Entries, CodesOf
<1>2. QED
    BY <1>1 DEF importVars, tables, files, ImportInv, ImportTypeOK, OneExport, JobOK, OnePerMachine

LEMMA ImportNextInv == ImportInv /\ [ImportNext]_importVars => ImportInv'
<1> SUFFICES ASSUME ImportInv, [ImportNext]_importVars PROVE ImportInv'
    OBVIOUS
<1>1. ASSUME NEW c \in Console, Archive(c) \/ FromExport(c) PROVE ImportInv'
    BY <1>1, ReadForUpsertInv DEF Archive, FromExport, ImportInv, ImportTypeOK
<1>2. ASSUME NEW c \in Console,
             \/ UpsertWrite(c) \/ FromExportMissing(c) \/ InsertMissing(c)
             \/ Export(c) \/ ExportReplace(c) \/ RestoreShades(c)
      PROVE  ImportInv'
    BY <1>2, UpsertWriteInv, FromExportMissingInv, InsertMissingInv, ExportInv,
       ExportReplaceInv, RestoreShadesInv
<1>3. ASSUME NEW c \in Console,
             \/ Master(c) \/ MasterCount(c) \/ MasterReplace(c)
             \/ MasterMissing(c) \/ Catalogs(c) \/ CatalogsWrite(c)
             \/ PlanShades(c) \/ ApplyShades(c) \/ Killed(c)
      PROVE  ImportInv'
    BY <1>3, MasterInv, MasterCountInv, MasterReplaceInv, MasterMissingInv,
       CatalogsInv, CatalogsWriteInv, PlanShadesInv, ApplyShadesInv, KilledInv
<1>4. ASSUME NEW x \in DictCode, AddEntry(x) \/ UpdateEntry(x) PROVE ImportInv'
    BY <1>4, TypeInv DEF AddEntry, UpdateEntry
<1>5. CASE UNCHANGED importVars
    BY <1>5, StutterInv
<1>6. QED
    BY <1>1, <1>2, <1>3, <1>4, <1>5 DEF ImportNext

LEMMA ImportInvariance == ImportSpec => []ImportInv
    BY ImportInitInv, ImportNextInv, PTL DEF ImportSpec

-----------------------------------------------------------------------------
(* The file that carries the history between the machines never loses a    *)
(* triple, from any number of consoles, wherever a process is killed       *)
(* (merge_price_export and atomic_write).                                  *)
THEOREM FileOnlyGrows == ImportSpec => FileGrows
<1> DEFINE Grows == \A t \in Triple : file[t] # {} => file'[t] # {}
<1>1. ImportInv /\ [ImportNext]_importVars => [Grows]_importVars
    <2> SUFFICES ASSUME ImportInv, [ImportNext]_importVars PROVE Grows \/ UNCHANGED importVars
        OBVIOUS
    <2>1. ASSUME NEW c \in Console, ExportReplace(c) PROVE Grows
        BY <2>1 DEF ExportReplace, ImportInv, JobOK
    <2>2. CASE UNCHANGED file
        BY <2>2
    <2>3. UNCHANGED file \/ \E c \in Console : ExportReplace(c)
        BY DEF ImportNext, importVars, files, Archive, FromExport, UpsertWrite,
           FromExportMissing, InsertMissing, Export, SameFile, RestoreShades,
           Master, MasterCount, MasterReplace, MasterMissing, Catalogs,
           CatalogsWrite, PlanShades, ApplyShades, Killed, AddEntry,
           UpdateEntry, Type
    <2>4. QED
        BY <2>1, <2>2, <2>3
<1>2. QED
    BY ImportInvariance, <1>1, PTL DEF ImportSpec, FileGrows

(* The steps that write names into the dictionary.                         *)
LEMMA DictWriters ==
    ASSUME [ImportNext]_importVars
    PROVE  \/ UNCHANGED dict
           \/ \E c \in Console : MasterReplace(c) \/ MasterMissing(c)
                                 \/ CatalogsWrite(c) \/ ApplyShades(c)
           \/ \E x \in DictCode : Type(x)
    BY DEF ImportNext, importVars, tables, files, Archive, FromExport, ReadForUpsert,
       UpsertWrite, FromExportMissing, InsertMissing, Export, ExportReplace,
       RestoreShades, Master, MasterCount, Catalogs, PlanShades, Killed,
       AddEntry, UpdateEntry

(* A name typed by hand survives every script but the two that are         *)
(* authoritative, and a restoration of shades that was planned before it   *)
(* was typed; whatever runs at the same time (apply_dictionary_import,     *)
(* insert_missing_dictionary_rows, apply_shade_name_updates).              *)
THEOREM TypedNamesKept == ImportSpec => HandKept
<1> DEFINE Kept == \A x \in DictCode :
          dict[x] = "hand" /\ dict'[x] # "hand" =>
             \E c \in Console :
                \/ job[c].step = "replace"
                \/ job[c].step = "catalogs" /\ ~job[c].switch
                \/ job[c].step = "shades" /\ x \in job[c].typed
<1>1. ImportInv /\ [ImportNext]_importVars => [Kept]_importVars
    <2> SUFFICES ASSUME ImportInv, [ImportNext]_importVars, NEW x \in DictCode,
                        dict[x] = "hand", dict'[x] # "hand"
                 PROVE  \E c \in Console :
                            \/ job[c].step = "replace"
                            \/ job[c].step = "catalogs" /\ ~job[c].switch
                            \/ job[c].step = "shades" /\ x \in job[c].typed
        BY DEF Kept
    <2>1. x \in Entries
        BY DEF Entries
    <2>2. ASSUME NEW c \in Console, MasterReplace(c)
          PROVE  job[c].step = "replace"
        BY <2>2 DEF MasterReplace
    <2>3. ASSUME NEW c \in Console, MasterMissing(c) PROVE FALSE
        BY <2>1, <2>3 DEF MasterMissing
    <2>4. ASSUME NEW c \in Console, CatalogsWrite(c)
          PROVE  job[c].step = "catalogs" /\ ~job[c].switch
        <3>1. /\ job[c].step = "catalogs"
              /\ x \in Refreshed(job[c])
              /\ ~(x \in job[c].known <=> x \notin Entries)
            BY <2>4 DEF CatalogsWrite
        <3>2. QED
            BY <2>1, <3>1 DEF Refreshed
    <2>5. ASSUME NEW c \in Console, ApplyShades(c)
          PROVE  job[c].step = "shades" /\ x \in job[c].typed
        BY <2>5 DEF ApplyShades, ImportInv, JobOK
    <2>6. ASSUME NEW y \in DictCode, Type(y) PROVE FALSE
        BY <2>6 DEF Type, ImportInv, ImportTypeOK
    <2>7. QED
        BY <2>2, <2>3, <2>4, <2>5, <2>6, DictWriters
<1>2. QED
    BY ImportInvariance, <1>1, PTL DEF ImportSpec, HandKept

(* With one console to a machine, every code that a replacement of the     *)
(* dictionary removes is in a snapshot, unless it was typed after the      *)
(* snapshot (snapshot_dictionary and apply_master_import).                 *)
THEOREM ReplacementHasWayBack == OnePerMachine => (ImportSpec => WayBack)
<1> SUFFICES ASSUME OnePerMachine PROVE ImportSpec => WayBack
    OBVIOUS
<1> DEFINE Back == /\ snaps \subseteq snaps'
                   /\ \A x \in DictCode :
                         dict[x] # "none" /\ dict'[x] = "none" =>
                            \/ x \in snaps
                            \/ \E c \in Console :
                                  job[c].step = "replace" /\ x \in job[c].typed
<1>1. ImportInv /\ [ImportNext]_importVars => [Back]_importVars
    <2> SUFFICES ASSUME ImportInv, [ImportNext]_importVars PROVE Back \/ UNCHANGED importVars
        OBVIOUS
    <2>1. snaps \subseteq snaps'
        BY DEF ImportNext, importVars, files, Archive, FromExport, UpsertWrite,
           FromExportMissing, InsertMissing, Export, ExportReplace,
           RestoreShades, Master, Snapshot, MasterCount, MasterReplace,
           MasterMissing, Catalogs, CatalogsWrite, PlanShades, ApplyShades,
           Killed, AddEntry, UpdateEntry, Type
    <2>2. ASSUME NEW x \in DictCode, dict[x] # "none", dict'[x] = "none"
          PROVE  \/ x \in snaps
                 \/ \E c \in Console : /\ job[c].step = "replace"
                                       /\ x \in job[c].typed
        <3>1. x \in Entries
            BY <2>2 DEF Entries
        <3>2. ASSUME NEW c \in Console, MasterReplace(c)
              PROVE  x \in snaps \/ (job[c].step = "replace" /\ x \in job[c].typed)
            BY <3>1, <3>2 DEF MasterReplace, ImportInv, JobOK
        <3>3. ASSUME NEW c \in Console,
                     MasterMissing(c) \/ CatalogsWrite(c) \/ ApplyShades(c)
              PROVE  FALSE
            <4>1. ResolvedEntry(x) # "none"
                BY DEF ResolvedEntry
            <4>2. QED
                BY <2>2, <3>3, <4>1
                DEF MasterMissing, CatalogsWrite, ApplyShades, ImportInv, ImportTypeOK
        <3>4. ASSUME NEW y \in DictCode, Type(y) PROVE FALSE
            BY <2>2, <3>4 DEF Type, ImportInv, ImportTypeOK
        <3>5. QED
            BY <2>2, <3>2, <3>3, <3>4, DictWriters
    <2>3. QED
        BY <2>1, <2>2
<1>2. ImportInv => ImportTypeOK
    BY DEF ImportInv
<1>3. QED
    BY ImportInvariance, <1>1, <1>2, PTL DEF ImportSpec, WayBack

(* With one console to a machine, no import takes a known field away from  *)
(* a price history, nor adds a triple to a code that has one when it must  *)
(* not (upsert_price_rows, insert_missing_price_rows).                     *)
THEOREM HistoryOnlyGrows == OnePerMachine => (ImportSpec => HistoryKept)
<1> SUFFICES ASSUME OnePerMachine PROVE ImportSpec => HistoryKept
    OBVIOUS
<1> DEFINE Richer == \A m \in Machine, t \in Triple :
                         prices[m][t] \subseteq prices'[m][t]
           Latest == \A c \in Console, t \in Triple :
                         InsertMissing(c) /\ t[1] \in CodesOf(prices[On(c)])
                             => prices'[On(c)][t] = prices[On(c)][t]
<1>1. ImportInv /\ [ImportNext]_importVars => [Richer]_importVars
    <2> SUFFICES ASSUME ImportInv, [ImportNext]_importVars PROVE Richer \/ UNCHANGED importVars
        OBVIOUS
    <2>1. \A m \in Machine, t \in Triple : prices[m] \in History
        BY DEF ImportInv, ImportTypeOK
    <2>2. ASSUME NEW c \in Console, NEW seen \in History, NEW rows \in History,
                 ~Clash(prices[On(c)], seen, rows),
                 \A t \in Triple : prices[On(c)][t] \subseteq seen[t],
                 prices' = [prices EXCEPT ![On(c)] =
                                Upserted(prices[On(c)], seen, rows)]
          PROVE  Richer
        <3>1. On(c) \in Machine /\ prices[On(c)] \in History
            BY OnMachine DEF ImportInv, ImportTypeOK
        <3>2. \A t \in Triple : prices[On(c)][t]
                                    \subseteq Upserted(prices[On(c)], seen, rows)[t]
            BY <2>2, <3>1, UpsertKeeps
        <3>3. QED
            BY <2>2, <3>1, <3>2 DEF ImportInv, ImportTypeOK
    <2>3. ASSUME NEW c \in Console, UpsertWrite(c) PROVE Richer
        <3>1. /\ job[c].seen = prices[On(c)]
              /\ job[c].seen \in History /\ job[c].rows \in History
            BY <2>3 DEF UpsertWrite, ImportInv, ImportTypeOK, Job, JobOK
        <3>2. QED
            BY <2>2, <2>3, <3>1 DEF UpsertWrite
    <2>4. ASSUME NEW c \in Console, InsertMissing(c) PROVE Richer
        <3> DEFINE m == On(c)
                   rows == MissingRows(m, job[c])
        <3>1. /\ rows \in History /\ Nothing \in History /\ m \in Machine
              /\ prices[m] \in History
            BY MissingTyped, IdleTyped, OnMachine DEF ImportInv, ImportTypeOK
        <3>2. CASE UNCHANGED prices
            BY <3>2
        <3>3. CASE /\ ~Clash(prices[m], Nothing, rows)
                   /\ prices' = [prices EXCEPT ![m] =
                                     Upserted(prices[m], Nothing, rows)]
            <4>1. \A t \in Triple :
                      prices[m][t] \subseteq Upserted(prices[m], Nothing, rows)[t]
                BY <3>3 DEF Upserted, Clash, Nothing
            <4>2. QED
                BY <3>1, <3>3, <4>1 DEF ImportInv, ImportTypeOK
        <3>4. QED
            BY <2>4, <3>2, <3>3 DEF InsertMissing
    <2>5. ASSUME NEW c \in Console, MasterReplace(c) PROVE Richer
        <3>1. /\ prices[On(c)] \in History /\ job[c].rows \in History
            BY OnMachine DEF ImportInv, ImportTypeOK, Job
        <3>2. ~Clash(prices[On(c)], prices[On(c)], job[c].rows)
            BY DEF Clash
        <3>3. QED
            BY <2>2, <2>5, <3>1, <3>2 DEF MasterReplace
    <2>6. \/ UNCHANGED prices
          \/ \E c \in Console : UpsertWrite(c) \/ InsertMissing(c)
                                \/ MasterReplace(c)
        BY DEF ImportNext, importVars, tables, files, Archive, FromExport,
           FromExportMissing, Export, ExportReplace, RestoreShades, Master,
           MasterCount, MasterMissing, Catalogs, CatalogsWrite, PlanShades,
           ApplyShades, Killed, AddEntry, UpdateEntry, Type
    <2>7. QED
        BY <2>3, <2>4, <2>5, <2>6
<1>2. ImportInv /\ [ImportNext]_importVars => [Latest]_importVars
    <2> SUFFICES ASSUME ImportInv, NEW c \in Console, NEW t \in Triple,
                        InsertMissing(c), t[1] \in CodesOf(prices[On(c)])
                 PROVE  prices'[On(c)][t] = prices[On(c)][t]
        BY DEF Latest
    <2> DEFINE m == On(c)
               rows == MissingRows(m, job[c])
    <2>1. job[c].known = CodesOf(prices[m])
        BY DEF InsertMissing, ImportInv, JobOK
    <2>2. rows[t] = {}
        BY <2>1 DEF MissingRows
    <2>3. Upserted(prices[m], Nothing, rows)[t] = prices[m][t]
        BY <2>2 DEF Upserted
    <2>4. m \in Machine
        BY OnMachine
    <2>5. QED
        BY <2>3, <2>4 DEF InsertMissing, ImportInv, ImportTypeOK
<1>3. QED
    BY ImportInvariance, <1>1, <1>2, PTL
    DEF ImportSpec, HistoryKept, NeverPoorer, LatestKept

-----------------------------------------------------------------------------
(* The sheet that is booked as a receipt *)

Booking == mode \in {"resolve", "register"}
MarkedLots == {p[2] : p \in pending.marked}

(* A batch is of a product that has a card, and what was booked into it    *)
(* was booked by a run there has been.                                     *)
LotsInv == \A i \in LotId : /\ card[lots[i].code] # "none"
                            /\ \A g \in lots[i].rows : g[1] <= attempt

(* What a run remembers of a batch it made for a row with a marker: it has *)
(* booked into it, and nothing but rows like that one.                     *)
Remembers(p) ==
    /\ p[2] \in LotId /\ p[1][3] # NoMark
    /\ \E g \in lots[p[2]].rows : g[1] = attempt
    /\ \A g \in lots[p[2]].rows : g[1] = attempt => Key(sheet[g[2]]) = p[1]

(* And it remembers every such batch.                                      *)
MarkedInv ==
    /\ attempt = 0 => pending.marked = {}
    /\ Booking =>
          /\ pending.codes = {} /\ pending.keys = {} /\ attempt > 0
          /\ \A p \in pending.marked : Remembers(p)
          /\ \A i \in LotId : \A g \in lots[i].rows :
                g[1] = attempt /\ sheet[g[2]].mark # NoMark => i \in MarkedLots

(* What was decided of the next row is still true of its batch and its     *)
(* card, whatever the pages have done since.                               *)
DecisionInv ==
    mode = "register" =>
        LET r == sheet[line + 1]
        IN  /\ line < Len(sheet)
            /\ decision.prices = ~decision.exists
            /\ decision.exists => card[r.code] # "none"
            /\ decision.action = "topup" =>
                  /\ decision.lot \in LotId
                  /\ IF r.mark # NoMark THEN <<Key(r), decision.lot>> \in pending.marked
                     ELSE decision.lot \in MonthLots(r)

(* The rows that would find a batch to top up.                             *)
Filled == {r \in SheetRow : Candidates(r) # {}}

(* What the dry run said of the rows behind the first n is what would be   *)
(* said of them now if the rows between were booked.                       *)
Ahead(n) ==
    \A k \in (n + 1)..Len(predicted) :
        /\ predicted[k].exists <=> \/ card[sheet[k].code] # "none"
                                   \/ \E j \in (n + 1)..(k - 1) : sheet[j].code = sheet[k].code
        /\ predicted[k].action = "topup"
              <=> \/ sheet[k] \in Filled
                  \/ \E j \in (n + 1)..(k - 1) : Key(sheet[j]) = Key(sheet[k])

(* A dry run remembers the codes and the batches it would have made.       *)
DryInv ==
    /\ Len(predicted) = line
    /\ \A c \in SheetCode :
          c \in pending.codes <=> card[c] = "none" /\ \E j \in 1..line : sheet[j].code = c
    /\ \A r \in SheetRow :
          Key(r) \in pending.keys
             <=> r \notin Filled /\ \E j \in 1..line : Key(sheet[j]) = Key(r)

PredictionInv ==
    /\ line <= Len(sheet) /\ Len(sheet) > 0
    /\ Len(predicted) <= Len(sheet)
    /\ mode = "dry" => attempt = 0 /\ Len(predicted) = line
    /\ attempt = 0 => done = <<>> /\ ~Booking
    /\ attempt > 0 => Len(predicted) = Len(sheet) /\ mode # "dry"
    /\ attempt > 1 => touched
    /\ Booking => Len(done) = line
    /\ ~touched =>
          /\ attempt = 0 => Ahead(0)
          /\ mode = "dry" => DryInv
          /\ Booking => Ahead(line)
          /\ mode = "register" => Seen(decision) = predicted[line + 1]

SheetInv ==
    /\ Predicted /\ MarkedApart
    /\ LotsInv /\ MarkedInv /\ DecisionInv /\ PredictionInv

-----------------------------------------------------------------------------
(* Sequences, rows and batches *)

LEMMA Appended ==
    ASSUME NEW S, NEW s \in Seq(S), NEW e \in S
    PROVE  /\ Append(s, e) \in Seq(S) /\ Len(Append(s, e)) = Len(s) + 1
           /\ Append(s, e)[Len(s) + 1] = e
           /\ \A i \in 1..Len(s) : Append(s, e)[i] = s[i]
OBVIOUS

LEMMA ItemTyped ==
    ASSUME NEW S, NEW s \in Seq(S), NEW i \in 1..Len(s)
    PROVE  s[i] \in S
OBVIOUS

LEMMA RowTyped ==
    ASSUME SheetTypeOK, NEW k \in 1..Len(sheet)
    PROVE  /\ sheet[k] \in SheetRow
           /\ sheet[k].code \in SheetCode /\ sheet[k].month \in Month
           /\ sheet[k].mark \in Mark /\ Key(sheet[k]) \in Keys
<1>1. sheet[k] \in SheetRow
    BY DEF SheetTypeOK
<1>2. QED
    BY <1>1 DEF SheetRow, Key, Keys

LEMMA LotTyped ==
    ASSUME SheetTypeOK, NEW i \in LotId
    PROVE  /\ lots[i] \in Lot /\ lots[i].code \in SheetCode /\ lots[i].month \in Month
           /\ lots[i].rows \subseteq (1..MaxRuns) \X (1..MaxRows)
           /\ \A g \in lots[i].rows : g[1] \in Nat
<1>1. lots[i] \in Lot
    BY DEF SheetTypeOK, LotId
<1>2. lots[i].rows \subseteq (1..MaxRuns) \X (1..MaxRows)
    BY <1>1 DEF Lot
<1>3. \A g \in (1..MaxRuns) \X (1..MaxRows) : g[1] \in Nat
    BY SheetBounds
<1>4. QED
    BY <1>1, <1>2, <1>3 DEF Lot

LEMMA SameKey ==
    ASSUME NEW r, NEW q
    PROVE  Key(r) = Key(q) <=> r.code = q.code /\ r.month = q.month /\ r.mark = q.mark
BY DEF Key

(* Rows with one key find the same batches.                                *)
LEMMA FilledKey ==
    ASSUME NEW r \in SheetRow, NEW q \in SheetRow, Key(r) = Key(q)
    PROVE  r \in Filled <=> q \in Filled
<1>1. r.code = q.code /\ r.month = q.month /\ r.mark = q.mark
    BY SameKey
<1>2. MonthLots(r) = MonthLots(q)
    BY <1>1 DEF MonthLots
<1>3. Candidates(r) = Candidates(q)
    BY <1>1, <1>2 DEF Candidates
<1>4. QED
    BY <1>3 DEF Filled

LEMMA FilledSame ==
    ASSUME UNCHANGED <<card, lots>>, pending'.marked = pending.marked
    PROVE  /\ Filled' = Filled
           /\ \A r : MonthLots(r)' = MonthLots(r)
<1>1. LotId' = LotId /\ card' = card /\ lots' = lots
    BY DEF LotId
<1>2. ASSUME NEW r PROVE MonthLots(r)' = MonthLots(r)
    BY <1>1 DEF MonthLots
<1>3. ASSUME NEW r PROVE Candidates(r)' = Candidates(r)
    BY <1>1, <1>2 DEF Candidates
<1>4. QED
    BY <1>2, <1>3 DEF Filled

(* A step that writes nothing leaves what was said of the rows.            *)
LEMMA AheadSame ==
    ASSUME UNCHANGED <<sheet, card, lots, predicted>>, pending'.marked = pending.marked
    PROVE  /\ Ahead(0)' <=> Ahead(0)
           /\ line' = line => (Ahead(line)' <=> Ahead(line))
<1>1. sheet' = sheet /\ card' = card /\ predicted' = predicted
    OBVIOUS
<1>2. Filled' = Filled
    BY FilledSame
<1>3. QED
    BY <1>1, <1>2 DEF Ahead

-----------------------------------------------------------------------------
(* Steps that book nothing *)

LEMMA SheetInitInv ==
    ASSUME SheetInit
    PROVE  SheetInv
<1>1. /\ sheet \in Seq(SheetRow) /\ Len(sheet) <= MaxRows /\ Len(sheet) > 0
    <2>1. PICK n \in 1..MaxRows : sheet \in [1..n -> SheetRow]
        BY DEF SheetInit
    <2>2. n \in Nat /\ n <= MaxRows /\ n > 0
        BY <2>1, SheetBounds
    <2>3. sheet \in Seq(SheetRow) /\ Len(sheet) = n
        BY <2>1, <2>2
    <2>4. QED
        BY <2>2, <2>3
<1>2. /\ lots = <<>> /\ Len(lots) = 0 /\ lots \in Seq(Lot)
      /\ predicted = <<>> /\ Len(predicted) = 0
      /\ done = <<>> /\ DOMAIN done = {} /\ Len(done) = 0
      /\ predicted \in Seq([action: {"new", "topup"}, exists: BOOLEAN])
      /\ done \in Seq([action: {"new", "topup"}, exists: BOOLEAN])
    BY DEF SheetInit
<1>3. card \in [SheetCode -> Cards] /\ decision \in Decision
    BY SheetBounds DEF SheetInit, Cards, Decision, Undecided
<1>4. pending \in [codes: SUBSET SheetCode, keys: SUBSET Keys,
                   marked: SUBSET (Keys \X (1..MaxLots))]
    BY DEF SheetInit, Empty
<1>5. SheetTypeOK
    <2>1. /\ mode \in {"idle", "dry", "resolve", "register"} /\ attempt \in 0..MaxRuns
          /\ line \in 0..MaxRows /\ Len(lots) <= MaxLots
        BY <1>2, SheetBounds DEF SheetInit
    <2>2. touched \in BOOLEAN
        BY Zenon DEF SheetInit
    <2>3. QED
        BY <1>1, <1>2, <1>3, <1>4, <2>1, <2>2 DEF SheetTypeOK
<1>6. Predicted
    BY <1>2, <1>5 DEF Predicted
<1>7. LotId = {}
    BY <1>2 DEF LotId
<1>8. MarkedApart /\ LotsInv
    BY <1>7 DEF MarkedApart, LotsInv
<1>9. MarkedInv /\ DecisionInv
    BY DEF SheetInit, MarkedInv, DecisionInv, Booking, Empty
<1>10. Ahead(0)
    BY <1>2 DEF Ahead
<1>11. PredictionInv
    BY <1>1, <1>2, <1>10 DEF SheetInit, PredictionInv, Booking
<1>12. QED
    BY <1>6, <1>8, <1>9, <1>11 DEF SheetInv

(* What a step leaves alone that changes neither the sheet nor the shop    *)
(* nor the number of the run.                                              *)
LEMMA ShopSame ==
    ASSUME SheetInv, UNCHANGED <<sheet, card, lots, attempt>>
    PROVE  MarkedApart' /\ LotsInv'
<1>1. sheet' = sheet /\ card' = card /\ lots' = lots /\ attempt' = attempt /\ LotId' = LotId
    BY DEF LotId
<1>2. QED
    BY <1>1 DEF SheetInv, MarkedApart, LotsInv

(* A run that ends, in whatever way, and a dry run that ends.              *)
LEMMA RunEnds ==
    ASSUME SheetInv, DryEnds \/ Stop \/ SheetKilled
    PROVE  SheetInv'
<1>1. /\ mode' = "idle" /\ sheet' = sheet /\ card' = card /\ lots' = lots /\ attempt' = attempt
      /\ touched' = touched /\ line' = line /\ decision' = decision /\ pending' = pending
      /\ predicted' = predicted /\ done' = done
    BY DEF DryEnds, Stop, SheetKilled, shop
<1>2. SheetTypeOK' /\ Predicted'
    BY <1>1 DEF SheetInv, Predicted, SheetTypeOK
<1>3. MarkedApart' /\ LotsInv'
    BY <1>1, ShopSame
<1>4. MarkedInv' /\ DecisionInv'
    BY <1>1 DEF SheetInv, MarkedInv, DecisionInv, Booking
<1>5. Ahead(0)' <=> Ahead(0)
    BY <1>1, AheadSame
<1>6. PredictionInv'
    BY <1>1, <1>5 DEF SheetInv, PredictionInv, Booking
<1>7. QED
    BY <1>2, <1>3, <1>4, <1>6 DEF SheetInv

LEMMA DryRunInv ==
    ASSUME SheetInv, DryRun
    PROVE  SheetInv'
<1>1. /\ mode' = "dry" /\ sheet' = sheet /\ card' = card /\ lots' = lots /\ attempt' = attempt
      /\ touched' = FALSE /\ line' = 0 /\ decision' = decision /\ pending' = Empty
      /\ predicted' = predicted /\ done' = done /\ predicted = <<>>
    BY DEF DryRun
<1>2. Len(predicted) = 0 /\ attempt = 0 /\ done = <<>> /\ DOMAIN done = {}
    BY <1>1 DEF SheetInv, PredictionInv, Predicted, SheetTypeOK
<1>3. pending' \in [codes: SUBSET SheetCode, keys: SUBSET Keys,
                    marked: SUBSET (Keys \X (1..MaxLots))]
    BY <1>1 DEF Empty
<1>4. SheetTypeOK' /\ Predicted'
    <2>1. /\ mode' \in {"idle", "dry", "resolve", "register"} /\ line' \in 0..MaxRows
        BY <1>1, SheetBounds
    <2>2. touched' \in BOOLEAN
        BY <1>1, Zenon
    <2>3. SheetTypeOK'
        BY <1>1, <1>3, <2>1, <2>2 DEF SheetInv, Predicted, SheetTypeOK
    <2>4. QED
        BY <1>1, <1>2, <2>3 DEF Predicted
<1>5. MarkedApart' /\ LotsInv'
    BY <1>1, ShopSame
<1>6. pending'.marked = {} /\ pending'.codes = {} /\ pending'.keys = {}
    BY <1>1 DEF Empty
<1>7. MarkedInv' /\ DecisionInv'
    BY <1>1, <1>6 DEF MarkedInv, DecisionInv, Booking
<1>8. Ahead(0)'
    BY <1>1, <1>2 DEF Ahead
<1>9. DryInv'
    BY <1>1, <1>2, <1>6 DEF DryInv
<1>10. PredictionInv'
    BY <1>1, <1>2, <1>8, <1>9 DEF SheetInv, PredictionInv, Booking
<1>11. QED
    BY <1>4, <1>5, <1>7, <1>10 DEF SheetInv

(* What is said of a row has its type.                                     *)
LEMMA SeenTyped ==
    ASSUME NEW d \in Decision
    PROVE  /\ Seen(d) \in [action: {"new", "topup"}, exists: BOOLEAN]
           /\ Seen(d).action = d.action /\ Seen(d).exists = d.exists
           /\ d.action \in {"new", "topup"}
BY DEF Decision, Seen

(* resolve_row says that a row tops up a batch if it finds one or has seen *)
(* it made in a dry run.                                                   *)
LEMMA ResolvedRow ==
    ASSUME NEW r \in SheetRow, NEW d \in Decision, Resolves(r, d)
    PROVE  /\ d.exists <=> card[r.code] # "none" \/ r.code \in pending.codes
           /\ d.prices = ~d.exists
           /\ d.action = "topup" <=> r \in Filled \/ Key(r) \in pending.keys
           /\ d.action = "topup" /\ Key(r) \notin pending.keys => d.lot \in Candidates(r)
<1>1. d.exists = Exists(r) /\ d.prices = ~Exists(r)
    BY DEF Resolves, SendPrices
<1>2. d.exists \in BOOLEAN /\ d.prices \in BOOLEAN
    BY DEF Decision
<1>3. CASE Candidates(r) # {}
    BY <1>1, <1>2, <1>3 DEF Resolves, Exists, Filled
<1>4. CASE Candidates(r) = {} /\ Key(r) \in pending.keys
    BY <1>1, <1>2, <1>4 DEF Resolves, Exists, Filled
<1>5. CASE Candidates(r) = {} /\ Key(r) \notin pending.keys
    BY <1>1, <1>2, <1>5 DEF Resolves, Exists, Filled
<1>6. QED
    BY <1>3, <1>4, <1>5

LEMMA DryRowInv ==
    ASSUME SheetInv, DryRow
    PROVE  SheetInv'
<1> DEFINE r == sheet[line + 1]
<1>1. PICK d \in Decision :
         /\ Resolves(r, d) /\ predicted' = Append(predicted, Seen(d))
         /\ pending' = [pending EXCEPT !.codes = IF d.exists THEN @ ELSE @ \cup {r.code},
                                       !.keys = RememberedKeys(r, d)]
    BY DEF DryRow
<1>2. /\ mode = "dry" /\ line < Len(sheet) /\ line' = line + 1 /\ mode' = mode /\ sheet' = sheet
      /\ card' = card /\ lots' = lots /\ attempt' = attempt /\ touched' = touched
      /\ decision' = decision /\ done' = done
    BY DEF DryRow, shop
<1>3. SheetTypeOK /\ line \in Nat /\ Len(sheet) \in Nat /\ line + 1 \in 1..Len(sheet)
    BY <1>2, SheetBounds DEF SheetInv, Predicted, SheetTypeOK
<1>4. r \in SheetRow /\ r.code \in SheetCode /\ Key(r) \in Keys
    BY <1>3, RowTyped
<1>5. /\ pending.codes \subseteq SheetCode /\ pending.keys \subseteq Keys
      /\ pending.marked \subseteq Keys \X (1..MaxLots)
    BY <1>3 DEF SheetTypeOK
<1>6. /\ pending'.codes = IF d.exists THEN pending.codes ELSE pending.codes \cup {r.code}
      /\ pending'.keys = RememberedKeys(r, d) /\ pending'.marked = pending.marked
      /\ RememberedKeys(r, d) \subseteq Keys
      /\ pending' \in [codes: SUBSET SheetCode, keys: SUBSET Keys,
                       marked: SUBSET (Keys \X (1..MaxLots))]
    BY <1>1, <1>3, <1>4, <1>5 DEF SheetTypeOK, RememberedKeys
<1>7. attempt = 0 /\ done = <<>> /\ DOMAIN done = {} /\ Len(predicted) = line
    BY <1>2 DEF SheetInv, PredictionInv
<1>8. /\ predicted' \in Seq([action: {"new", "topup"}, exists: BOOLEAN])
      /\ Len(predicted') = line + 1 /\ predicted'[line + 1] = Seen(d)
      /\ \A i \in 1..line : predicted'[i] = predicted[i]
    BY <1>1, <1>3, <1>7, Appended, SeenTyped DEF SheetTypeOK
<1>9. SheetTypeOK' /\ Predicted'
    <2>1. line' \in 0..MaxRows
        BY <1>2, <1>3, SheetBounds DEF SheetTypeOK
    <2>2. SheetTypeOK'
        BY <1>2, <1>3, <1>6, <1>8, <2>1 DEF SheetTypeOK
    <2>3. QED
        BY <1>2, <1>7, <2>2 DEF Predicted
<1>10. MarkedApart' /\ LotsInv'
    BY <1>2, ShopSame
<1>11. MarkedInv' /\ DecisionInv'
    BY <1>2, <1>6, <1>7 DEF SheetInv, MarkedInv, DecisionInv, Booking
<1>12. Filled' = Filled
    BY <1>2, <1>6, FilledSame
<1>13. ASSUME ~touched PROVE Ahead(0)' /\ DryInv'
    <2>1. Ahead(0) /\ DryInv
        BY <1>2, <1>7, <1>13 DEF SheetInv, PredictionInv
    <2>2. /\ d.exists <=> \/ card[r.code] # "none" \/ \E j \in 1..line : sheet[j].code = r.code
          /\ d.action = "topup" <=> \/ r \in Filled \/ \E j \in 1..line : Key(sheet[j]) = Key(r)
        BY <1>1, <1>4, <2>1, ResolvedRow DEF DryInv
    <2>3. Seen(d).exists = d.exists /\ Seen(d).action = d.action /\ d.action \in {"new", "topup"}
        BY SeenTyped
    <2>4. Ahead(0)'
        <3> SUFFICES ASSUME NEW k \in 1..(line + 1)
                     PROVE  /\ predicted'[k].exists
                                 <=> \/ card[sheet[k].code] # "none"
                                     \/ \E j \in 1..(k - 1) : sheet[j].code = sheet[k].code
                            /\ predicted'[k].action = "topup"
                                 <=> \/ sheet[k] \in Filled
                                     \/ \E j \in 1..(k - 1) : Key(sheet[j]) = Key(sheet[k])
            BY <1>2, <1>8, <1>12 DEF Ahead
        <3>1. CASE k \in 1..line
            <4>1. predicted'[k] = predicted[k]
                BY <1>8, <3>1
            <4>2. QED
                BY <1>7, <2>1, <3>1, <4>1 DEF Ahead
        <3>2. CASE k = line + 1
            <4>1. predicted'[k] = Seen(d) /\ k - 1 = line /\ sheet[k] = r
                BY <1>3, <1>8, <3>2
            <4>2. QED
                BY <2>2, <2>3, <4>1
        <3>3. QED
            BY <1>3, <3>1, <3>2
    <2>5. ASSUME NEW c \in SheetCode
          PROVE  c \in pending'.codes
                    <=> card[c] = "none" /\ \E j \in 1..(line + 1) : sheet[j].code = c
        <3>1. c \in pending.codes <=> card[c] = "none" /\ \E j \in 1..line : sheet[j].code = c
            BY <2>1 DEF DryInv
        <3>2. (\E j \in 1..(line + 1) : sheet[j].code = c)
                 <=> (\E j \in 1..line : sheet[j].code = c) \/ r.code = c
            BY <1>3
        <3>3. c \in pending'.codes <=> c \in pending.codes \/ (~d.exists /\ c = r.code)
            BY <1>6
        <3>4. QED
            BY <2>2, <3>1, <3>2, <3>3
    <2>6. ASSUME NEW q \in SheetRow
          PROVE  Key(q) \in pending'.keys
                    <=> q \notin Filled /\ \E j \in 1..(line + 1) : Key(sheet[j]) = Key(q)
        <3>1. Key(q) \in pending.keys <=> q \notin Filled /\ \E j \in 1..line : Key(sheet[j]) = Key(q)
            BY <2>1 DEF DryInv
        <3>2. (\E j \in 1..(line + 1) : Key(sheet[j]) = Key(q))
                 <=> (\E j \in 1..line : Key(sheet[j]) = Key(q)) \/ Key(r) = Key(q)
            BY <1>3
        <3>3. Key(q) \in pending'.keys
                 <=> Key(q) \in pending.keys \/ (d.action = "new" /\ Key(q) = Key(r))
            BY <1>6 DEF RememberedKeys
        <3>4. Key(q) = Key(r) => (q \in Filled <=> r \in Filled)
            BY <1>4, FilledKey
        <3>5. CASE Key(q) = Key(r)
            BY <2>2, <2>3, <3>1, <3>2, <3>3, <3>4, <3>5
        <3>6. CASE Key(q) # Key(r)
            BY <3>1, <3>2, <3>3, <3>6
        <3>7. QED
            BY <3>5, <3>6
    <2>7. DryInv'
        BY <1>2, <1>8, <1>12, <2>5, <2>6 DEF DryInv
    <2>8. QED
        BY <2>4, <2>7
<1>14. PredictionInv'
    <2>1. /\ line' <= Len(sheet') /\ Len(sheet') > 0 /\ Len(predicted') <= Len(sheet')
          /\ Len(predicted') = line'
        BY <1>2, <1>3, <1>8
    <2>2. QED
        BY <1>2, <1>7, <1>13, <2>1 DEF PredictionInv, Booking
<1>15. QED
    BY <1>9, <1>10, <1>11, <1>14 DEF SheetInv

LEMMA ApplyInv ==
    ASSUME SheetInv, Apply
    PROVE  SheetInv'
<1>1. /\ mode = "idle" /\ Len(predicted) = Len(sheet) /\ attempt < MaxRuns
      /\ mode' = "resolve" /\ attempt' = attempt + 1 /\ line' = 0 /\ pending' = Empty
      /\ done' = <<>> /\ sheet' = sheet /\ card' = card /\ lots' = lots
      /\ decision' = decision /\ predicted' = predicted
    BY DEF Apply
<1>2. /\ SheetTypeOK /\ attempt \in Nat /\ Len(sheet) \in Nat /\ Len(sheet) > 0
      /\ DOMAIN done' = {} /\ Len(done') = 0
      /\ done' \in Seq([action: {"new", "topup"}, exists: BOOLEAN])
    BY <1>1, SheetBounds DEF SheetInv, PredictionInv, Predicted, SheetTypeOK
<1>3. touched' \in BOOLEAN /\ (touched' <=> touched \/ attempt > 0)
    BY DEF Apply
<1>4. /\ pending'.marked = {} /\ pending'.codes = {} /\ pending'.keys = {}
      /\ pending' \in [codes: SUBSET SheetCode, keys: SUBSET Keys,
                       marked: SUBSET (Keys \X (1..MaxLots))]
    BY <1>1 DEF Empty
<1>5. SheetTypeOK' /\ Predicted'
    <2>1. mode' \in {"idle", "dry", "resolve", "register"} /\ line' \in 0..MaxRows
          /\ attempt' \in 0..MaxRuns
        BY <1>1, <1>2, SheetBounds
    <2>2. SheetTypeOK'
        BY <1>1, <1>2, <1>3, <1>4, <2>1 DEF SheetTypeOK
    <2>3. QED
        BY <1>2, <2>2 DEF Predicted
<1>6. LotId' = LotId
    BY <1>1 DEF LotId
<1>7. ASSUME NEW i \in LotId, NEW g \in lots[i].rows PROVE g[1] \in Nat /\ g[1] <= attempt
    BY <1>2, LotTyped DEF SheetInv, LotsInv
<1>8. MarkedApart'
    BY <1>1, <1>6 DEF SheetInv, MarkedApart
<1>9. LotsInv'
    BY <1>1, <1>2, <1>6, <1>7 DEF SheetInv, LotsInv
<1>10. \A i \in LotId : \A g \in lots[i].rows : g[1] # attempt'
    BY <1>1, <1>2, <1>7
<1>11. MarkedInv'
    BY <1>1, <1>2, <1>4, <1>6, <1>10 DEF MarkedInv, Booking
<1>12. DecisionInv'
    BY <1>1 DEF DecisionInv
<1>13. ~touched' => Ahead(line)'
    <2> SUFFICES ASSUME ~touched' PROVE Ahead(line)'
        OBVIOUS
    <2>1. attempt = 0 /\ ~touched
        BY <1>2, <1>3
    <2>2. Ahead(0) /\ pending.marked = {}
        BY <2>1 DEF SheetInv, PredictionInv, MarkedInv
    <2>3. Filled' = Filled
        BY <1>1, <1>4, <2>2, FilledSame
    <2>4. QED
        BY <1>1, <2>2, <2>3 DEF Ahead
<1>14. PredictionInv'
    BY <1>1, <1>2, <1>3, <1>13 DEF PredictionInv, Booking
<1>15. QED
    BY <1>5, <1>8, <1>9, <1>11, <1>12, <1>14 DEF SheetInv

LEMMA ResolveRowInv ==
    ASSUME SheetInv, ResolveRow
    PROVE  SheetInv'
<1> DEFINE r == sheet[line + 1]
<1>1. PICK d \in Decision : Resolves(r, d) /\ decision' = d
    BY DEF ResolveRow
<1>2. /\ mode = "resolve" /\ line < Len(sheet) /\ mode' = "register" /\ sheet' = sheet
      /\ card' = card /\ lots' = lots /\ attempt' = attempt /\ touched' = touched
      /\ line' = line /\ pending' = pending /\ predicted' = predicted /\ done' = done
    BY DEF ResolveRow, shop
<1>3. SheetTypeOK /\ line \in Nat /\ line + 1 \in 1..Len(sheet)
    BY <1>2, SheetBounds DEF SheetInv, Predicted, SheetTypeOK
<1>4. r \in SheetRow
    BY <1>3, RowTyped
<1>5. pending.codes = {} /\ pending.keys = {} /\ attempt > 0
    BY <1>2 DEF SheetInv, MarkedInv, Booking
<1>6. /\ d.exists <=> card[r.code] # "none"
      /\ d.prices = ~d.exists
      /\ d.action = "topup" <=> r \in Filled
      /\ d.action = "topup" => d.lot \in Candidates(r)
    BY <1>1, <1>4, <1>5, ResolvedRow
<1>7. SheetTypeOK' /\ Predicted'
    BY <1>1, <1>2, <1>3 DEF SheetInv, Predicted, SheetTypeOK
<1>8. MarkedApart' /\ LotsInv'
    BY <1>2, ShopSame
<1>9. MarkedInv'
    BY <1>2, <1>5 DEF SheetInv, MarkedInv, Booking, Remembers, MarkedLots, LotId
<1>10. d.action = "topup" =>
          /\ d.lot \in LotId
          /\ IF r.mark # NoMark THEN <<Key(r), d.lot>> \in pending.marked
             ELSE d.lot \in MonthLots(r)
    <2> SUFFICES ASSUME d.action = "topup"
                 PROVE  /\ d.lot \in LotId
                        /\ IF r.mark # NoMark THEN <<Key(r), d.lot>> \in pending.marked
                           ELSE d.lot \in MonthLots(r)
        OBVIOUS
    <2>1. d.lot \in Candidates(r)
        BY <1>6
    <2>2. CASE r.mark # NoMark
        <3>1. PICK p \in pending.marked : p[1] = Key(r) /\ p[2] = d.lot
            BY <2>1, <2>2 DEF Candidates
        <3>2. p = <<Key(r), d.lot>>
            BY <1>3, <3>1 DEF SheetTypeOK
        <3>3. d.lot \in LotId
            BY <1>2, <3>1 DEF SheetInv, MarkedInv, Remembers, Booking
        <3>4. QED
            BY <2>2, <3>1, <3>2, <3>3
    <2>3. CASE r.mark = NoMark
        <3>1. d.lot \in MonthLots(r)
            BY <2>1, <2>3 DEF Candidates
        <3>2. QED
            BY <2>3, <3>1 DEF MonthLots
    <2>4. QED
        BY <2>2, <2>3
<1>11. DecisionInv'
    <2>1. LotId' = LotId
        BY <1>2 DEF LotId
    <2>2. d.lot \in MonthLots(r) => d.lot \in MonthLots(r)'
        BY <1>2, <2>1 DEF MonthLots
    <2>3. QED
        BY <1>1, <1>2, <1>6, <1>10, <2>1, <2>2 DEF DecisionInv
<1>12. ASSUME ~touched PROVE Ahead(line)' /\ Seen(d) = predicted[line + 1]
    <2>1. Ahead(line) /\ Len(predicted) = Len(sheet)
        BY <1>2, <1>5, <1>12 DEF SheetInv, PredictionInv, Booking
    <2>2. Ahead(line)'
        BY <1>2, <2>1, AheadSame
    <2>3. /\ predicted[line + 1].exists <=> card[r.code] # "none"
          /\ predicted[line + 1].action = "topup" <=> r \in Filled
        <3>1. line + 1 \in (line + 1)..Len(predicted) /\ (line + 1)..((line + 1) - 1) = {}
            BY <1>3, <2>1
        <3>2. QED
            BY <2>1, <3>1 DEF Ahead
    <2>4. predicted[line + 1] \in [action: {"new", "topup"}, exists: BOOLEAN]
        <3>1. predicted \in Seq([action: {"new", "topup"}, exists: BOOLEAN])
            BY <1>3 DEF SheetTypeOK
        <3>2. line + 1 \in 1..Len(predicted)
            BY <1>3, <2>1
        <3>3. QED
            BY <3>1, <3>2, ItemTyped
    <2>5. Seen(d) \in [action: {"new", "topup"}, exists: BOOLEAN]
          /\ Seen(d).action = d.action /\ Seen(d).exists = d.exists
        BY SeenTyped
    <2>6. Seen(d).action = predicted[line + 1].action
        BY <1>6, <2>3, <2>4, <2>5
    <2>7. Seen(d).exists = predicted[line + 1].exists
        BY <1>6, <2>3, <2>4, <2>5
    <2>8. Seen(d) = predicted[line + 1]
        BY <2>4, <2>5, <2>6, <2>7
    <2>9. QED
        BY <2>2, <2>8
<1>13. PredictionInv'
    <2>1. Seen(decision)' = Seen(d)
        BY <1>1 DEF Seen
    <2>2. QED
        BY <1>2, <1>5, <1>12, <2>1 DEF SheetInv, PredictionInv, Booking
<1>14. QED
    BY <1>7, <1>8, <1>9, <1>11, <1>13 DEF SheetInv

(* Somebody else writes: the run goes on with what it has decided, and     *)
(* nothing that was predicted is promised any more.                        *)
LEMMA PagesWrite ==
    ASSUME SheetInv, SheetTypeOK', touched', UNCHANGED <<sheet, script>>,
           \A c \in SheetCode : card[c] # "none" => card'[c] # "none",
           Len(lots) <= Len(lots)', \A i \in LotId : lots'[i] = lots[i],
           \A i \in LotId' \ LotId : lots'[i].rows = {} /\ card'[lots'[i].code] # "none"
    PROVE  SheetInv'
<1>1. /\ sheet' = sheet /\ mode' = mode /\ attempt' = attempt /\ line' = line
      /\ decision' = decision /\ pending' = pending /\ predicted' = predicted /\ done' = done
    BY DEF script
<1>2. SheetTypeOK /\ LotId \subseteq LotId'
    <2>1. SheetTypeOK
        BY DEF SheetInv, Predicted
    <2>2. Len(lots) \in Nat /\ Len(lots)' \in Nat
        BY <2>1 DEF SheetTypeOK
    <2>3. QED
        BY <2>1, <2>2 DEF LotId
<1>3. Predicted'
    BY DEF Predicted
<1>4. MarkedApart'
    BY <1>1, <1>2 DEF SheetInv, MarkedApart
<1>5. LotsInv'
    <2>1. \A i \in LotId : lots[i].code \in SheetCode
        BY <1>2, LotTyped
    <2>2. QED
        BY <1>1, <1>2, <2>1 DEF SheetInv, LotsInv
<1>6. MarkedInv'
    <2>1. \A p : p \in pending.marked /\ Remembers(p) => Remembers(p)'
        BY <1>1, <1>2 DEF Remembers
    <2>2. ASSUME Booking
          PROVE  \A i \in LotId' : \A g \in lots'[i].rows :
                    g[1] = attempt /\ sheet[g[2]].mark # NoMark => i \in MarkedLots
        BY <1>2, <2>2 DEF SheetInv, MarkedInv
    <2>3. Booking' = Booking /\ MarkedLots' = MarkedLots
        BY <1>1 DEF Booking, MarkedLots
    <2>4. QED
        BY <1>1, <2>1, <2>2, <2>3 DEF SheetInv, MarkedInv
<1>7. DecisionInv'
    <2> SUFFICES ASSUME mode = "register" PROVE DecisionInv'
        BY <1>1 DEF DecisionInv
    <2>1. line + 1 \in 1..Len(sheet)
        BY <1>2, SheetBounds DEF SheetInv, DecisionInv, SheetTypeOK
    <2>2. sheet[line + 1].code \in SheetCode
        BY <1>2, <2>1, RowTyped
    <2>3. \A i \in MonthLots(sheet[line + 1]) : i \in MonthLots(sheet[line + 1])'
        BY <1>1, <1>2 DEF MonthLots
    <2>4. QED
        BY <1>1, <1>2, <2>2, <2>3 DEF SheetInv, DecisionInv, MonthLots
<1>8. PredictionInv'
    BY <1>1 DEF SheetInv, PredictionInv, Booking
<1>9. QED
    BY <1>3, <1>4, <1>5, <1>6, <1>7, <1>8 DEF SheetInv

LEMMA WebCardInv ==
    ASSUME SheetInv, NEW c \in SheetCode, WebCard(c)
    PROVE  SheetInv'
<1>1. /\ card' = [card EXCEPT ![c] = "own"] /\ sheet' = sheet /\ lots' = lots
      /\ mode' = mode /\ attempt' = attempt /\ line' = line /\ decision' = decision
      /\ pending' = pending /\ predicted' = predicted /\ done' = done
    BY DEF WebCard, script
<1>2. SheetTypeOK /\ touched' /\ touched' \in BOOLEAN
    BY DEF SheetInv, Predicted, WebCard
<1>3. card' \in [SheetCode -> Cards] /\ \A x \in SheetCode : card[x] # "none" => card'[x] # "none"
    BY <1>1, <1>2 DEF SheetTypeOK, Cards
<1>4. SheetTypeOK'
    BY <1>1, <1>2, <1>3 DEF SheetTypeOK
<1>5. LotId' = LotId /\ Len(lots) \in Nat /\ Len(lots)' = Len(lots)
    BY <1>1, <1>2 DEF LotId, SheetTypeOK
<1>6. UNCHANGED <<sheet, script>>
    BY <1>1 DEF script
<1>7. QED
    BY <1>1, <1>2, <1>3, <1>4, <1>5, <1>6, PagesWrite

LEMMA WebReceiptInv ==
    ASSUME SheetInv, NEW c \in SheetCode, NEW m \in Month, WebReceipt(c, m)
    PROVE  SheetInv'
<1> DEFINE new == [code |-> c, month |-> m, rows |-> {}]
<1>1. /\ card[c] # "none" /\ Len(lots) < MaxLots /\ lots' = Append(lots, new)
      /\ card' = card /\ sheet' = sheet
      /\ mode' = mode /\ attempt' = attempt /\ line' = line /\ decision' = decision
      /\ pending' = pending /\ predicted' = predicted /\ done' = done
    BY DEF WebReceipt, script
<1>2. SheetTypeOK /\ touched' /\ touched' \in BOOLEAN
    BY DEF SheetInv, Predicted, WebReceipt
<1>3. new \in Lot /\ lots \in Seq(Lot) /\ Len(lots) \in Nat
    BY <1>2 DEF Lot, SheetTypeOK
<1>4. /\ lots' \in Seq(Lot) /\ Len(lots') = Len(lots) + 1 /\ lots'[Len(lots) + 1] = new
      /\ \A i \in LotId : lots'[i] = lots[i]
    BY <1>1, <1>3, Appended DEF LotId
<1>5. SheetTypeOK'
    BY <1>1, <1>2, <1>3, <1>4, SheetBounds DEF SheetTypeOK
<1>6. \A i \in LotId' \ LotId : lots'[i] = new
    BY <1>3, <1>4 DEF LotId
<1>7. UNCHANGED <<sheet, script>>
    BY <1>1 DEF script
<1>8. ASSUME NEW i \in LotId' \ LotId
      PROVE  lots'[i].rows = {} /\ card'[lots'[i].code] # "none"
    <2>1. lots'[i] = new
        BY <1>6
    <2>2. new.rows = {} /\ new.code = c
        OBVIOUS
    <2>3. QED
        BY <1>1, <2>1, <2>2
<1>9. Len(lots) <= Len(lots)' /\ \A x \in SheetCode : card[x] # "none" => card'[x] # "none"
    BY <1>1, <1>3, <1>4
<1>10. QED
    BY <1>9, <1>2, <1>3, <1>4, <1>5, <1>7, <1>8, PagesWrite

-----------------------------------------------------------------------------
(* A row is booked *)

(* The batch of the row and what becomes of the others.                    *)
Target == IF decision.action = "new" THEN Len(lots) + 1 ELSE decision.lot

LEMMA Booked ==
    ASSUME SheetInv, Register
    PROVE  LET r == sheet[line + 1]
               goods == <<attempt, line + 1>>
           IN  /\ SheetTypeOK /\ attempt \in 1..MaxRuns /\ line \in Nat
               /\ line + 1 \in 1..Len(sheet) /\ r \in SheetRow /\ r.code \in SheetCode
               /\ Key(r) \in Keys /\ goods \in (1..MaxRuns) \X (1..MaxRows)
               /\ Len(lots) \in Nat /\ Target \in 1..MaxLots /\ lots' \in Seq(Lot)
               /\ LotId' = LotId \cup {Target}
               /\ decision.action = "new" <=> Target \notin LotId
               /\ \A i \in LotId : lots'[i].code = lots[i].code /\ lots'[i].month = lots[i].month
               /\ \A i \in LotId \ {Target} : lots'[i] = lots[i]
               /\ Target \in LotId => lots'[Target].rows = lots[Target].rows \cup {goods}
               /\ Target \notin LotId =>
                     lots'[Target] = [code |-> r.code, month |-> r.month, rows |-> {goods}]
<1> DEFINE r == sheet[line + 1]
           goods == <<attempt, line + 1>>
           new == [code |-> r.code, month |-> r.month, rows |-> {goods}]
<1>1. /\ mode = "register" /\ Target <= MaxLots
      /\ lots' = IF decision.action = "new" THEN Append(lots, new)
                 ELSE [lots EXCEPT ![Target].rows = @ \cup {goods}]
    BY DEF Register, Target
<1>2. SheetTypeOK /\ line \in Nat /\ line + 1 \in 1..Len(sheet) /\ line + 1 \in 1..MaxRows
    BY <1>1, SheetBounds DEF SheetInv, Predicted, DecisionInv, SheetTypeOK
<1>3. r \in SheetRow /\ r.code \in SheetCode /\ r.month \in Month /\ Key(r) \in Keys
    BY <1>2, RowTyped
<1>4. attempt \in 1..MaxRuns /\ goods \in (1..MaxRuns) \X (1..MaxRows)
    <2>1. attempt > 0 /\ attempt \in 0..MaxRuns
        BY <1>1, <1>2 DEF SheetInv, MarkedInv, Booking, SheetTypeOK
    <2>2. attempt \in 1..MaxRuns
        BY <2>1, SheetBounds
    <2>3. QED
        BY <1>2, <2>2
<1>5. lots \in Seq(Lot) /\ Len(lots) \in Nat /\ new \in Lot
      /\ decision.action \in {"new", "topup"}
    BY <1>2, <1>3, <1>4 DEF SheetTypeOK, Lot, Decision
<1>6. CASE decision.action = "new"
    <2>1. Target = Len(lots) + 1 /\ Target \notin LotId /\ Target \in 1..MaxLots
        BY <1>1, <1>5, <1>6, SheetBounds DEF Target, LotId
    <2>2. /\ lots' \in Seq(Lot) /\ Len(lots') = Len(lots) + 1 /\ lots'[Target] = new
          /\ \A i \in LotId : lots'[i] = lots[i]
        BY <1>1, <1>5, <1>6, <2>1, Appended DEF LotId
    <2>3. LotId' = LotId \cup {Target}
        BY <1>5, <2>1, <2>2 DEF LotId
    <2>4. QED
        BY <1>2, <1>3, <1>4, <1>5, <1>6, <2>1, <2>2, <2>3
<1>7. CASE decision.action = "topup"
    <2>1. Target = decision.lot /\ Target \in LotId
        BY <1>1, <1>7 DEF Target, SheetInv, DecisionInv
    <2>2. lots[Target] \in Lot /\ lots[Target].rows \subseteq (1..MaxRuns) \X (1..MaxRows)
        BY <1>2, <2>1, LotTyped
    <2> DEFINE filled == [lots[Target] EXCEPT !.rows = @ \cup {goods}]
    <2>3. /\ filled \in Lot /\ filled.rows = lots[Target].rows \cup {goods}
          /\ filled.code = lots[Target].code /\ filled.month = lots[Target].month
        BY <1>4, <2>2 DEF Lot
    <2>4. lots' = [lots EXCEPT ![Target] = filled]
        BY <1>1, <1>7
    <2> HIDE DEF filled
    <2>5. /\ lots' \in Seq(Lot) /\ Len(lots') = Len(lots) /\ lots'[Target] = filled
          /\ \A i \in LotId \ {Target} : lots'[i] = lots[i]
        BY <1>5, <2>1, <2>3, <2>4 DEF LotId
    <2>6. LotId' = LotId \cup {Target}
        BY <2>1, <2>5 DEF LotId
    <2>7. Target \in 1..MaxLots
        BY <1>1, <1>5, <2>1, SheetBounds DEF LotId
    <2>8. \A i \in LotId : lots'[i].code = lots[i].code /\ lots'[i].month = lots[i].month
        BY <2>3, <2>5
    <2>9. QED
        BY <1>2, <1>3, <1>4, <1>5, <1>7, <2>1, <2>3, <2>5, <2>6, <2>7, <2>8
<1>8. QED
    BY <1>5, <1>6, <1>7

(* What is remembered, and the card, after a row was booked.               *)
LEMMA BookedSo ==
    ASSUME SheetInv, Register
    PROVE  LET r == sheet[line + 1]
           IN  /\ mode = "register" /\ mode' = "resolve" /\ sheet' = sheet /\ touched' = touched
               /\ attempt' = attempt /\ predicted' = predicted /\ line' = line + 1
               /\ done' = Append(done, Seen(decision))
               /\ decision' = decision
               /\ pending'.codes = {} /\ pending'.keys = {}
               /\ pending'.marked = IF decision.action = "new" /\ r.mark # NoMark
                                    THEN pending.marked \cup {<<Key(r), Target>>}
                                    ELSE pending.marked
               /\ pending' \in [codes: SUBSET SheetCode, keys: SUBSET Keys,
                                marked: SUBSET (Keys \X (1..MaxLots))]
               /\ card' \in [SheetCode -> Cards] /\ card'[r.code] # "none"
               /\ \A c \in SheetCode : c # r.code => card'[c] = card[c]
<1> DEFINE r == sheet[line + 1]
<1>1. /\ mode = "register" /\ mode' = "resolve" /\ sheet' = sheet /\ touched' = touched
      /\ attempt' = attempt /\ predicted' = predicted /\ line' = line + 1
      /\ done' = Append(done, Seen(decision)) /\ decision' = decision
      /\ card' = [card EXCEPT ![r.code] = NewCard(r.code)]
      /\ pending' = IF decision.action = "new" /\ r.mark # NoMark
                    THEN [pending EXCEPT !.marked = @ \cup {<<Key(r), Target>>}]
                    ELSE pending
    BY DEF Register, Target
<1>2. /\ SheetTypeOK /\ r.code \in SheetCode /\ Key(r) \in Keys /\ Target \in 1..MaxLots
    BY Booked
<1>3. pending.codes = {} /\ pending.keys = {}
    BY <1>1 DEF SheetInv, MarkedInv, Booking
<1>4. pending \in [codes: SUBSET SheetCode, keys: SUBSET Keys,
                   marked: SUBSET (Keys \X (1..MaxLots))]
    BY <1>2 DEF SheetTypeOK
<1>5. /\ pending'.codes = {} /\ pending'.keys = {}
      /\ pending'.marked = IF decision.action = "new" /\ r.mark # NoMark
                           THEN pending.marked \cup {<<Key(r), Target>>} ELSE pending.marked
      /\ pending' \in [codes: SUBSET SheetCode, keys: SUBSET Keys,
                       marked: SUBSET (Keys \X (1..MaxLots))]
    BY <1>1, <1>2, <1>3, <1>4
<1>6. NewCard(r.code) \in Cards /\ NewCard(r.code) # "none"
    <2>1. decision.prices = ~decision.exists /\ (decision.exists => card[r.code] # "none")
        BY <1>1 DEF SheetInv, DecisionInv
    <2>2. decision.prices \in BOOLEAN /\ decision.exists \in BOOLEAN /\ card[r.code] \in Cards
        BY <1>2 DEF SheetTypeOK, Decision
    <2>3. QED
        BY <2>1, <2>2 DEF NewCard, Cards
<1>7. /\ card' \in [SheetCode -> Cards] /\ card'[r.code] # "none"
      /\ \A c \in SheetCode : c # r.code => card'[c] = card[c]
    BY <1>1, <1>2, <1>6 DEF SheetTypeOK
<1>8. QED
    BY <1>1, <1>5, <1>7

LEMMA RegisterLots ==
    ASSUME SheetInv, Register
    PROVE  LotsInv'
<1> DEFINE r == sheet[line + 1]
           goods == <<attempt, line + 1>>
<1>1. /\ card'[r.code] # "none" /\ attempt' = attempt
      /\ \A c \in SheetCode : c # r.code => card'[c] = card[c]
    BY BookedSo
<1>2. /\ SheetTypeOK /\ attempt \in 1..MaxRuns /\ r.code \in SheetCode /\ LotId' = LotId \cup {Target}
      /\ \A i \in LotId : lots'[i].code = lots[i].code
      /\ \A i \in LotId \ {Target} : lots'[i] = lots[i]
      /\ Target \in LotId => lots'[Target].rows = lots[Target].rows \cup {goods}
      /\ Target \notin LotId => lots'[Target].code = r.code /\ lots'[Target].rows = {goods}
    BY Booked
<1>3. goods[1] <= attempt
    BY <1>2
<1>4. ASSUME NEW i \in LotId
      PROVE  /\ card'[lots'[i].code] # "none"
             /\ \A g \in lots[i].rows : g[1] <= attempt
    <2>1. lots[i].code \in SheetCode
        BY <1>2, LotTyped
    <2>2. card[lots[i].code] # "none" /\ \A g \in lots[i].rows : g[1] <= attempt
        BY DEF SheetInv, LotsInv
    <2>3. QED
        BY <1>1, <1>2, <2>1, <2>2
<1>5. ASSUME NEW i \in LotId', NEW g \in lots'[i].rows PROVE g[1] <= attempt
    <2>1. CASE i # Target
        BY <1>2, <1>4, <2>1
    <2>2. CASE i = Target /\ Target \in LotId
        BY <1>2, <1>3, <1>4, <2>2
    <2>3. CASE i = Target /\ Target \notin LotId
        BY <1>2, <1>3, <2>3
    <2>4. QED
        BY <2>1, <2>2, <2>3
<1>6. QED
    BY <1>1, <1>2, <1>4, <1>5 DEF LotsInv

LEMMA RegisterMarked ==
    ASSUME SheetInv, Register
    PROVE  MarkedInv' /\ MarkedApart'
<1> DEFINE r == sheet[line + 1]
           goods == <<attempt, line + 1>>
<1>1. /\ mode = "register" /\ mode' = "resolve" /\ sheet' = sheet /\ attempt' = attempt
      /\ pending'.codes = {} /\ pending'.keys = {}
      /\ pending'.marked = IF decision.action = "new" /\ r.mark # NoMark
                           THEN pending.marked \cup {<<Key(r), Target>>} ELSE pending.marked
    BY BookedSo
<1>2. /\ SheetTypeOK /\ attempt \in 1..MaxRuns /\ LotId' = LotId \cup {Target}
      /\ decision.action = "new" <=> Target \notin LotId
      /\ \A i \in LotId \ {Target} : lots'[i] = lots[i]
      /\ Target \in LotId => lots'[Target].rows = lots[Target].rows \cup {goods}
      /\ Target \notin LotId => lots'[Target].rows = {goods}
    BY Booked
<1>3. /\ \A p \in pending.marked : Remembers(p)
      /\ \A i \in LotId : \A g \in lots[i].rows :
            g[1] = attempt /\ sheet[g[2]].mark # NoMark => i \in MarkedLots
    BY <1>1 DEF SheetInv, MarkedInv, Booking
<1>4. ASSUME Target \in LotId
      PROVE  IF r.mark # NoMark THEN <<Key(r), Target>> \in pending.marked
             ELSE Target \notin MarkedLots
    <2>1. decision.action = "topup" /\ Target = decision.lot
        BY <1>2, <1>4 DEF Target, SheetTypeOK, Decision
    <2>2. QED
        BY <1>1, <2>1 DEF SheetInv, DecisionInv, MonthLots, MarkedLots
<1>5. goods[1] = attempt /\ goods[2] = line + 1 /\ sheet[goods[2]] = r /\ Key(r)[3] = r.mark
    BY DEF Key
<1>6. MarkedLots \subseteq MarkedLots'
    BY <1>1 DEF MarkedLots
<1>7. ASSUME NEW p \in pending.marked PROVE Remembers(p)'
    <2>1. Remembers(p)
        BY <1>3
    <2>2. CASE p[2] # Target
        BY <1>1, <1>2, <2>1, <2>2 DEF Remembers
    <2>3. CASE p[2] = Target
        <3>1. Target \in LotId /\ Target \in MarkedLots
            BY <2>1, <2>3 DEF Remembers, MarkedLots
        <3>2. Remembers(<<Key(r), Target>>)
            BY <1>3, <1>4, <3>1
        <3>3. Key(r) = p[1]
            BY <2>1, <2>3, <3>2 DEF Remembers
        <3>4. ASSUME NEW g \in lots'[Target].rows, g[1] = attempt PROVE Key(sheet[g[2]]) = p[1]
            <4>1. CASE g = goods
                BY <1>5, <3>3, <4>1
            <4>2. CASE g \in lots[Target].rows
                BY <2>1, <2>3, <3>4, <4>2 DEF Remembers
            <4>3. QED
                BY <1>2, <3>1, <4>1, <4>2
        <3>5. goods \in lots'[Target].rows
            BY <1>2, <3>1
        <3>6. QED
            BY <1>1, <1>2, <1>5, <2>1, <2>3, <3>1, <3>4, <3>5 DEF Remembers
    <2>4. QED
        BY <2>2, <2>3
<1>8. ASSUME Target \notin LotId, r.mark # NoMark, NEW p, p = <<Key(r), Target>>
      PROVE  Remembers(p)'
    <2>1. lots'[Target].rows = {goods} /\ Target \in LotId'
        BY <1>2, <1>8
    <2>2. p[1] = Key(r) /\ p[2] = Target /\ p[1][3] # NoMark
        BY <1>5, <1>8
    <2>3. QED
        BY <1>1, <1>5, <2>1, <2>2 DEF Remembers
<1>9. ASSUME NEW p \in pending'.marked PROVE Remembers(p)'
    BY <1>1, <1>2, <1>7, <1>8, <1>9
<1>10. ASSUME NEW i \in LotId', NEW g \in lots'[i].rows, g[1] = attempt, sheet[g[2]].mark # NoMark
       PROVE  i \in MarkedLots'
    <2>1. CASE i \in LotId /\ g \in lots[i].rows
        BY <1>3, <1>6, <1>10, <2>1
    <2>2. CASE i = Target /\ g = goods
        <3>1. r.mark # NoMark
            BY <1>5, <1>10, <2>2
        <3>2. <<Key(r), Target>> \in pending'.marked
            BY <1>1, <1>2, <1>4, <3>1
        <3>3. QED
            BY <2>2, <3>2 DEF MarkedLots
    <2>3. QED
        BY <1>2, <2>1, <2>2
<1>11. MarkedInv'
    BY <1>1, <1>2, <1>9, <1>10 DEF MarkedInv, Booking
<1>12. ASSUME NEW i \in LotId', NEW g \in lots'[i].rows, NEW h \in lots'[i].rows,
              sheet[g[2]].mark # NoMark, h[1] = g[1]
       PROVE  Key(sheet[h[2]]) = Key(sheet[g[2]])
    <2>1. CASE g[1] = attempt
        <3>1. PICK p \in pending'.marked : p[2] = i
            BY <1>10, <1>12, <2>1 DEF MarkedLots
        <3>2. \A x \in lots'[i].rows : x[1] = attempt => Key(sheet[x[2]]) = p[1]
            BY <1>1, <1>9, <3>1 DEF Remembers
        <3>3. QED
            BY <1>12, <2>1, <3>2
    <2>2. CASE g[1] # attempt
        <3>1. g # goods /\ h # goods
            BY <1>5, <1>12, <2>2
        <3>2. i \in LotId /\ g \in lots[i].rows /\ h \in lots[i].rows
            BY <1>2, <3>1
        <3>3. QED
            BY <1>12, <3>2 DEF SheetInv, MarkedApart
    <2>3. QED
        BY <2>1, <2>2
<1>13. MarkedApart'
    BY <1>1, <1>12 DEF MarkedApart
<1>14. QED
    BY <1>11, <1>13

(* A row that was booked is found by the rows like it, and by no other     *)
(* that found nothing before.                                              *)
LEMMA FilledGrows ==
    ASSUME SheetInv, Register, NEW q \in SheetRow
    PROVE  q \in Filled' <=> q \in Filled \/ Key(q) = Key(sheet[line + 1])
<1> DEFINE r == sheet[line + 1]
<1>1. /\ mode = "register" /\ sheet' = sheet
      /\ pending'.marked = IF decision.action = "new" /\ r.mark # NoMark
                           THEN pending.marked \cup {<<Key(r), Target>>} ELSE pending.marked
    BY BookedSo
<1>2. /\ SheetTypeOK /\ LotId' = LotId \cup {Target}
      /\ decision.action = "new" <=> Target \notin LotId
      /\ \A i \in LotId : lots'[i].code = lots[i].code /\ lots'[i].month = lots[i].month
      /\ Target \notin LotId => lots'[Target].code = r.code /\ lots'[Target].month = r.month
    BY Booked
<1>3. MarkedLots \subseteq LotId
    BY <1>1 DEF SheetInv, MarkedInv, Booking, Remembers, MarkedLots
<1>4. Target \in LotId =>
         IF r.mark # NoMark THEN <<Key(r), Target>> \in pending.marked
         ELSE Target \in MonthLots(r)
    <2> SUFFICES ASSUME Target \in LotId
                 PROVE  IF r.mark # NoMark THEN <<Key(r), Target>> \in pending.marked
                        ELSE Target \in MonthLots(r)
        OBVIOUS
    <2>1. decision.action = "topup" /\ Target = decision.lot
        BY <1>2 DEF Target, SheetTypeOK, Decision
    <2>2. QED
        BY <1>1, <2>1 DEF SheetInv, DecisionInv
<1>5. LotsInv /\ LotsInv'
    BY RegisterLots DEF SheetInv
<1>6. Key(q) = Key(r) <=> q.code = r.code /\ q.month = r.month /\ q.mark = r.mark
    BY SameKey
<1>7. CASE q.mark # NoMark
    <2>1. q \in Filled <=> \E p \in pending.marked : p[1] = Key(q)
        BY <1>7 DEF Filled, Candidates
    <2>2. q \in Filled' <=> \E p \in pending'.marked : p[1] = Key(q)
        BY <1>7 DEF Filled, Candidates
    <2>3. CASE r.mark = NoMark
        BY <1>1, <1>6, <1>7, <2>1, <2>2, <2>3
    <2>4. CASE r.mark # NoMark /\ Target \in LotId
        <3>1. pending'.marked = pending.marked /\ <<Key(r), Target>> \in pending.marked
            BY <1>1, <1>2, <1>4, <2>4
        <3>2. QED
            BY <2>1, <2>2, <3>1
    <2>5. CASE r.mark # NoMark /\ Target \notin LotId
        <3>1. pending'.marked = pending.marked \cup {<<Key(r), Target>>}
            BY <1>1, <1>2, <2>5
        <3>2. <<Key(r), Target>>[1] = Key(r)
            OBVIOUS
        <3>3. (\E p \in pending'.marked : p[1] = Key(q))
                 <=> (\E p \in pending.marked : p[1] = Key(q)) \/ Key(r) = Key(q)
            BY <3>1, <3>2
        <3>4. QED
            BY <2>1, <2>2, <3>3
    <2>6. QED
        BY <2>3, <2>4, <2>5
<1>8. CASE q.mark = NoMark
    <2> DEFINE Fits(i) == lots[i].code = q.code /\ lots[i].month = q.month
               FitsNow(i) == lots'[i].code = q.code /\ lots'[i].month = q.month
    <2>1. q \in Filled <=> \E i \in LotId \ MarkedLots : Fits(i)
        BY <1>5, <1>8 DEF Filled, Candidates, MonthLots, LotsInv, MarkedLots
    <2>2. q \in Filled' <=> \E i \in LotId' \ MarkedLots' : FitsNow(i)
        BY <1>5, <1>8 DEF Filled, Candidates, MonthLots, LotsInv, MarkedLots
    <2>3. \A i \in LotId : Fits(i) <=> FitsNow(i)
        BY <1>2
    <2>4. MarkedLots' = IF decision.action = "new" /\ r.mark # NoMark
                        THEN MarkedLots \cup {Target} ELSE MarkedLots
        <3>1. <<Key(r), Target>>[2] = Target
            OBVIOUS
        <3>2. QED
            BY <1>1, <3>1, Zenon DEF MarkedLots
    <2>5. CASE Target \in LotId
        <3>1. LotId' = LotId /\ MarkedLots' = MarkedLots
            BY <1>2, <2>4, <2>5
        <3>2. Key(q) = Key(r) => q \in Filled
            <4> SUFFICES ASSUME Key(q) = Key(r) PROVE q \in Filled
                OBVIOUS
            <4>1. Target \in MonthLots(r)
                BY <1>4, <1>6, <1>8, <2>5
            <4>2. Target \in LotId \ MarkedLots /\ Fits(Target)
                BY <1>6, <4>1 DEF MonthLots, MarkedLots
            <4>3. QED
                BY <2>1, <4>2
        <3>3. QED
            BY <2>1, <2>2, <2>3, <3>1, <3>2
    <2>6. CASE Target \notin LotId /\ r.mark # NoMark
        <3>1. LotId' \ MarkedLots' = LotId \ MarkedLots
            BY <1>2, <2>4, <2>6
        <3>2. Key(q) # Key(r)
            BY <1>6, <1>8, <2>6
        <3>3. QED
            BY <2>1, <2>2, <2>3, <3>1, <3>2
    <2>7. CASE Target \notin LotId /\ r.mark = NoMark
        <3>1. LotId' \ MarkedLots' = (LotId \ MarkedLots) \cup {Target}
            BY <1>2, <1>3, <2>4, <2>7
        <3>2. FitsNow(Target) <=> Key(q) = Key(r)
            BY <1>2, <1>6, <1>8, <2>7
        <3>3. QED
            BY <2>1, <2>2, <2>3, <3>1, <3>2
    <2>8. QED
        BY <2>5, <2>6, <2>7
<1>9. QED
    BY <1>7, <1>8

LEMMA RegisterInv ==
    ASSUME SheetInv, Register
    PROVE  SheetInv'
<1> DEFINE r == sheet[line + 1]
<1>1. /\ mode = "register" /\ mode' = "resolve" /\ sheet' = sheet /\ touched' = touched
      /\ attempt' = attempt /\ predicted' = predicted /\ line' = line + 1
      /\ done' = Append(done, Seen(decision)) /\ decision' = decision
      /\ pending' \in [codes: SUBSET SheetCode, keys: SUBSET Keys,
                       marked: SUBSET (Keys \X (1..MaxLots))]
      /\ card' \in [SheetCode -> Cards] /\ card'[r.code] # "none"
      /\ \A c \in SheetCode : c # r.code => card'[c] = card[c]
    BY BookedSo
<1>2. /\ SheetTypeOK /\ line \in Nat /\ line + 1 \in 1..Len(sheet) /\ r \in SheetRow
      /\ attempt \in 1..MaxRuns /\ lots' \in Seq(Lot) /\ LotId' = LotId \cup {Target}
      /\ Target \in 1..MaxLots
    BY Booked
<1>3. /\ Len(predicted) = Len(sheet) /\ Len(done) = line /\ attempt > 0
      /\ line <= Len(sheet) /\ Len(sheet) \in Nat /\ Len(sheet) <= MaxRows
    BY <1>1, <1>2 DEF SheetInv, PredictionInv, Booking, MarkedInv, SheetTypeOK
<1>4. /\ done' \in Seq([action: {"new", "topup"}, exists: BOOLEAN]) /\ Len(done') = line + 1
      /\ done'[line + 1] = Seen(decision) /\ \A i \in 1..line : done'[i] = done[i]
    BY <1>1, <1>2, <1>3, Appended, SeenTyped DEF SheetTypeOK
<1>5. SheetTypeOK'
    <2>1. Len(lots') <= MaxLots
        <3>1. Len(lots) \in Nat /\ Len(lots) <= MaxLots /\ Len(lots') \in Nat
            BY <1>2 DEF SheetTypeOK
        <3>2. \A i \in LotId' : i <= MaxLots
            BY <1>2, <3>1, SheetBounds DEF LotId
        <3>3. CASE Len(lots') = 0
            BY <3>3, SheetBounds
        <3>4. CASE Len(lots') > 0
            BY <3>1, <3>2, <3>4 DEF LotId
        <3>5. QED
            BY <3>1, <3>3, <3>4
    <2>2. line' \in 0..MaxRows /\ mode' \in {"idle", "dry", "resolve", "register"}
        BY <1>1, <1>2, <1>3, SheetBounds
    <2>3. QED
        BY <1>1, <1>2, <1>4, <2>1, <2>2 DEF SheetTypeOK
<1>6. Predicted'
    <2>1. ASSUME ~touched, NEW k \in 1..(line + 1) PROVE done'[k] = predicted[k]
        <3>1. CASE k \in 1..line
            <4>1. k \in DOMAIN done
                BY <1>2, <1>3, <3>1 DEF SheetTypeOK
            <4>2. QED
                BY <1>4, <2>1, <3>1, <4>1 DEF SheetInv, Predicted
        <3>2. CASE k = line + 1
            BY <1>1, <1>4, <2>1, <3>2 DEF SheetInv, PredictionInv
        <3>3. QED
            BY <1>2, <3>1, <3>2
    <2>2. DOMAIN done' = 1..(line + 1)
        BY <1>4
    <2>3. QED
        BY <1>1, <1>5, <2>1, <2>2 DEF Predicted
<1>7. LotsInv' /\ MarkedInv' /\ MarkedApart'
    BY RegisterLots, RegisterMarked
<1>8. DecisionInv'
    BY <1>1 DEF DecisionInv
<1>9. ASSUME ~touched PROVE Ahead(line)'
    <2>1. Ahead(line)
        BY <1>1, <1>3, <1>9 DEF SheetInv, PredictionInv, Booking
    <2> SUFFICES ASSUME NEW k \in (line + 2)..Len(predicted)
                 PROVE  /\ predicted[k].exists
                             <=> \/ card'[sheet[k].code] # "none"
                                 \/ \E j \in (line + 2)..(k - 1) : sheet[j].code = sheet[k].code
                        /\ predicted[k].action = "topup"
                             <=> \/ sheet[k] \in Filled'
                                 \/ \E j \in (line + 2)..(k - 1) : Key(sheet[j]) = Key(sheet[k])
        <3>1. (line + 1) + 1 = line + 2
            BY <1>2
        <3>2. QED
            BY <1>1, <3>1 DEF Ahead
    <2>2. /\ k \in (line + 1)..Len(predicted) /\ k \in 1..Len(sheet)
          /\ (line + 1)..(k - 1) = {line + 1} \cup ((line + 2)..(k - 1))
        BY <1>2, <1>3
    <2>3. sheet[k] \in SheetRow /\ sheet[k].code \in SheetCode
        BY <1>2, <2>2, RowTyped
    <2>4. /\ predicted[k].exists
              <=> \/ card[sheet[k].code] # "none"
                  \/ \E j \in (line + 1)..(k - 1) : sheet[j].code = sheet[k].code
          /\ predicted[k].action = "topup"
              <=> \/ sheet[k] \in Filled
                  \/ \E j \in (line + 1)..(k - 1) : Key(sheet[j]) = Key(sheet[k])
        BY <2>1, <2>2 DEF Ahead
    <2>5. sheet[k] \in Filled' <=> sheet[k] \in Filled \/ Key(sheet[k]) = Key(r)
        BY <2>3, FilledGrows
    <2>6. card'[sheet[k].code] # "none"
             <=> card[sheet[k].code] # "none" \/ sheet[k].code = r.code
        BY <1>1, <2>3
    <2>7. QED
        BY <2>2, <2>4, <2>5, <2>6
<1>10. PredictionInv'
    BY <1>1, <1>2, <1>3, <1>4, <1>9 DEF SheetInv, PredictionInv, Booking
<1>11. QED
    BY <1>6, <1>7, <1>8, <1>10 DEF SheetInv

-----------------------------------------------------------------------------
(* The sheet: the theorems *)

LEMMA SheetNextInv ==
    ASSUME SheetInv, [SheetNext]_sheetVars
    PROVE  SheetInv'
<1>1. CASE DryRun
    BY <1>1, DryRunInv
<1>2. CASE DryRow
    BY <1>2, DryRowInv
<1>3. CASE DryEnds \/ Stop \/ SheetKilled
    BY <1>3, RunEnds
<1>4. CASE Apply
    BY <1>4, ApplyInv
<1>5. CASE ResolveRow
    BY <1>5, ResolveRowInv
<1>6. CASE Register
    BY <1>6, RegisterInv
<1>7. ASSUME NEW c \in SheetCode, WebCard(c) PROVE SheetInv'
    BY <1>7, WebCardInv
<1>8. ASSUME NEW c \in SheetCode, NEW m \in Month, WebReceipt(c, m) PROVE SheetInv'
    BY <1>8, WebReceiptInv
<1>9. CASE UNCHANGED sheetVars
    <2>1. /\ sheet' = sheet /\ card' = card /\ lots' = lots /\ touched' = touched /\ mode' = mode
          /\ attempt' = attempt /\ line' = line /\ decision' = decision /\ pending' = pending
          /\ predicted' = predicted /\ done' = done
        BY <1>9 DEF sheetVars, shop, script
    <2>2. SheetTypeOK' /\ Predicted'
        BY <2>1 DEF SheetInv, Predicted, SheetTypeOK
    <2>3. MarkedApart' /\ LotsInv'
        BY <2>1, ShopSame
    <2>4. LotId' = LotId /\ Filled' = Filled
        BY <2>1, FilledSame DEF LotId
    <2>5. MarkedInv'
        BY <2>1, <2>4 DEF SheetInv, MarkedInv, Booking, Remembers, MarkedLots
    <2>6. DecisionInv'
        BY <2>1, <2>4 DEF SheetInv, DecisionInv, MonthLots
    <2>7. (Ahead(0)' <=> Ahead(0)) /\ (Ahead(line)' <=> Ahead(line))
        BY <2>1, AheadSame
    <2>8. DryInv' <=> DryInv
        BY <2>1, <2>4 DEF DryInv
    <2>9. PredictionInv'
        BY <2>1, <2>7, <2>8 DEF SheetInv, PredictionInv, Booking, Seen
    <2>10. QED
        BY <2>2, <2>3, <2>5, <2>6, <2>9 DEF SheetInv
<1>10. QED
    BY <1>1, <1>2, <1>3, <1>4, <1>5, <1>6, <1>7, <1>8, <1>9 DEF SheetNext

LEMMA SheetAlways == SheetSpec => []SheetInv
<1>1. SheetInit => SheetInv
    BY SheetInitInv
<1>2. SheetInv /\ [SheetNext]_sheetVars => SheetInv'
    BY SheetNextInv
<1>3. QED
    BY <1>1, <1>2, PTL DEF SheetSpec

(* Predicted, for a sheet of any length and any shop: what the dry run     *)
(* says of a row is what --apply does with it, as long as nobody else has  *)
(* written since the dry run began (scripts/import_inventory_receipt.py,   *)
(* Pending).                                                               *)
THEOREM DryRunPredicts == SheetSpec => []Predicted
<1>1. SheetInv => Predicted
    BY DEF SheetInv
<1>2. QED
    BY <1>1, SheetAlways, PTL

(* RulesKept, whatever users write between two rows and however often the  *)
(* sheet is booked: goods with a condition marker share a batch of their   *)
(* run with nothing else, and the catalogue's prices never replace those   *)
(* of a card that resolve_row saw.                                         *)
THEOREM SheetRulesKept == SheetSpec => RulesKept
<1> DEFINE Others ==
       Register =>
          /\ \A i \in LotId :
                /\ lots'[i] # lots[i]
                /\ sheet[line + 1].mark # NoMark
                => \E g \in lots[i].rows : g[1] = attempt
          /\ \A c \in SheetCode :
                card[c] # "none" /\ card'[c] # card[c] => ~decision.exists
<1>1. SheetInv => Others
    <2> SUFFICES ASSUME SheetInv, Register PROVE Others
        OBVIOUS
    <2>1. /\ mode = "register" /\ SheetTypeOK
          /\ decision.action = "new" <=> Target \notin LotId
          /\ \A i \in LotId \ {Target} : lots'[i] = lots[i]
        BY Booked, BookedSo
    <2>2. ASSUME NEW i \in LotId, lots'[i] # lots[i], sheet[line + 1].mark # NoMark
          PROVE  \E g \in lots[i].rows : g[1] = attempt
        <3>1. i = Target /\ Target \in LotId
            BY <2>1, <2>2
        <3>2. decision.action = "topup" /\ Target = decision.lot
            BY <2>1, <3>1 DEF Target, SheetTypeOK, Decision
        <3>3. <<Key(sheet[line + 1]), Target>> \in pending.marked
            BY <2>1, <2>2, <3>2 DEF SheetInv, DecisionInv
        <3>4. Remembers(<<Key(sheet[line + 1]), Target>>)
            BY <2>1, <3>3 DEF SheetInv, MarkedInv, Booking
        <3>5. QED
            BY <3>1, <3>4 DEF Remembers
    <2>3. ASSUME NEW c \in SheetCode, card'[c] # card[c] PROVE ~decision.exists
        <3>1. decision.prices = ~decision.exists
            BY <2>1 DEF SheetInv, DecisionInv
        <3>2. card' = [card EXCEPT ![sheet[line + 1].code] = NewCard(sheet[line + 1].code)]
            BY DEF Register
        <3>3. decision.prices
            BY <2>1, <2>3, <3>2 DEF NewCard, SheetTypeOK
        <3>4. QED
            BY <3>1, <3>3
    <2>4. QED
        BY <2>2, <2>3
<1>2. SheetInv => MarkedApart
    BY DEF SheetInv
<1>3. SheetInv => [Others]_sheetVars
    BY <1>1
<1>4. SheetSpec => []MarkedApart
    BY <1>2, SheetAlways, PTL
<1>5. SheetSpec => OthersKept
    BY <1>3, SheetAlways, PTL DEF OthersKept
<1>6. QED
    BY <1>4, <1>5 DEF RulesKept
=============================================================================
