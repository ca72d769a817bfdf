----------------------------- MODULE Catalogue -----------------------------
(***************************************************************************)
(* The content of the shared reference rows: product cards with their      *)
(* codes, and the batches that point to them.  A card is changed on the    *)
(* server by its web users and on every client by its own                  *)
(* (services/catalog.py).  A sync run pushes the cards a client has        *)
(* written rows for (services/merge.py renames a code that is taken) and   *)
(* then pulls all cards of the server page by page, the server winning     *)
(* (services/sync.py, _apply_pull_page in services/sync_client.py).        *)
(*                                                                         *)
(* Codes are unique among the active cards of one database only            *)
(* (uq_products_code_active).  Rows are known by their UUIDs, which are    *)
(* numbers here because pages are sorted by them.  What can go wrong       *)
(* between a push and its stamp is the subject of module Push; here the    *)
(* two are one step.                                                       *)
(***************************************************************************)
EXTENDS Naturals, FiniteSets

CONSTANTS
    Product,      \* UUIDs of cards
    Batch,        \* UUIDs of batches
    Of,           \* the card of each batch
    Client,
    Code,         \* codes people type
    NoCode,       \* the code of a batch
    None,         \* no row, no cursor
    PageSize,     \* records of a page
    MaxChanges    \* bound: changes made by people

Row == Product \cup Batch

(* _suffix_code: a code with the UUID of its card. *)
Suffixed(c, p) == <<c, p>>
Codes == Code \cup {NoCode} \cup {Suffixed(c, p) : c \in Code, p \in Product}

LocalRow == [code : Codes, deleted : BOOLEAN]
ServerRow == [code : Codes, deleted : BOOLEAN, at : Nat]
Cursor == [since : Nat, id : Row]

ASSUME Ids ==
    /\ Row \subseteq Nat
    /\ Product \cap Batch = {}
    /\ Of \in [Batch -> Product]
ASSUME Typed ==      \* nobody types a code that _suffix_code has made
    \A p \in Product, c \in Code \cup {NoCode} : Suffixed(c, p) \notin Code \cup {NoCode}
ASSUME Absent == NoCode \notin Code /\ None \notin LocalRow \cup ServerRow \cup Cursor
ASSUME Bounds == PageSize \in Nat \ {0} /\ MaxChanges \in Nat

VARIABLES
    server,     \* the rows of the server, with updated_at
    local,      \* the rows of each client
    unsynced,   \* the rows a client's unsynced operations point to
    run,        \* each client's sync run: its step, its cursor, its last
                \* status, and the rows changed since it began
    now,        \* the clock, in seconds
    changes,    \* changes made by people so far
    reused      \* somebody typed a code that some database still held

vars == <<server, local, unsynced, run, now, changes, reused>>

-----------------------------------------------------------------------------
(* One database *)
Card(c, gone) == [code |-> c, deleted |-> gone]
Stamped(card, t) == [code |-> card.code, deleted |-> card.deleted, at |-> t]
Unstamped(row) == Card(row.code, row.deleted)

Present(f, r) == f[r] # None
Active(f, p) == Present(f, p) /\ ~f[p].deleted

(* uq_products_code_active *)
Taken(f, p, c) == \E q \in Product \ {p} : Active(f, q) /\ f[q].code = c
CodesUnique(f) == \A p \in Product : Active(f, p) => ~Taken(f, p, f[p].code)

(* A code that no database holds, under any card. *)
FreeEverywhere(c) ==
    \A p \in Product :
        /\ Present(server, p) => server[p].code # c
        /\ \A d \in Client : Present(local[d], p) => local[d][p].code # c

Types(c) == reused' = (reused \/ ~FreeEverywhere(c))

(* new_id *)
Fresh(r) == ~Present(server, r) /\ \A d \in Client : ~Present(local[d], r)

(* What each write may leave in row r of a database f: create_product,     *)
(* update_product, soft_delete_product, restore_product, a receipt's new   *)
(* batch.                                                                  *)
Creates(f, p, c) == Fresh(p) /\ Types(c) /\ ~Taken(f, p, c)
Edits(f, p, c) ==
    /\ Active(f, p) /\ ~Taken(f, p, c)
    /\ \/ c = f[p].code /\ UNCHANGED reused
       \/ c \in Code \ {f[p].code} /\ Types(c)
Deletes(f, p) == Active(f, p) /\ UNCHANGED reused
Restores(f, p) ==
    Present(f, p) /\ f[p].deleted /\ ~Taken(f, p, f[p].code) /\ UNCHANGED reused
Receives(f, b) == Fresh(b) /\ Active(f, Of[b]) /\ UNCHANGED reused

-----------------------------------------------------------------------------
(* People *)
Counted ==
    /\ changes < MaxChanges
    /\ changes' = changes + 1

(* Runs under way take note of what changes meanwhile. *)
Noted(r, d) == IF run[d].step = "pull" THEN [run[d] EXCEPT !.changed = @ \cup {r}] ELSE run[d]

(* Every change on the server sets updated_at (onupdate). *)
Server(r, card) ==
    /\ Counted
    /\ now' \in {now, now + 1}
    /\ server' = [server EXCEPT ![r] = Stamped(card, now')]
    /\ run' = [d \in Client |-> Noted(r, d)]
    /\ UNCHANGED <<local, unsynced>>

(* A change that writes an operation makes its row part of the next push. *)
Local(d, r, card, recorded) ==
    /\ Counted
    /\ local' = [local EXCEPT ![d][r] = card]
    /\ unsynced' = [unsynced EXCEPT ![d] = @ \cup recorded]
    /\ run' = [run EXCEPT ![d] = Noted(r, d)]
    /\ UNCHANGED <<server, now>>

ServerCreates(p, c) == Creates(server, p, c) /\ Server(p, Card(c, FALSE))
ServerEdits(p, c) == Edits(server, p, c) /\ Server(p, Card(c, FALSE))
ServerDeletes(p) == Deletes(server, p) /\ Server(p, Card(server[p].code, TRUE))
ServerRestores(p) == Restores(server, p) /\ Server(p, Card(server[p].code, FALSE))
ServerReceives(b) == Receives(server, b) /\ Server(b, Card(NoCode, FALSE))

ClientCreates(d, p, c) == Creates(local[d], p, c) /\ Local(d, p, Card(c, FALSE), {p})
ClientEdits(d, p, c) == Edits(local[d], p, c) /\ Local(d, p, Card(c, FALSE), {p})
ClientDeletes(d, p) ==
    Deletes(local[d], p) /\ Local(d, p, Card(local[d][p].code, TRUE), {})
ClientRestores(d, p) ==
    Restores(local[d], p) /\ Local(d, p, Card(local[d][p].code, FALSE), {})
ClientReceives(d, b) ==
    Receives(local[d], b) /\ Local(d, b, Card(NoCode, FALSE), {b, Of[b]})

-----------------------------------------------------------------------------
(* The push: apply_merge on the server *)

(* The closure of the unsynced operations (collect_push_records). *)
Sent(d) == unsynced[d] \cup {Of[b] : b \in unsynced[d] \cap Batch}

(* _partition_new *)
New(d) == {r \in Sent(d) : ~Present(server, r)}

(* Mutant: only the pushed rows are compared with each other. *)
ResolvedInBatch(d, p) ==
    LET c == local[d][p].code
    IN  IF \E q \in New(d) \cap Product : q < p /\ Active(local[d], q) /\ local[d][q].code = c
        THEN Suffixed(c, p)
        ELSE c

(* _resolve_code_collisions: an active card loses its code to the card of  *)
(* the server that has it, or to a pushed card with a smaller UUID.        *)
Resolved(d, p) ==
    LET c == local[d][p].code
        loses == \/ Taken(server, p, c)
                 \/ \E q \in New(d) \cap Product :
                       q < p /\ Active(local[d], q) /\ local[d][q].code = c
    IN  IF Active(local[d], p) /\ loses THEN Suffixed(c, p) ELSE c

(* New rows keep the updated_at of their client, t at most; a row that is  *)
(* there already is left alone (_upsert_reference).                        *)
Merged(d, t) ==
    [r \in Row |->
        IF r \in New(d) \cap Product
        THEN Stamped(Card(Resolved(d, r), local[d][r].deleted), t)
        ELSE IF r \in New(d) THEN Stamped(local[d][r], t) ELSE server[r]]

(* recompute_derived writes the quantity of a card that has got new rows,  *)
(* and with it updated_at.                                                 *)
Recomputed(f, S, t) ==
    [r \in Row |-> IF r \in S THEN [f[r] EXCEPT !.at = t] ELSE f[r]]

Idle(status) == [step |-> "idle", cursor |-> None, status |-> status, changed |-> {}]
Begun(status) == [step |-> "pull", cursor |-> None, status |-> status, changed |-> {}]

(* run_sync_once, the first half: push, stamp, and go on to pull. *)
Push(d) ==
    /\ run[d].step = "idle"
    /\ \E t \in 0..now, recomputed \in {{}, Sent(d)} :
          LET f == Recomputed(Merged(d, t), recomputed, now)
          IN  CodesUnique(f) /\ server' = f
    /\ unsynced' = [unsynced EXCEPT ![d] = {}]
    /\ run' = [e \in Client |->
          IF e = d THEN Begun(run[d].status)
          ELSE IF run[e].step = "pull"
               THEN [run[e] EXCEPT !.changed = @ \cup Sent(d)] ELSE run[e]]
    /\ UNCHANGED <<local, now, changes, reused>>

-----------------------------------------------------------------------------
(* The pull *)

(* Pages run through the cards and then the batches, each by               *)
(* (updated_at, id).                                                       *)
Before(r, s) ==
    \/ r \in Product /\ s \in Batch
    \/ /\ r \in Product <=> s \in Product
       /\ \/ server[r].at < server[s].at
          \/ server[r].at = server[s].at /\ r < s

(* Mutant: the cursor is the time alone. *)
PastTime(cursor, r) ==
    \/ cursor = None
    \/ cursor.id \in Product /\ r \in Batch
    \/ /\ cursor.id \in Product <=> r \in Product
       /\ server[r].at > cursor.since

(* collect_reference_records: what comes after the composite cursor; the   *)
(* kind is that of the row whose id it names (_resume_kind).               *)
Past(cursor, r) ==
    \/ cursor = None
    \/ cursor.id \in Product /\ r \in Batch
    \/ /\ cursor.id \in Product <=> r \in Product
       /\ \/ server[r].at > cursor.since
          \/ server[r].at = cursor.since /\ r > cursor.id

(* Mutant: a page leaves deleted cards out. *)
RestOfActive(cursor) == {r \in Row : Active(server, r) /\ Past(cursor, r)}

Rest(cursor) == {r \in Row : Present(server, r) /\ Past(cursor, r)}
UpTo(last, rest) == {r \in rest : r = last \/ Before(r, last)}

(* _apply_pull_page: of each kind the new rows first, then the others. *)
Precedes(d, q, r) ==
    \/ q \in Product /\ r \in Batch
    \/ /\ q \in Product <=> r \in Product
       /\ \/ ~Present(local[d], q) /\ Present(local[d], r)
          \/ (Present(local[d], q) <=> Present(local[d], r)) /\ Before(q, r)

Pulled(d, page) ==
    [r \in Row |-> IF r \in page THEN Unstamped(server[r]) ELSE local[d][r]]

(* No INSERT or UPDATE of the page breaks the unique index or a foreign    *)
(* key of what is there at its turn.                                       *)
Applies(d, page) ==
    \A r \in page :
        LET rows == Pulled(d, {q \in page : Precedes(d, q, r)})
        IN  /\ Active(server, r) /\ r \in Product => ~Taken(rows, r, server[r].code)
            /\ r \in Batch => Present(rows, Of[r])

(* One page in a transaction of its own; one that breaks a constraint is   *)
(* rolled back and ends the run.                                           *)
Take(d, page, next) ==
    IF Applies(d, page)
    THEN local' = [local EXCEPT ![d] = Pulled(d, page)] /\ run' = [run EXCEPT ![d] = next]
    ELSE UNCHANGED local /\ run' = [run EXCEPT ![d] = Idle("partial")]

(* A full page and the cursor of its last row, or the short page at the end. *)
PullPage(d) ==
    /\ run[d].step = "pull"
    /\ LET rest == Rest(run[d].cursor)
       IN  \/ \E last \in rest :
                 /\ Cardinality(UpTo(last, rest)) = PageSize
                 /\ Take(d, UpTo(last, rest), [run[d] EXCEPT
                         !.cursor = [since |-> server[last].at, id |-> last]])
           \/ Cardinality(rest) < PageSize /\ Take(d, rest, Idle("ok"))
    /\ UNCHANGED <<server, unsynced, now, changes, reused>>

(* The connection fails between two pages. *)
PullFails(d) ==
    /\ run[d].step = "pull"
    /\ run' = [run EXCEPT ![d] = Idle("partial")]
    /\ UNCHANGED <<server, local, unsynced, now, changes, reused>>

-----------------------------------------------------------------------------
Init ==
    /\ server = [r \in Row |-> None]
    /\ local = [d \in Client |-> [r \in Row |-> None]]
    /\ unsynced = [d \in Client |-> {}]
    /\ run = [d \in Client |-> Idle("none")]
    /\ now = 0
    /\ changes = 0
    /\ reused = FALSE

People ==
    \/ \E p \in Product, c \in Code :
          \/ ServerCreates(p, c)
          \/ \E d \in Client : ClientCreates(d, p, c)
    \/ \E p \in Product, c \in Codes :
          \/ ServerEdits(p, c)
          \/ \E d \in Client : ClientEdits(d, p, c)
    \/ \E p \in Product :
          \/ ServerDeletes(p) \/ ServerRestores(p)
          \/ \E d \in Client : ClientDeletes(d, p) \/ ClientRestores(d, p)
    \/ \E b \in Batch :
          ServerReceives(b) \/ \E d \in Client : ClientReceives(d, b)

Next ==
    \/ People
    \/ \E d \in Client : Push(d) \/ PullPage(d) \/ PullFails(d)

Spec == Init /\ [][Next]_vars

(* The loop starts a run again and again, and not every request for the    *)
(* page behind a given row is lost.                                        *)
FairSpec ==
    /\ Spec
    /\ \A d \in Client :
          /\ WF_vars(Push(d))
          /\ SF_vars(run[d].cursor = None /\ PullPage(d))
          /\ \A r \in Row : SF_vars(run[d].cursor # None /\ run[d].cursor.id = r /\ PullPage(d))

-----------------------------------------------------------------------------
(* Properties *)
(* Every variable has its type, and a cursor exists only while a run       *)
(* pages: the next pull starts from the top.                               *)
TypeOK ==
    /\ server \in [Row -> ServerRow \cup {None}]
    /\ local \in [Client -> [Row -> LocalRow \cup {None}]]
    /\ unsynced \in [Client -> SUBSET Row]
    /\ run \in [Client -> [step : {"idle", "pull"}, cursor : Cursor \cup {None},
                          status : {"none", "ok", "partial"}, changed : SUBSET Row]]
    /\ \A d \in Client : run[d].step = "idle" => run[d].cursor = None
    /\ now \in 0..MaxChanges /\ changes \in 0..MaxChanges /\ reused \in BOOLEAN

(* The variables have their types, and whatever cards a client has made,   *)
(* its next push meets no duplicate code: _resolve_code_collisions leaves  *)
(* no two active cards with one code.                                      *)
PushesMerge ==
    /\ TypeOK
    /\ \A d \in Client : CodesUnique(Merged(d, 0))

(* A push changes no card that the server has: "never field-merged, never  *)
(* resurrected and never deleted from client input" (_upsert_reference).   *)
ServerAuthoritative ==
    [][\A d \in Client : run[d].step = "idle" /\ run'[d].step = "pull" =>
          \A r \in Row : Present(server, r) =>
              Unstamped(server'[r]) = Unstamped(server[r])]_vars

(* A pull that ends with "ok" has brought every row that did not change    *)
(* meanwhile: pages skip no row, also among equal timestamps, deletions    *)
(* included, and the server's content wins.                                *)
ServerWins ==
    [][\A d \in Client :
          run[d].step = "pull" /\ run'[d] = Idle("ok") =>
              \A r \in Row \ run[d].changed :
                  Present(server, r) => local'[d][r] = Unstamped(server[r])]_vars

(* The server's content decides, in both directions of a run: no push      *)
(* changes it and a complete pull brings all of it.                        *)
ServerDecides == ServerAuthoritative /\ ServerWins

(* As long as nobody types a code that some database still holds, every    *)
(* client ends up with the server's rows once people stop.                 *)
Converges ==
    <>reused \/ <>[](\A d \in Client, r \in Row :
                      IF Present(server, r) THEN local[d][r] = Unstamped(server[r])
                      ELSE ~Present(local[d], r))

(* Without that condition, as _apply_pull_page promises it: "EXISTING rows *)
(* are UPDATED with the server's values".                                  *)
AlwaysConverges ==
    <>[](\A d \in Client, r \in Row :
            IF Present(server, r) THEN local[d][r] = Unstamped(server[r])
            ELSE ~Present(local[d], r))
=============================================================================
