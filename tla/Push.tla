-------------------------------- MODULE Push --------------------------------
(***************************************************************************)
(* The push half of the synchronisation: the driver that every client runs *)
(* (app/services/sync_client.py), the route of the central server that     *)
(* merges a pushed batch (app/routes/sync.py, app/services/merge.py), and  *)
(* the connection between them, which loses requests and answers, delivers *)
(* a request after its sender has given up, and is cut by a restart of the *)
(* client.  A client may also be put back to an earlier copy of its        *)
(* database (restore.bat).                                                 *)
(*                                                                         *)
(* A ledger row (an operation or a cash movement) is known by its UUID.    *)
(* All its columns but synced_at are immutable, so they are functions of   *)
(* that UUID: the device that writes it, its table, the reference rows it  *)
(* points to, and, from the moment it is written, its seq and the schema   *)
(* version whose columns it carries.  Reference rows (warehouse, product,  *)
(* customer, batch, sale) are known by UUID too; only their existence and  *)
(* their foreign keys matter here, module Catalogue follows their content. *)
(***************************************************************************)
EXTENDS Naturals, FiniteSets

CONSTANTS
    Device,        \* the clients, each with a device_id of its own
    Row,           \* UUIDs of ledger rows
    Ref,           \* UUIDs of reference rows
    Home,          \* the device_id of each ledger row
    CashRow,       \* the ledger rows that are cash movements
    Parents,       \* the reference rows a row points to
    Enforced,      \* those of them behind a constraint of the database
    MaxSchema,     \* bound: number of schema versions
    MaxSeq,        \* bound: largest seq
    MaxLate,       \* bound: requests still on the wire after a give-up
    MaxRestores    \* bound: restores of a client database

(* The foreign keys of app/models.py: a ledger row points to its product,  *)
(* batch and sale; a batch to its product and warehouse, a sale to its     *)
(* customer, and those to nothing.  Migrations 0004 and 0008 add           *)
(* operations.sale_id and operations.batch_id as bare columns, so not      *)
(* every parent of a ledger row is behind a constraint.                    *)
ASSUME ForeignKeys ==
    /\ CashRow \subseteq Row
    /\ Home \in [Row -> Device]
    /\ Parents \in [Row \cup Ref -> SUBSET Ref]
    /\ Enforced \in [Row \cup Ref -> SUBSET Ref]
    /\ \A x \in Row \cup Ref : Enforced[x] \subseteq Parents[x]
    /\ \A f \in Ref : Enforced[f] = Parents[f]
    /\ \A f \in Ref : \A g \in Parents[f] : Parents[g] = {}

ASSUME Bounds ==
    /\ MaxSchema \in Nat \ {0}
    /\ MaxSeq \in Nat
    /\ MaxLate \in Nat
    /\ MaxRestores \in Nat

VARIABLES
    born,      \* schema version each row was written under, 0: not written
    seq,       \* the per-device counter of each row, 0: not written
    minted,    \* reference rows created so far, anywhere
    db,        \* each client's database
    backup,    \* the copy of it a restore would bring back
    driver,    \* what each client's sync driver is doing
    call,      \* the request the driver is waiting on
    answer,    \* what has happened to that request
    late,      \* requests still on the wire whose sender gave up
    stored,    \* schema version of each row's copy on the server, 0: none
    srvRefs,   \* reference rows on the server
    srvSchema, \* schema version of the server
    restores   \* restores performed so far

vars == <<born, seq, minted, db, backup, driver, call, answer, late,
          stored, srvRefs, srvSchema, restores>>

srvVars == <<stored, srvRefs, srvSchema>>
histVars == <<born, seq, minted>>

Schema == 1..MaxSchema

(* A client database: its ledger, the rows of it with synced_at set, its   *)
(* reference rows and its Alembic revision.                                *)
Database == [ledger: SUBSET Row, synced: SUBSET Row,
             refs: SUBSET Ref, schema: Schema]

(* The body of POST /api/sync/push. *)
Request == [rows: SUBSET Row, refs: SUBSET Ref, schema: Schema]

NoRequest == [rows |-> {}, refs |-> {}, schema |-> 1]

Stored == {r \in Row : stored[r] # 0}
Written == {r \in Row : born[r] # 0}
Table(r) == IF r \in CashRow THEN CashRow ELSE Row \ CashRow

(* Requests the server may still receive. *)
Wire == late \cup {call[d] : d \in {e \in Device : answer[e] = "waiting"}}

-----------------------------------------------------------------------------
(* collect_push_records: the direct parents of the rows, and the parents   *)
(* of the sales and batches among them.                                    *)
DirectParents(S) == UNION {Parents[x] : x \in S}
Closure(S) == DirectParents(S) \cup DirectParents(DirectParents(S))

Unsynced(d) == db[d].ledger \ db[d].synced

Collected(d) ==
    [rows |-> Unsynced(d),
     refs |-> Closure(Unsynced(d)) \cap db[d].refs,
     schema |-> db[d].schema]

(* Mutant: the next seq is not incremented. *)
IsLastSeq(n, S) ==
    /\ \A r \in S : seq[r] <= n
    /\ n = 1 \/ \E r \in S : n = seq[r]

(* ledger.next_seq, finance.next_seq: n is max(seq) + 1 over the rows of   *)
(* this device in that table.                                              *)
IsNextSeq(n, S) ==
    /\ \A r \in S : seq[r] < n
    /\ n = 1 \/ \E r \in S : n = seq[r] + 1

(* Mutant: no schema gate. *)
AnySchemaOk(client, server) == TRUE

(* sync.push_schema_ok: only a client ahead of the server is refused. *)
PushSchemaOk(client, server) == client <= server

(* merge._ledger_row keeps the columns the receiver has. *)
Projected(r) == IF born[r] <= srvSchema THEN born[r] ELSE srvSchema

(* merge._partition_new *)
NewRows(q) == q.rows \ Stored

(* The constraints a merge transaction must meet: the enforced foreign     *)
(* keys (reference rows are inserted in dependency order, then the ledger) *)
(* and UNIQUE(device_id, seq) of each ledger table.                        *)
ForeignKeysHold(q) ==
    \A x \in (q.refs \ srvRefs) \cup NewRows(q) :
        Enforced[x] \subseteq srvRefs \cup q.refs

SeqUnique(S) ==
    \A r, s \in S :
        (Table(r) = Table(s) /\ Home[r] = Home[s] /\ seq[r] = seq[s]) => r = s

Mergeable(q) == ForeignKeysHold(q) /\ SeqUnique(Stored \cup NewRows(q))

-----------------------------------------------------------------------------
(* Local work on a client *)

(* One ledger row and the reference rows it needs that do not exist yet    *)
(* are written in one transaction (record_operation, and                   *)
(* record_cash_movement).  Every reference row it uses is local.           *)
Record(d, r) ==
    LET own == {s \in db[d].ledger : Table(s) = Table(r)}
        missing == Closure({r}) \ db[d].refs
    IN  /\ born[r] = 0
        /\ Home[r] = d
        /\ missing \cap minted = {}
        /\ \E n \in 1..MaxSeq :
              /\ IsNextSeq(n, own)
              /\ seq' = [seq EXCEPT ![r] = n]
        /\ born' = [born EXCEPT ![r] = db[d].schema]
        /\ minted' = minted \cup missing
        /\ db' = [db EXCEPT ![d].ledger = @ \cup {r},
                            ![d].refs = @ \cup missing]
        /\ UNCHANGED <<backup, driver, call, answer, late, srvVars, restores>>

-----------------------------------------------------------------------------
(* The driver: run_sync_once *)

(* The driver has done with its request. *)
Finished(d, next) ==
    /\ call' = [call EXCEPT ![d] = NoRequest]
    /\ answer' = [answer EXCEPT ![d] = "none"]
    /\ driver' = [driver EXCEPT ![d] = next]

(* Collect, serialise and POST.  The rows written after this point are not *)
(* part of the request.                                                    *)
StartPush(d) ==
    /\ driver[d] = "idle"
    /\ call' = [call EXCEPT ![d] = Collected(d)]
    /\ answer' = [answer EXCEPT ![d] = "waiting"]
    /\ driver' = [driver EXCEPT ![d] = "pushing"]
    /\ UNCHANGED <<histVars, db, backup, late, srvVars, restores>>

(* Mutant: the status of the answer is not looked at. *)
StampAnyAnswer(d) ==
    /\ driver[d] = "pushing"
    /\ answer[d] \in {"ok", "refused"}
    /\ db' = [db EXCEPT ![d].synced = @ \cup (call[d].rows \cap db[d].ledger)]
    /\ Finished(d, "pulling")
    /\ UNCHANGED <<histVars, backup, late, srvVars, restores>>

(* A 2xx: synced_at is set on the rows that were sent, and committed; the  *)
(* driver goes on to pull.                                                 *)
Stamp(d) ==
    /\ driver[d] = "pushing"
    /\ answer[d] = "ok"
    /\ db' = [db EXCEPT ![d].synced = @ \cup (call[d].rows \cap db[d].ledger)]
    /\ Finished(d, "pulling")
    /\ UNCHANGED <<histVars, backup, late, srvVars, restores>>

(* Mutant: the run lock is not released after a refusal. *)
RefusedKeepsLock(d) ==
    /\ driver[d] = "pushing"
    /\ answer[d] = "refused"
    /\ Finished(d, "locked")
    /\ UNCHANGED <<histVars, db, backup, late, srvVars, restores>>

(* Any other status: nothing is stamped and nothing is pulled. *)
Refused(d) ==
    /\ driver[d] = "pushing"
    /\ answer[d] = "refused"
    /\ Finished(d, "idle")
    /\ UNCHANGED <<histVars, db, backup, late, srvVars, restores>>

(* One page of GET /api/sync/pull is applied in a transaction of its own.  *)
(* A page whose rows miss a parent is rolled back and ends the run.        *)
PullPage(d) ==
    /\ driver[d] = "pulling"
    /\ \E page \in SUBSET (srvRefs \ db[d].refs) :
          /\ page # {}
          /\ \A f \in page : Enforced[f] \subseteq db[d].refs \cup page
          /\ db' = [db EXCEPT ![d].refs = @ \cup page]
    /\ UNCHANGED <<histVars, backup, driver, call, answer, late, srvVars,
                   restores>>

PullEnds(d) ==
    /\ driver[d] = "pulling"
    /\ driver' = [driver EXCEPT ![d] = "idle"]
    /\ UNCHANGED <<histVars, db, backup, call, answer, late, srvVars, restores>>

(* The request of a client that stops waiting is lost, or stays on the     *)
(* wire as a request nobody waits for; an answer under way is lost.        *)
Abandoned(d) ==
    /\ Finished(d, "idle")
    /\ \/ late' = late
       \/ /\ answer[d] = "waiting"
          /\ Cardinality(late) < MaxLate
          /\ late' = late \cup {call[d]}

(* A timeout, a transport error or a crash of the client while it pushes:  *)
(* nothing was committed since StartPush.                                  *)
GiveUp(d) ==
    /\ driver[d] = "pushing"
    /\ Abandoned(d)
    /\ UNCHANGED <<histVars, db, backup, srvVars, restores>>

-----------------------------------------------------------------------------
(* The server: sync_push *)

(* The schema gate, then the one transaction of apply_merge. *)
Merge(q) ==
    /\ PushSchemaOk(q.schema, srvSchema)
    /\ Mergeable(q)
    /\ stored' = [r \in Row |-> IF r \in NewRows(q) THEN Projected(r)
                                                    ELSE stored[r]]
    /\ srvRefs' = srvRefs \cup q.refs
    /\ UNCHANGED <<srvSchema, histVars, db, backup, driver, call, restores>>

MergeCall(d) ==
    /\ answer[d] = "waiting"
    /\ Merge(call[d])
    /\ answer' = [answer EXCEPT ![d] = "ok"]
    /\ UNCHANGED late

(* The request is merged although its sender has given up. *)
MergeLate(q) ==
    /\ Merge(q)
    /\ late' = late \ {q}
    /\ UNCHANGED answer

(* 409, 429, 413, 400 or 500: the transaction, if any, is rolled back. *)
RefuseCall(d) ==
    /\ answer[d] = "waiting"
    /\ answer' = [answer EXCEPT ![d] = "refused"]
    /\ UNCHANGED <<histVars, db, backup, driver, call, late, srvVars, restores>>

DropLate(q) ==
    /\ late' = late \ {q}
    /\ UNCHANGED <<histVars, db, backup, driver, call, answer, srvVars, restores>>

(* Reference rows are also created on the server, by its own web users.    *)
CreateOnServer(f) ==
    /\ f \notin minted
    /\ Parents[f] \subseteq srvRefs
    /\ minted' = minted \cup {f}
    /\ srvRefs' = srvRefs \cup {f}
    /\ UNCHANGED <<born, seq, db, backup, driver, call, answer, late, stored,
                   srvSchema, restores>>

-----------------------------------------------------------------------------
(* Upgrades, backups and restores *)

(* A client runs its migrations when it is started. *)
UpgradeClient(d) ==
    /\ db[d].schema < MaxSchema
    /\ Abandoned(d)
    /\ db' = [db EXCEPT ![d].schema = @ + 1]
    /\ UNCHANGED <<histVars, backup, srvVars, restores>>

UpgradeServer ==
    /\ srvSchema < MaxSchema
    /\ srvSchema' = srvSchema + 1
    /\ UNCHANGED <<histVars, db, backup, driver, call, answer, late, stored,
                   srvRefs, restores>>

(* create_backup: VACUUM INTO, a consistent copy. *)
TakeBackup(d) ==
    /\ restores < MaxRestores
    /\ backup' = [backup EXCEPT ![d] = db[d]]
    /\ UNCHANGED <<histVars, db, driver, call, answer, late, srvVars, restores>>

(* restore.bat: the application is stopped, its database replaced. *)
Restore(d) ==
    /\ restores < MaxRestores
    /\ restores' = restores + 1
    /\ Abandoned(d)
    /\ db' = [db EXCEPT ![d] = backup[d]]
    /\ UNCHANGED <<histVars, backup, srvVars>>

-----------------------------------------------------------------------------
EmptyDatabase == [ledger |-> {}, synced |-> {}, refs |-> {}, schema |-> 1]
Init ==
    /\ born = [r \in Row |-> 0]
    /\ seq = [r \in Row |-> 0]
    /\ minted = {}
    /\ db = [d \in Device |-> EmptyDatabase]
    /\ backup = [d \in Device |-> EmptyDatabase]
    /\ driver = [d \in Device |-> "idle"]
    /\ call = [d \in Device |-> NoRequest]
    /\ answer = [d \in Device |-> "none"]
    /\ late = {}
    /\ stored = [r \in Row |-> 0]
    /\ srvRefs = {}
    /\ srvSchema = 1
    /\ restores = 0

Next ==
    \/ \E d \in Device, r \in Row : Record(d, r)
    \/ \E d \in Device :
          \/ StartPush(d) \/ Stamp(d) \/ Refused(d) \/ GiveUp(d)
          \/ PullPage(d) \/ PullEnds(d)
          \/ MergeCall(d) \/ RefuseCall(d)
          \/ UpgradeClient(d) \/ TakeBackup(d) \/ Restore(d)
    \/ \E q \in late : MergeLate(q) \/ DropLate(q)
    \/ \E f \in Ref : CreateOnServer(f)
    \/ UpgradeServer

Spec == Init /\ [][Next]_vars

(* The background loop starts a run again and again; the server is         *)
(* upgraded in the end; and of the requests that the server could merge,   *)
(* of the answers that could be used, not all are lost.                    *)
Fairness ==
    /\ WF_vars(UpgradeServer)
    /\ \A d \in Device :
          /\ WF_vars(StartPush(d))
          /\ WF_vars(PullEnds(d))
          /\ WF_vars(Refused(d))
          /\ SF_vars(MergeCall(d))
          /\ SF_vars(Stamp(d))

FairSpec == Spec /\ Fairness

-----------------------------------------------------------------------------
(* Properties *)

(* Every variable has its type; a row has a seq exactly when it has been   *)
(* written, and the reference rows of every database are minted ones.      *)
TypeOK ==
    /\ born \in [Row -> 0..MaxSchema]
    /\ seq \in [Row -> 0..MaxSeq]
    /\ \A r \in Row : (born[r] = 0) <=> (seq[r] = 0)
    /\ minted \in SUBSET Ref
    /\ db \in [Device -> Database]
    /\ backup \in [Device -> Database]
    /\ driver \in [Device -> {"idle", "pushing", "pulling"}]
    /\ call \in [Device -> Request]
    /\ answer \in [Device -> {"none", "waiting", "ok", "refused"}]
    /\ late \in SUBSET Request
    /\ stored \in [Row -> 0..MaxSchema]
    /\ srvRefs \in SUBSET minted
    /\ srvSchema \in Schema
    /\ restores \in 0..MaxRestores

(* A client sets synced_at on a row only if the server durably holds that  *)
(* row: not on the rows written while the request was under way, not after *)
(* a refusal, not when the answer was lost (run_sync_once stamps the ids   *)
(* it collected, after raise_for_status).                                  *)
StampedStored == \A d \in Device : db[d].synced \subseteq Stored

(* The server's copy of a row has every column the row was written with:   *)
(* no order of upgrades of the two sides, of late requests and of restores *)
(* lets _ledger_row drop a column of a row that is stored (the gate of     *)
(* push_schema_ok).                                                        *)
NoColumnDropped == \A r \in Stored : stored[r] = born[r]

(* Every row on the server finds all its parents there, those behind bare  *)
(* columns included: what the client collects is closed, whatever it pulled *)
(* before, and a late request brings its own parents.                      *)
ServerClosed == \A x \in Stored \cup srvRefs : Parents[x] \subseteq srvRefs

(* As long as no client database was restored, no request that can still   *)
(* reach the server breaks a constraint there: next_seq gives the rows of  *)
(* a device distinct numbers and the closure names every parent, so a push *)
(* is refused only for its schema version, its size or its rate.           *)
AlwaysMergeable == restores = 0 => \A q \in Wire : Mergeable(q)

(* The push protocol implements the abstract delivery: rows are stored     *)
(* once, exactly as written, never change on the server, and are           *)
(* acknowledged only when stored.                                          *)
Promise == INSTANCE Delivery WITH
               written <- born,
               acked <- UNION {db[d].synced : d \in Device}
Delivers == Promise!Spec

(* Every row that a client writes reaches the server and is stamped, as    *)
(* long as no client database was restored: the loop retries what failed,  *)
(* and a schema refusal ends with the upgrade.                             *)
Arrives ==
    \A r \in Row :
        born[r] # 0 ~>
            \/ stored[r] # 0 /\ r \in db[Home[r]].synced
            \/ restores > 0

(* A row that stays in a client's ledger is stamped in the end: "rows stay *)
(* unsynced, retried next sync".  A restored client breaks it: it gives a  *)
(* new row the seq of a row the server already has.                        *)
RetriedUntilStored ==
    \A r \in Row :
        LET home == db[Home[r]]
        IN  r \in home.ledger ~> (r \in home.synced \/ r \notin home.ledger)

-----------------------------------------------------------------------------
(* The inductive strengthening of the safety properties (module            *)
(* PushProofs).                                                            *)

(* A device keeps rows that were written under a schema not newer than its *)
(* own, and every parent of what it holds; a row is stamped only if it is  *)
(* stored.                                                                 *)
DatabaseOK(c) ==
    /\ \A r \in c.ledger : born[r] # 0 /\ born[r] <= c.schema
    /\ c.synced \subseteq Stored
    /\ c.refs \subseteq minted
    /\ \A x \in c.ledger \cup c.refs : Parents[x] \subseteq c.refs

(* This holds of the database in use and of the saved copy, which is older *)
(* than the database it was taken of.                                      *)
CopiesInv ==
    \A d \in Device :
        /\ backup[d].synced \subseteq db[d].synced
        /\ DatabaseOK(db[d])
        /\ DatabaseOK(backup[d])

(* A request carries written rows, no newer than the version in its        *)
(* header, with their parents; an accepted one has been stored.            *)
RequestOK(q) ==
    /\ \A r \in q.rows : born[r] # 0 /\ born[r] <= q.schema
    /\ q.refs \subseteq minted
    /\ \A x \in q.rows \cup q.refs : Parents[x] \subseteq q.refs

RequestsInv ==
    /\ \A d \in Device : RequestOK(call[d])
    /\ \A q \in late : RequestOK(q)
    /\ \A d \in Device : answer[d] = "ok" => call[d].rows \subseteq Stored

IndInv ==
    /\ TypeOK
    /\ CopiesInv
    /\ RequestsInv
    /\ NoColumnDropped
    /\ ServerClosed

(* Until a database is restored, every written row is in the ledger of its *)
(* author, so max(seq) + 1 is free in every ledger the row may reach.      *)
NumbersInv ==
    restores = 0 =>
        /\ \A r \in Written : r \in db[Home[r]].ledger
        /\ SeqUnique(Written)
=============================================================================
