----------------------------- MODULE PushProofs -----------------------------
(***************************************************************************)
(* Proofs about the push protocol, for every number of devices, rows and   *)
(* reference rows, every schema history and every number of restores.      *)
(***************************************************************************)
EXTENDS Push, TLAPS

(* The closure that the client collects contains the parents of the rows   *)
(* it is computed from, and the parents of everything in it: the foreign   *)
(* keys are at most two deep (collect_push_records).                       *)
LEMMA ClosureClosed ==
    ASSUME NEW S \in SUBSET (Row \cup Ref)
    PROVE  /\ Closure(S) \subseteq Ref
           /\ \A x \in S \cup Closure(S) : Parents[x] \subseteq Closure(S)
<1>1. DirectParents(S) \subseteq Ref
    BY ForeignKeys DEF DirectParents
<1>2. Closure(S) \subseteq Ref
    BY <1>1, ForeignKeys DEF Closure, DirectParents
<1>3. ASSUME NEW x \in S
      PROVE  Parents[x] \subseteq Closure(S)
    BY DEF Closure, DirectParents
<1>4. ASSUME NEW f \in DirectParents(S)
      PROVE  Parents[f] \subseteq Closure(S)
    BY DEF Closure, DirectParents
<1>5. ASSUME NEW g \in DirectParents(DirectParents(S))
      PROVE  Parents[g] = {}
    <2>1. PICK f \in DirectParents(S) : g \in Parents[f]
        BY DEF DirectParents
    <2>2. QED
        BY <2>1, <1>1, ForeignKeys
<1>6. QED
    BY <1>2, <1>3, <1>4, <1>5 DEF Closure

(* The initial state satisfies the inductive invariant. *)
LEMMA InitInv == Init => IndInv
<1> SUFFICES ASSUME Init PROVE IndInv
    OBVIOUS
<1> USE Bounds DEF Init, EmptyDatabase, NoRequest
<1>1. TypeOK
    BY DEF TypeOK, Database, Request, Schema
<1>2. CopiesInv
    BY DEF CopiesInv, DatabaseOK
<1>3. RequestsInv
    BY DEF RequestsInv, RequestOK
<1>4. NoColumnDropped /\ ServerClosed
    BY DEF NoColumnDropped, ServerClosed, Stored
<1>5. QED
    BY <1>1, <1>2, <1>3, <1>4 DEF IndInv

(* A new row and the reference rows it brings disturb neither what is      *)
(* known of the other databases nor what is known of the requests.         *)
LEMMA RecordInv ==
    ASSUME IndInv, NEW d \in Device, NEW r \in Row, Record(d, r)
    PROVE  IndInv'
<1> USE DEF IndInv
<1> DEFINE missing == Closure({r}) \ db[d].refs
<1>1. /\ born[r] = 0 /\ Home[r] = d
      /\ born' = [born EXCEPT ![r] = db[d].schema]
      /\ minted' = minted \cup missing
      /\ db' = [db EXCEPT ![d].ledger = @ \cup {r}, ![d].refs = @ \cup missing]
      /\ UNCHANGED <<backup, driver, call, answer, late, srvVars, restores>>
    BY DEF Record
<1>2. PICK n \in 1..MaxSeq : seq' = [seq EXCEPT ![r] = n]
    BY DEF Record
<1>3. /\ db[d] \in Database /\ db[d].schema \in Schema
      /\ db[d].schema \in 1..MaxSchema
    BY DEF TypeOK, Database, Schema
<1>4. Closure({r}) \subseteq Ref
    BY ClosureClosed
<1>5. db'[d] = [ledger |-> db[d].ledger \cup {r}, synced |-> db[d].synced,
                refs |-> db[d].refs \cup Closure({r}), schema |-> db[d].schema]
    BY <1>1, <1>3 DEF Database, TypeOK
<1>6. db' = [db EXCEPT ![d] = db'[d]]
    BY <1>1 DEF TypeOK
<1>7. Stored' = Stored
    BY <1>1 DEF Stored, srvVars
<1>8. /\ \A s \in Row : born[s] # 0 => born'[s] = born[s]
      /\ born'[r] = db[d].schema
    BY <1>1 DEF TypeOK
<1>9. TypeOK'
    <2>1. db'[d] \in Database
        <3>1. db[d] \in Database /\ db'[d].ledger \subseteq Row
            BY <1>3, <1>4, <1>5 DEF Database, TypeOK
        <3>2. db'[d].refs \subseteq Ref
            BY <1>3, <1>4, <1>5, <3>1 DEF Database
        <3>3. QED
            BY <1>5, <3>1, <3>2 DEF Database
    <2>2. db' \in [Device -> Database]
        BY <2>1, <1>6 DEF TypeOK
    <2>3. born' \in [Row -> 0..MaxSchema] /\ seq' \in [Row -> 0..MaxSeq]
        BY <1>1, <1>2, <1>3, Bounds DEF TypeOK
    <2>4. \A s \in Row : (born'[s] = 0) <=> (seq'[s] = 0)
        BY <1>1, <1>2, <1>3, Bounds DEF TypeOK
    <2>5. QED
        BY <1>1, <1>4, <2>2, <2>3, <2>4 DEF TypeOK, srvVars
<1>10. CopiesInv'
    <2>1. \A e \in Device : backup'[e].synced \subseteq db'[e].synced
        BY <1>1, <1>5, <1>6 DEF CopiesInv, TypeOK
    <2>2. \A c \in Database : DatabaseOK(c) =>
             /\ \A s \in c.ledger : born'[s] # 0 /\ born'[s] <= c.schema
             /\ c.synced \subseteq Stored'
             /\ c.refs \subseteq minted'
             /\ \A x \in c.ledger \cup c.refs : Parents[x] \subseteq c.refs
        BY <1>1, <1>7, <1>8 DEF DatabaseOK, Database
    <2>3. \A e \in Device : DatabaseOK(backup[e])'
        BY <1>1, <2>2 DEF CopiesInv, DatabaseOK, TypeOK
    <2>4. \A e \in Device \ {d} : DatabaseOK(db[e])'
        BY <1>6, <2>2 DEF CopiesInv, DatabaseOK, TypeOK
    <2>5. DatabaseOK(db[d])'
        <3>1. \A s \in db'[d].ledger : born'[s] # 0 /\ born'[s] <= db'[d].schema
            BY <1>3, <1>5, <1>8, <2>2, Bounds DEF CopiesInv
        <3>2. db'[d].synced \subseteq Stored' /\ db'[d].refs \subseteq minted'
            <4>1. db'[d].synced = db[d].synced
                BY <1>5
            <4>2. db'[d].refs = db[d].refs \cup missing
                BY <1>5
            <4>3. QED
                BY <4>1, <4>2, <1>1, <1>7 DEF CopiesInv, DatabaseOK
        <3>3. \A x \in db'[d].ledger \cup db'[d].refs :
                  Parents[x] \subseteq db'[d].refs
            <4>1. \A x \in db[d].ledger \cup db[d].refs :
                      Parents[x] \subseteq db[d].refs
                BY DEF CopiesInv, DatabaseOK
            <4>2. \A x \in {r} \cup Closure({r}) : Parents[x] \subseteq Closure({r})
                BY ClosureClosed
            <4>3. /\ db'[d].ledger = db[d].ledger \cup {r}
                  /\ db'[d].refs = db[d].refs \cup Closure({r})
                BY <1>5
            <4>4. QED
                BY <4>1, <4>2, <4>3
        <3>4. QED
            BY <3>1, <3>2, <3>3 DEF DatabaseOK
    <2>6. QED
        BY <2>1, <2>3, <2>4, <2>5 DEF CopiesInv
<1>11. RequestsInv'
    <2>1. \A q \in Request : RequestOK(q) => RequestOK(q)'
        BY <1>1, <1>8 DEF RequestOK, Request
    <2>2. QED
        BY <1>1, <1>7, <2>1 DEF RequestsInv, TypeOK
<1>12. NoColumnDropped' /\ ServerClosed'
    BY <1>1, <1>7, <1>8
       DEF NoColumnDropped, ServerClosed, srvVars, Stored, CopiesInv, TypeOK
<1>13. QED
    BY <1>9, <1>10, <1>11, <1>12

-----------------------------------------------------------------------------
(* Steps that touch neither a database nor the server keep what is known   *)
(* of those.                                                               *)
LEMMA Untouched ==
    ASSUME IndInv, UNCHANGED <<histVars, db, backup, srvVars>>
    PROVE  CopiesInv' /\ NoColumnDropped' /\ ServerClosed'
<1>1. Stored' = Stored
    BY DEF Stored, srvVars
<1>2. CopiesInv'
    BY <1>1 DEF IndInv, CopiesInv, DatabaseOK, histVars
<1>3. NoColumnDropped' /\ ServerClosed'
    BY <1>1 DEF IndInv, NoColumnDropped, ServerClosed, histVars, srvVars
<1>4. QED
    BY <1>2, <1>3

(* Requests stay well formed as the set of reference rows grows.           *)
LEMMA RequestsStay ==
    ASSUME IndInv, UNCHANGED <<born, call, answer, late>>,
           minted \subseteq minted', Stored \subseteq Stored'
    PROVE  RequestsInv'
    BY DEF IndInv, RequestsInv, RequestOK

(* A driver that has done with its request leaves a well formed state.     *)
LEMMA FinishedInv ==
    ASSUME IndInv, NEW d \in Device, NEW next \in {"idle", "pulling"},
           Finished(d, next), UNCHANGED <<born, minted, stored>>
    PROVE  /\ driver' \in [Device -> {"idle", "pushing", "pulling"}]
           /\ call' \in [Device -> Request]
           /\ answer' \in [Device -> {"none", "waiting", "ok", "refused"}]
           /\ \A e \in Device : RequestOK(call[e])'
           /\ \A e \in Device : answer'[e] = "ok" => call'[e].rows \subseteq Stored'
<1> USE DEF IndInv, TypeOK, Finished
<1>1. NoRequest \in Request
    BY Bounds DEF NoRequest, Request, Schema
<1>2. /\ driver' \in [Device -> {"idle", "pushing", "pulling"}]
      /\ call' \in [Device -> Request]
      /\ answer' \in [Device -> {"none", "waiting", "ok", "refused"}]
    BY <1>1
<1>3. \A e \in Device : RequestOK(call[e])'
    <2>1. NoRequest.rows = {} /\ NoRequest.refs = {}
        BY DEF NoRequest
    <2>2. call'[d] = NoRequest /\ \A e \in Device \ {d} : call'[e] = call[e]
        OBVIOUS
    <2>3. RequestOK(call[d])'
        BY <2>1, <2>2 DEF RequestOK
    <2>4. \A e \in Device \ {d} : RequestOK(call[e])'
        BY <2>2 DEF RequestOK, RequestsInv
    <2>5. QED
        BY <2>3, <2>4
<1>4. \A e \in Device : answer'[e] = "ok" => call'[e].rows \subseteq Stored'
    <2>1. Stored' = Stored
        BY DEF Stored
    <2>2. answer'[d] = "none" /\ \A e \in Device \ {d} :
             answer'[e] = answer[e] /\ call'[e] = call[e]
        OBVIOUS
    <2>3. QED
        BY <2>1, <2>2 DEF RequestsInv
<1>5. QED
    BY <1>2, <1>3, <1>4

(* Nor does giving up, which may leave the request on the wire.            *)
LEMMA AbandonedInv ==
    ASSUME IndInv, NEW d \in Device, Abandoned(d),
           UNCHANGED <<born, minted, stored>>
    PROVE  /\ driver' \in [Device -> {"idle", "pushing", "pulling"}]
           /\ call' \in [Device -> Request]
           /\ answer' \in [Device -> {"none", "waiting", "ok", "refused"}]
           /\ late' \in SUBSET Request
           /\ RequestsInv'
<1>1. /\ driver' \in [Device -> {"idle", "pushing", "pulling"}]
      /\ call' \in [Device -> Request]
      /\ answer' \in [Device -> {"none", "waiting", "ok", "refused"}]
      /\ \A e \in Device : RequestOK(call[e])'
      /\ \A e \in Device : answer'[e] = "ok" => call'[e].rows \subseteq Stored'
    BY FinishedInv DEF Abandoned
<1>2. late' \subseteq late \cup {call[d]}
    BY DEF Abandoned
<1>3. \A q \in late' : RequestOK(q) /\ q \in Request
    BY <1>2 DEF IndInv, RequestsInv, TypeOK
<1>4. \A q \in late' : RequestOK(q)'
    BY <1>3 DEF RequestOK
<1>5. QED
    BY <1>1, <1>3, <1>4 DEF RequestsInv

-----------------------------------------------------------------------------
(* The request that a client builds is well formed: the closure of the     *)
(* unsynced rows lies in the client's own reference rows.                  *)
LEMMA CollectedOK ==
    ASSUME IndInv, NEW d \in Device
    PROVE  Collected(d) \in Request /\ RequestOK(Collected(d))
<1>1. /\ db[d].ledger \subseteq Row /\ db[d].refs \subseteq Ref
      /\ db[d].schema \in Schema
    BY DEF IndInv, TypeOK, Database
<1>2. DatabaseOK(db[d])
    BY DEF IndInv, CopiesInv
<1>3. Unsynced(d) \subseteq db[d].ledger
    BY DEF Unsynced
<1>4. /\ Collected(d).rows = Unsynced(d)
      /\ Collected(d).refs = Closure(Unsynced(d)) \cap db[d].refs
      /\ Collected(d).schema = db[d].schema
    BY DEF Collected
<1>5. Collected(d) \in Request
    BY <1>1, <1>3 DEF Collected, Request
<1>6. \A x \in Collected(d).rows \cup Collected(d).refs :
          Parents[x] \subseteq Collected(d).refs
    <2>1. \A x \in Unsynced(d) \cup Closure(Unsynced(d)) :
              Parents[x] \subseteq Closure(Unsynced(d))
        BY <1>1, <1>3, ClosureClosed
    <2>2. \A x \in db[d].ledger \cup db[d].refs : Parents[x] \subseteq db[d].refs
        BY <1>2 DEF DatabaseOK
    <2>3. QED
        BY <2>1, <2>2, <1>3, <1>4
<1>7. QED
    BY <1>2, <1>3, <1>4, <1>5, <1>6 DEF RequestOK, DatabaseOK

LEMMA StartPushInv ==
    ASSUME IndInv, NEW d \in Device, StartPush(d)
    PROVE  IndInv'
<1>1. CopiesInv' /\ NoColumnDropped' /\ ServerClosed'
    BY Untouched DEF StartPush
<1>2. TypeOK'
    BY CollectedOK DEF IndInv, TypeOK, StartPush, histVars, srvVars
<1>3. RequestsInv'
    <2>1. RequestOK(Collected(d))
        BY CollectedOK
    <2>2. /\ call'[d] = Collected(d) /\ answer'[d] = "waiting"
          /\ \A e \in Device \ {d} : call'[e] = call[e] /\ answer'[e] = answer[e]
          /\ late' = late /\ born' = born /\ minted' = minted /\ stored' = stored
        BY DEF StartPush, IndInv, TypeOK, histVars, srvVars
    <2>3. RequestOK(call[d])'
        BY <2>1, <2>2 DEF RequestOK
    <2>4. \A e \in Device \ {d} : RequestOK(call[e])'
        BY <2>2 DEF RequestOK, IndInv, RequestsInv
    <2>5. QED
        BY <2>2, <2>3, <2>4 DEF RequestOK, RequestsInv, IndInv, Stored
<1>4. QED
    BY <1>1, <1>2, <1>3 DEF IndInv

(* A client stamps the rows of an accepted request only.                   *)
LEMMA StampInv ==
    ASSUME IndInv, NEW d \in Device, Stamp(d)
    PROVE  IndInv'
<1> DEFINE new == call[d].rows \cap db[d].ledger
<1>1. /\ answer[d] = "ok" /\ Finished(d, "pulling")
      /\ db' = [db EXCEPT ![d].synced = @ \cup new]
      /\ UNCHANGED <<born, seq, minted, backup, late, stored, srvRefs,
                     srvSchema, restores>>
    BY DEF Stamp, histVars, srvVars
<1>2. new \subseteq Stored
    BY <1>1 DEF IndInv, RequestsInv
<1>3. db'[d] = [ledger |-> db[d].ledger, synced |-> db[d].synced \cup new,
                refs |-> db[d].refs, schema |-> db[d].schema]
    <2>1. db[d] \in Database /\ db'[d] = [db[d] EXCEPT !.synced = @ \cup new]
        BY <1>1 DEF IndInv, TypeOK
    <2>2. QED
        BY <2>1 DEF Database
<1>4. /\ db'[d].ledger = db[d].ledger /\ db'[d].synced = db[d].synced \cup new
      /\ db'[d].refs = db[d].refs /\ db'[d].schema = db[d].schema
    BY <1>3
<1>5. db' = [db EXCEPT ![d] = db'[d]]
    BY <1>1 DEF IndInv, TypeOK
<1>6. Stored' = Stored
    BY <1>1 DEF Stored
<1>7. TypeOK'
    <2>1. db'[d] \in Database
        BY <1>3 DEF IndInv, TypeOK, Database
    <2>2. db' \in [Device -> Database]
        BY <2>1, <1>5 DEF IndInv, TypeOK
    <2>3. /\ driver' \in [Device -> {"idle", "pushing", "pulling"}]
          /\ call' \in [Device -> Request]
          /\ answer' \in [Device -> {"none", "waiting", "ok", "refused"}]
        BY <1>1, FinishedInv
    <2>4. QED
        BY <1>1, <2>2, <2>3 DEF IndInv, TypeOK
<1>8. CopiesInv'
    <2>1. DatabaseOK(db[d])'
        BY <1>1, <1>2, <1>4, <1>6 DEF IndInv, CopiesInv, DatabaseOK
    <2>2. \A e \in Device \ {d} : db'[e] = db[e]
        BY <1>5 DEF IndInv, TypeOK
    <2>3. \A e \in Device : backup'[e].synced \subseteq db'[e].synced
        BY <1>1, <1>4, <2>2 DEF IndInv, CopiesInv
    <2>4. \A e \in Device \ {d} : DatabaseOK(db[e])'
        BY <1>1, <1>6, <2>2 DEF IndInv, CopiesInv, DatabaseOK
    <2>5. \A e \in Device : DatabaseOK(backup[e])'
        BY <1>1, <1>6 DEF IndInv, CopiesInv, DatabaseOK
    <2>6. QED
        BY <2>1, <2>3, <2>4, <2>5 DEF CopiesInv
<1>9. RequestsInv'
    <2>1. /\ \A e \in Device : RequestOK(call[e])'
          /\ \A e \in Device : answer'[e] = "ok" => call'[e].rows \subseteq Stored'
        BY <1>1, FinishedInv
    <2>2. \A q \in late' : RequestOK(q)'
        BY <1>1 DEF IndInv, RequestsInv, RequestOK
    <2>3. QED
        BY <2>1, <2>2 DEF RequestsInv
<1>10. NoColumnDropped' /\ ServerClosed'
    BY <1>1, <1>6 DEF IndInv, NoColumnDropped, ServerClosed
<1>11. QED
    BY <1>7, <1>8, <1>9, <1>10 DEF IndInv

LEMMA RefusedInv ==
    ASSUME IndInv, NEW d \in Device, Refused(d)
    PROVE  IndInv'
<1>1. CopiesInv' /\ NoColumnDropped' /\ ServerClosed'
    BY Untouched DEF Refused
<1>2. /\ UNCHANGED <<born, seq, minted, db, backup, late, stored, srvRefs,
                     srvSchema, restores>>
      /\ Finished(d, "idle")
    BY DEF Refused, histVars, srvVars
<1>3. /\ driver' \in [Device -> {"idle", "pushing", "pulling"}]
      /\ call' \in [Device -> Request]
      /\ answer' \in [Device -> {"none", "waiting", "ok", "refused"}]
      /\ \A e \in Device : RequestOK(call[e])'
      /\ \A e \in Device : answer'[e] = "ok" => call'[e].rows \subseteq Stored'
    BY <1>2, FinishedInv
<1>4. \A q \in late' : RequestOK(q)'
    BY <1>2 DEF IndInv, RequestsInv, RequestOK
<1>5. QED
    BY <1>1, <1>2, <1>3, <1>4 DEF IndInv, TypeOK, RequestsInv

LEMMA GiveUpInv ==
    ASSUME IndInv, NEW d \in Device, GiveUp(d)
    PROVE  IndInv'
<1>1. CopiesInv' /\ NoColumnDropped' /\ ServerClosed'
    BY Untouched DEF GiveUp
<1>2. /\ UNCHANGED <<born, seq, minted, db, backup, stored, srvRefs,
                     srvSchema, restores>>
      /\ Abandoned(d)
    BY DEF GiveUp, histVars, srvVars
<1>3. QED
    BY <1>1, <1>2, AbandonedInv DEF IndInv, TypeOK

(* A pulled page comes from the server, whose reference rows are minted    *)
(* ones, and is applied only with the parents of its rows.                 *)
LEMMA PullPageInv ==
    ASSUME IndInv, NEW d \in Device, PullPage(d)
    PROVE  IndInv'
<1>1. PICK page \in SUBSET (srvRefs \ db[d].refs) :
          /\ \A f \in page : Enforced[f] \subseteq db[d].refs \cup page
          /\ db' = [db EXCEPT ![d].refs = @ \cup page]
    BY DEF PullPage
<1>2. UNCHANGED <<born, seq, minted, backup, driver, call, answer, late,
                  stored, srvRefs, srvSchema, restores>>
    BY DEF PullPage, histVars, srvVars
<1>3. page \subseteq minted /\ page \subseteq Ref
    BY DEF IndInv, TypeOK
<1>4. db'[d] = [ledger |-> db[d].ledger, synced |-> db[d].synced,
                refs |-> db[d].refs \cup page, schema |-> db[d].schema]
    <2>1. db[d] \in Database /\ db'[d] = [db[d] EXCEPT !.refs = @ \cup page]
        BY <1>1 DEF IndInv, TypeOK
    <2>2. QED
        BY <2>1 DEF Database
<1>5. /\ db'[d].ledger = db[d].ledger /\ db'[d].synced = db[d].synced
      /\ db'[d].refs = db[d].refs \cup page /\ db'[d].schema = db[d].schema
    BY <1>4
<1>6. db' = [db EXCEPT ![d] = db'[d]]
    BY <1>1 DEF IndInv, TypeOK
<1>7. Stored' = Stored
    BY <1>2 DEF Stored
<1>8. TypeOK'
    <2>1. db'[d] \in Database
        BY <1>3, <1>4 DEF IndInv, TypeOK, Database
    <2>2. db' \in [Device -> Database]
        BY <2>1, <1>6 DEF IndInv, TypeOK
    <2>3. QED
        BY <1>2, <2>2 DEF IndInv, TypeOK
<1>9. CopiesInv'
    <2>1. \A x \in db'[d].ledger \cup db'[d].refs : Parents[x] \subseteq db'[d].refs
        <3>1. \A f \in page : Parents[f] \subseteq db[d].refs \cup page
            BY <1>1, <1>3, ForeignKeys
        <3>2. QED
            BY <3>1, <1>5 DEF IndInv, CopiesInv, DatabaseOK
    <2>2. DatabaseOK(db[d])'
        BY <1>2, <1>3, <1>5, <1>7, <2>1 DEF IndInv, CopiesInv, DatabaseOK
    <2>3. \A e \in Device \ {d} : db'[e] = db[e]
        BY <1>6 DEF IndInv, TypeOK
    <2>4. \A e \in Device : backup'[e].synced \subseteq db'[e].synced
        BY <1>2, <1>5, <2>3 DEF IndInv, CopiesInv
    <2>5. \A e \in Device \ {d} : DatabaseOK(db[e])'
        BY <1>2, <1>7, <2>3 DEF IndInv, CopiesInv, DatabaseOK
    <2>6. \A e \in Device : DatabaseOK(backup[e])'
        BY <1>2, <1>7 DEF IndInv, CopiesInv, DatabaseOK
    <2>7. QED
        BY <2>2, <2>4, <2>5, <2>6 DEF CopiesInv
<1>10. RequestsInv'
    BY <1>2, <1>7, RequestsStay
<1>11. NoColumnDropped' /\ ServerClosed'
    BY <1>2, <1>7 DEF IndInv, NoColumnDropped, ServerClosed
<1>12. QED
    BY <1>8, <1>9, <1>10, <1>11 DEF IndInv

LEMMA PullEndsInv ==
    ASSUME IndInv, NEW d \in Device, PullEnds(d)
    PROVE  IndInv'
<1>1. CopiesInv' /\ NoColumnDropped' /\ ServerClosed'
    BY Untouched DEF PullEnds
<1>2. RequestsInv'
    BY RequestsStay DEF PullEnds, histVars, srvVars, Stored
<1>3. TypeOK'
    BY DEF PullEnds, IndInv, TypeOK, histVars, srvVars
<1>4. QED
    BY <1>1, <1>2, <1>3 DEF IndInv

-----------------------------------------------------------------------------
(* A merged request stores its new rows exactly as they were written: they *)
(* are no newer than the version in its header, which is not newer than    *)
(* the server.  Everything known of databases and requests survives.       *)
LEMMA MergeStores ==
    ASSUME IndInv, NEW q \in Request, RequestOK(q), Merge(q)
    PROVE  /\ stored' \in [Row -> 0..MaxSchema]
           /\ \A r \in Row : stored'[r] =
                  IF r \in NewRows(q) THEN born[r] ELSE stored[r]
           /\ Stored' = Stored \cup q.rows
           /\ srvRefs' = srvRefs \cup q.refs
           /\ srvRefs' \subseteq minted
<1>1. q.rows \subseteq Row /\ q.schema \in 1..MaxSchema
    BY DEF Request, Schema
<1>2. /\ q.schema <= srvSchema
      /\ stored' = [r \in Row |-> IF r \in NewRows(q) THEN Projected(r)
                                                      ELSE stored[r]]
      /\ srvRefs' = srvRefs \cup q.refs
    BY DEF Merge, PushSchemaOk
<1>3. \A r \in NewRows(q) : Projected(r) = born[r]
    <2>1. ASSUME NEW r \in NewRows(q) PROVE born[r] <= srvSchema
        <3>1. r \in Row /\ born[r] <= q.schema
            BY <1>1 DEF NewRows, RequestOK
        <3>2. born[r] \in Nat /\ srvSchema \in Nat /\ q.schema \in Nat
            BY <1>1, <3>1, Bounds DEF IndInv, TypeOK, Schema
        <3>3. QED
            BY <1>2, <3>1, <3>2
    <2>2. QED
        BY <2>1 DEF Projected
<1>4. \A r \in NewRows(q) : born[r] \in 0..MaxSchema /\ born[r] # 0
    BY <1>1 DEF NewRows, RequestOK, IndInv, TypeOK
<1>5. stored' \in [Row -> 0..MaxSchema]
    BY <1>2, <1>3, <1>4 DEF IndInv, TypeOK
<1>6. \A r \in Row : stored'[r] = IF r \in NewRows(q) THEN born[r] ELSE stored[r]
    BY <1>2, <1>3
<1>7. Stored' = Stored \cup q.rows
    BY <1>1, <1>4, <1>6 DEF Stored, NewRows
<1>8. srvRefs' \subseteq minted
    BY <1>2 DEF RequestOK, IndInv, TypeOK
<1>9. QED
    BY <1>2, <1>5, <1>6, <1>7, <1>8

LEMMA MergeKeeps ==
    ASSUME IndInv, NEW q \in Request, RequestOK(q), Merge(q)
    PROVE  CopiesInv' /\ NoColumnDropped' /\ ServerClosed'
<1>1. /\ \A r \in Row : stored'[r] =
             IF r \in NewRows(q) THEN born[r] ELSE stored[r]
      /\ Stored' = Stored \cup q.rows
      /\ srvRefs' = srvRefs \cup q.refs
    BY MergeStores
<1>2. UNCHANGED <<born, minted, db, backup>>
    BY DEF Merge, histVars
<1>3. CopiesInv'
    BY <1>1, <1>2 DEF IndInv, CopiesInv, DatabaseOK
<1>4. NoColumnDropped'
    BY <1>1, <1>2 DEF IndInv, NoColumnDropped, Stored
<1>5. ServerClosed'
    BY <1>1 DEF IndInv, ServerClosed, RequestOK
<1>6. QED
    BY <1>3, <1>4, <1>5

LEMMA MergeCallInv ==
    ASSUME IndInv, NEW d \in Device, MergeCall(d)
    PROVE  IndInv'
<1>1. call[d] \in Request /\ RequestOK(call[d]) /\ Merge(call[d])
    BY DEF MergeCall, IndInv, TypeOK, RequestsInv
<1>2. CopiesInv' /\ NoColumnDropped' /\ ServerClosed'
    BY <1>1, MergeKeeps
<1>3. /\ UNCHANGED <<born, seq, minted, db, backup, driver, call, late,
                     srvSchema, restores>>
      /\ answer' = [answer EXCEPT ![d] = "ok"]
    BY DEF MergeCall, Merge, histVars
<1>4. Stored' = Stored \cup call[d].rows
    BY <1>1, MergeStores
<1>5. TypeOK'
    <2>1. stored' \in [Row -> 0..MaxSchema] /\ srvRefs' \in SUBSET minted'
        BY <1>1, <1>3, MergeStores
    <2>2. QED
        BY <1>3, <2>1 DEF IndInv, TypeOK
<1>6. RequestsInv'
    BY <1>3, <1>4 DEF IndInv, TypeOK, RequestsInv, RequestOK
<1>7. QED
    BY <1>2, <1>5, <1>6 DEF IndInv

LEMMA MergeLateInv ==
    ASSUME IndInv, NEW q \in late, MergeLate(q)
    PROVE  IndInv'
<1>1. q \in Request /\ RequestOK(q) /\ Merge(q)
    BY DEF MergeLate, IndInv, TypeOK, RequestsInv
<1>2. CopiesInv' /\ NoColumnDropped' /\ ServerClosed'
    BY <1>1, MergeKeeps
<1>3. /\ UNCHANGED <<born, seq, minted, db, backup, driver, call, answer,
                     srvSchema, restores>>
      /\ late' \subseteq late
    BY DEF MergeLate, Merge, histVars
<1>4. Stored' = Stored \cup q.rows
    BY <1>1, MergeStores
<1>5. TypeOK'
    <2>1. stored' \in [Row -> 0..MaxSchema] /\ srvRefs' \in SUBSET minted'
        BY <1>1, <1>3, MergeStores
    <2>2. QED
        BY <1>3, <2>1 DEF IndInv, TypeOK
<1>6. RequestsInv'
    BY <1>3, <1>4 DEF IndInv, TypeOK, RequestsInv, RequestOK
<1>7. QED
    BY <1>2, <1>5, <1>6 DEF IndInv

LEMMA RefuseCallInv ==
    ASSUME IndInv, NEW d \in Device, RefuseCall(d)
    PROVE  IndInv'
<1>1. CopiesInv' /\ NoColumnDropped' /\ ServerClosed'
    BY Untouched DEF RefuseCall
<1>2. /\ UNCHANGED <<born, seq, minted, db, backup, driver, call, late,
                     stored, srvRefs, srvSchema, restores>>
      /\ answer' = [answer EXCEPT ![d] = "refused"]
    BY DEF RefuseCall, histVars, srvVars
<1>3. TypeOK'
    BY <1>2 DEF IndInv, TypeOK
<1>4. RequestsInv'
    BY <1>2 DEF IndInv, TypeOK, RequestsInv, RequestOK, Stored
<1>5. QED
    BY <1>1, <1>3, <1>4 DEF IndInv

LEMMA DropLateInv ==
    ASSUME IndInv, NEW q \in late, DropLate(q)
    PROVE  IndInv'
<1>1. CopiesInv' /\ NoColumnDropped' /\ ServerClosed'
    BY Untouched DEF DropLate
<1>2. /\ UNCHANGED <<born, seq, minted, db, backup, driver, call, answer,
                     stored, srvRefs, srvSchema, restores>>
      /\ late' \subseteq late
    BY DEF DropLate, histVars, srvVars
<1>3. TypeOK'
    BY <1>2 DEF IndInv, TypeOK
<1>4. RequestsInv'
    BY <1>2 DEF IndInv, TypeOK, RequestsInv, RequestOK, Stored
<1>5. QED
    BY <1>1, <1>3, <1>4 DEF IndInv

-----------------------------------------------------------------------------
(* A reference row created on the server is new and finds its parents      *)
(* there.                                                                  *)
LEMMA CreateOnServerInv ==
    ASSUME IndInv, NEW f \in Ref, CreateOnServer(f)
    PROVE  IndInv'
<1>1. /\ minted' = minted \cup {f} /\ srvRefs' = srvRefs \cup {f}
      /\ Parents[f] \subseteq srvRefs
      /\ UNCHANGED <<born, seq, db, backup, driver, call, answer, late, stored,
                     srvSchema, restores>>
    BY DEF CreateOnServer
<1>2. Stored' = Stored
    BY <1>1 DEF Stored
<1>3. TypeOK'
    BY <1>1 DEF IndInv, TypeOK
<1>4. CopiesInv'
    BY <1>1, <1>2 DEF IndInv, CopiesInv, DatabaseOK
<1>5. RequestsInv'
    BY <1>1, <1>2, RequestsStay
<1>6. NoColumnDropped' /\ ServerClosed'
    BY <1>1, <1>2 DEF IndInv, NoColumnDropped, ServerClosed
<1>7. QED
    BY <1>3, <1>4, <1>5, <1>6 DEF IndInv

(* A newer schema does not make the rows of a database too new for it.     *)
LEMMA UpgradeClientInv ==
    ASSUME IndInv, NEW d \in Device, UpgradeClient(d)
    PROVE  IndInv'
<1>1. /\ db[d].schema < MaxSchema /\ Abandoned(d)
      /\ db' = [db EXCEPT ![d].schema = @ + 1]
      /\ UNCHANGED <<born, seq, minted, backup, stored, srvRefs, srvSchema,
                     restores>>
    BY DEF UpgradeClient, histVars, srvVars
<1>2. db'[d] = [ledger |-> db[d].ledger, synced |-> db[d].synced,
                refs |-> db[d].refs, schema |-> db[d].schema + 1]
    BY <1>1 DEF IndInv, TypeOK, Database
<1>3. /\ db'[d].ledger = db[d].ledger /\ db'[d].synced = db[d].synced
      /\ db'[d].refs = db[d].refs /\ db'[d].schema = db[d].schema + 1
    BY <1>2
<1>4. db' = [db EXCEPT ![d] = db'[d]]
    BY <1>1 DEF IndInv, TypeOK
<1>5. db[d] \in Database /\ db[d].schema \in 1..MaxSchema
    BY DEF IndInv, TypeOK, Database, Schema
<1>6. Stored' = Stored
    BY <1>1 DEF Stored
<1>7. TypeOK'
    <2>1. db'[d].schema \in Schema
        BY <1>1, <1>3, <1>5, Bounds DEF Schema
    <2>2. db'[d] \in Database
        BY <1>2, <1>3, <1>5, <2>1 DEF Database
    <2>3. db' \in [Device -> Database]
        BY <2>2, <1>4 DEF IndInv, TypeOK
    <2>4. QED
        BY <1>1, <2>3, AbandonedInv DEF IndInv, TypeOK
<1>8. CopiesInv'
    <2>1. \A s \in db'[d].ledger : born'[s] # 0 /\ born'[s] <= db'[d].schema
        <3>1. \A s \in db[d].ledger : /\ born[s] # 0 /\ born[s] <= db[d].schema
                                      /\ born[s] \in 0..MaxSchema
            BY <1>5 DEF IndInv, TypeOK, CopiesInv, DatabaseOK, Database
        <3>2. QED
            BY <1>1, <1>3, <1>5, <3>1, Bounds
    <2>2. DatabaseOK(db[d])'
        BY <1>1, <1>3, <1>6, <2>1 DEF IndInv, CopiesInv, DatabaseOK
    <2>3. \A e \in Device \ {d} : db'[e] = db[e]
        BY <1>4 DEF IndInv, TypeOK
    <2>4. \A e \in Device : backup'[e].synced \subseteq db'[e].synced
        BY <1>1, <1>3, <2>3 DEF IndInv, CopiesInv
    <2>5. \A e \in Device \ {d} : DatabaseOK(db[e])'
        BY <1>1, <1>6, <2>3 DEF IndInv, CopiesInv, DatabaseOK
    <2>6. \A e \in Device : DatabaseOK(backup[e])'
        BY <1>1, <1>6 DEF IndInv, CopiesInv, DatabaseOK
    <2>7. QED
        BY <2>2, <2>4, <2>5, <2>6 DEF CopiesInv
<1>9. RequestsInv'
    BY <1>1, AbandonedInv
<1>10. NoColumnDropped' /\ ServerClosed'
    BY <1>1, <1>6 DEF IndInv, NoColumnDropped, ServerClosed
<1>11. QED
    BY <1>7, <1>8, <1>9, <1>10 DEF IndInv

LEMMA UpgradeServerInv ==
    ASSUME IndInv, UpgradeServer
    PROVE  IndInv'
<1>1. /\ srvSchema < MaxSchema /\ srvSchema' = srvSchema + 1
      /\ UNCHANGED <<born, seq, minted, db, backup, driver, call, answer, late,
                     stored, srvRefs, restores>>
    BY DEF UpgradeServer, histVars
<1>2. Stored' = Stored
    BY <1>1 DEF Stored
<1>3. TypeOK'
    BY <1>1, Bounds DEF IndInv, TypeOK, Schema
<1>4. CopiesInv'
    BY <1>1, <1>2 DEF IndInv, CopiesInv, DatabaseOK
<1>5. RequestsInv'
    BY <1>1, <1>2, RequestsStay
<1>6. NoColumnDropped' /\ ServerClosed'
    BY <1>1, <1>2 DEF IndInv, NoColumnDropped, ServerClosed
<1>7. QED
    BY <1>3, <1>4, <1>5, <1>6 DEF IndInv

LEMMA TakeBackupInv ==
    ASSUME IndInv, NEW d \in Device, TakeBackup(d)
    PROVE  IndInv'
<1>1. /\ backup' = [backup EXCEPT ![d] = db[d]]
      /\ UNCHANGED <<born, seq, minted, db, driver, call, answer, late, stored,
                     srvRefs, srvSchema, restores>>
    BY DEF TakeBackup, histVars, srvVars
<1>2. /\ backup'[d] = db[d]
      /\ \A e \in Device \ {d} : backup'[e] = backup[e]
    BY <1>1 DEF IndInv, TypeOK
<1>3. Stored' = Stored
    BY <1>1 DEF Stored
<1>4. TypeOK'
    BY <1>1 DEF IndInv, TypeOK
<1>5. CopiesInv'
    <2>1. \A e \in Device : DatabaseOK(db[e])'
        BY <1>1, <1>3 DEF IndInv, CopiesInv, DatabaseOK
    <2>2. \A e \in Device : DatabaseOK(backup[e])'
        BY <1>1, <1>2, <1>3 DEF IndInv, CopiesInv, DatabaseOK
    <2>3. QED
        BY <1>1, <1>2, <2>1, <2>2 DEF IndInv, CopiesInv
<1>6. RequestsInv'
    BY <1>1, <1>3, RequestsStay
<1>7. NoColumnDropped' /\ ServerClosed'
    BY <1>1, <1>3 DEF IndInv, NoColumnDropped, ServerClosed
<1>8. QED
    BY <1>4, <1>5, <1>6, <1>7 DEF IndInv

(* What was true of the saved copy is true of the database in use after a  *)
(* restore: the server has lost nothing since.                             *)
LEMMA RestoreInv ==
    ASSUME IndInv, NEW d \in Device, Restore(d)
    PROVE  IndInv'
<1>1. /\ restores < MaxRestores /\ restores' = restores + 1 /\ Abandoned(d)
      /\ db' = [db EXCEPT ![d] = backup[d]]
      /\ UNCHANGED <<born, seq, minted, backup, stored, srvRefs, srvSchema>>
    BY DEF Restore, histVars, srvVars
<1>2. /\ db'[d] = backup[d]
      /\ \A e \in Device \ {d} : db'[e] = db[e]
    BY <1>1 DEF IndInv, TypeOK
<1>3. Stored' = Stored
    BY <1>1 DEF Stored
<1>4. TypeOK'
    <2>1. db' \in [Device -> Database]
        BY <1>1 DEF IndInv, TypeOK
    <2>2. restores' \in 0..MaxRestores
        BY <1>1, Bounds DEF IndInv, TypeOK
    <2>3. QED
        BY <1>1, <2>1, <2>2, AbandonedInv DEF IndInv, TypeOK
<1>5. CopiesInv'
    <2>1. \A e \in Device : DatabaseOK(db[e])'
        BY <1>1, <1>2, <1>3 DEF IndInv, CopiesInv, DatabaseOK
    <2>2. \A e \in Device : DatabaseOK(backup[e])'
        BY <1>1, <1>3 DEF IndInv, CopiesInv, DatabaseOK
    <2>3. QED
        BY <1>1, <1>2, <2>1, <2>2 DEF IndInv, CopiesInv
<1>6. RequestsInv'
    BY <1>1, AbandonedInv
<1>7. NoColumnDropped' /\ ServerClosed'
    BY <1>1, <1>3 DEF IndInv, NoColumnDropped, ServerClosed
<1>8. QED
    BY <1>4, <1>5, <1>6, <1>7 DEF IndInv

-----------------------------------------------------------------------------
(* Every step preserves the inductive invariant.                           *)
LEMMA NextInv == IndInv /\ [Next]_vars => IndInv'
<1> SUFFICES ASSUME IndInv, [Next]_vars PROVE IndInv'
    OBVIOUS
<1>1. ASSUME NEW d \in Device, NEW r \in Row, Record(d, r) PROVE IndInv'
    BY <1>1, RecordInv
<1>2. ASSUME NEW d \in Device,
             \/ StartPush(d) \/ Stamp(d) \/ Refused(d) \/ GiveUp(d)
             \/ PullPage(d) \/ PullEnds(d)
      PROVE  IndInv'
    BY <1>2, StartPushInv, StampInv, RefusedInv, GiveUpInv, PullPageInv,
       PullEndsInv
<1>3. ASSUME NEW d \in Device,
             \/ MergeCall(d) \/ RefuseCall(d)
             \/ UpgradeClient(d) \/ TakeBackup(d) \/ Restore(d)
      PROVE  IndInv'
    BY <1>3, MergeCallInv, RefuseCallInv, UpgradeClientInv, TakeBackupInv,
       RestoreInv
<1>4. ASSUME NEW q \in late, MergeLate(q) \/ DropLate(q) PROVE IndInv'
    BY <1>4, MergeLateInv, DropLateInv
<1>5. ASSUME NEW f \in Ref, CreateOnServer(f) PROVE IndInv'
    BY <1>5, CreateOnServerInv
<1>6. CASE UpgradeServer
    BY <1>6, UpgradeServerInv
<1>7. CASE UNCHANGED vars
    <2>1. CopiesInv' /\ NoColumnDropped' /\ ServerClosed'
        BY <1>7, Untouched DEF vars, histVars, srvVars
    <2>2. RequestsInv'
        BY <1>7, RequestsStay DEF vars, Stored
    <2>3. TypeOK'
        BY <1>7 DEF vars, IndInv, TypeOK
    <2>4. QED
        BY <2>1, <2>2, <2>3 DEF IndInv
<1>8. QED
    BY <1>1, <1>2, <1>3, <1>4, <1>5, <1>6, <1>7 DEF Next

(* The inductive invariant holds in every reachable state.                 *)
THEOREM Invariance == Spec => []IndInv
<1>1. QED
    BY InitInv, NextInv, PTL DEF Spec

(* Every variable has its type, for any number of devices and rows.        *)
THEOREM Typed == Spec => []TypeOK
<1>1. IndInv => TypeOK
    BY DEF IndInv
<1>2. QED
    BY Invariance, <1>1, PTL

(* No run of run_sync_once, however it is interrupted, stamps a row that   *)
(* the server does not hold, and no restore brings back such a stamp.      *)
THEOREM NothingStampedTooEarly == Spec => []StampedStored
<1>1. IndInv => StampedStored
    BY DEF IndInv, CopiesInv, DatabaseOK, StampedStored
<1>2. QED
    BY Invariance, <1>1, PTL

(* The gate of push_schema_ok suffices for _ledger_row to keep every       *)
(* column, in any order of upgrades, late requests and restores.           *)
THEOREM SchemaGateSuffices == Spec => []NoColumnDropped
<1>1. IndInv => NoColumnDropped
    BY DEF IndInv
<1>2. QED
    BY Invariance, <1>1, PTL

(* The closure of collect_push_records keeps the central ledger closed     *)
(* under parents, the ones behind bare columns included.                   *)
THEOREM ParentsArrive == Spec => []ServerClosed
<1>1. IndInv => ServerClosed
    BY DEF IndInv
<1>2. QED
    BY Invariance, <1>1, PTL

-----------------------------------------------------------------------------
(* The push protocol implements Delivery.  Acknowledged is the refinement  *)
(* of its variable acked.                                                  *)
Acknowledged == UNION {db[d].synced : d \in Device}

(* A step that changes no ledger on either side is a stutter.              *)
LEMMA StepStutters ==
    ASSUME UNCHANGED <<born, stored, db>>
    PROVE  UNCHANGED Promise!vars
    BY DEF Promise!vars

(* Writing a row locally is a write.                                       *)
LEMMA RecordWrites ==
    ASSUME IndInv, NEW d \in Device, NEW r \in Row, Record(d, r)
    PROVE  Promise!Next
<1>1. /\ born[r] = 0
      /\ born' = [born EXCEPT ![r] = db[d].schema]
      /\ UNCHANGED stored
    BY DEF Record, srvVars
<1>2. born'[r] \in Nat \ {0}
    BY <1>1, Bounds DEF IndInv, TypeOK, Database, Schema
<1>3. \A e \in Device : db'[e].synced = db[e].synced
    BY DEF Record, IndInv, TypeOK, Database
<1>4. Acknowledged' = Acknowledged
    BY <1>3 DEF Acknowledged
<1>5. Promise!Write(r)
    BY <1>1, <1>2, <1>4 DEF Promise!Write, Acknowledged, IndInv, TypeOK
<1>6. QED
    BY <1>5 DEF Promise!Next

(* A merge stores the new rows of its request.                             *)
LEMMA MergeIsStore ==
    ASSUME IndInv, NEW q \in Request, RequestOK(q), Merge(q)
    PROVE  Promise!Next
<1> DEFINE new == NewRows(q)
<1>1. new \in SUBSET Row /\ \A r \in new : born[r] # 0
    BY DEF NewRows, Request, RequestOK
<1>2. stored' = [r \in Row |-> IF r \in new THEN born[r] ELSE stored[r]]
    BY MergeStores
<1>3. UNCHANGED <<born, db>>
    BY DEF Merge, histVars
<1>4. Promise!Store(new)
    BY <1>1, <1>2, <1>3 DEF Promise!Store
<1>5. QED
    BY <1>1, <1>4 DEF Promise!Next

(* Stamping acknowledges the rows of the accepted request.                 *)
LEMMA StampIsAck ==
    ASSUME IndInv, NEW d \in Device, Stamp(d)
    PROVE  Promise!Next
<1> DEFINE new == call[d].rows \cap db[d].ledger
<1>1. /\ answer[d] = "ok"
      /\ db' = [db EXCEPT ![d].synced = @ \cup new]
      /\ UNCHANGED <<born, stored>>
    BY DEF Stamp, histVars, srvVars
<1>2. new \subseteq Stored
    BY <1>1 DEF IndInv, RequestsInv
<1>3. db'[d].synced = db[d].synced \cup new
    BY <1>1 DEF IndInv, TypeOK, Database
<1>4. \A e \in Device \ {d} : db'[e] = db[e]
    BY <1>1 DEF IndInv, TypeOK
<1>5. Acknowledged' = Acknowledged \cup new
    BY <1>3, <1>4 DEF Acknowledged
<1>6. new \in SUBSET Row /\ \A r \in new : stored[r] # 0
    BY <1>2 DEF Stored
<1>7. Promise!Ack(new)
    BY <1>1, <1>5, <1>6 DEF Promise!Ack, Acknowledged
<1>8. QED
    BY <1>6, <1>7 DEF Promise!Next, Promise!Ack

(* Pulling a page and migrating acknowledge nothing.                       *)
LEMMA DatabaseStutters ==
    ASSUME IndInv, NEW d \in Device, PullPage(d) \/ UpgradeClient(d)
    PROVE  UNCHANGED Promise!vars
<1>1. UNCHANGED <<born, stored>>
    BY DEF PullPage, UpgradeClient, histVars, srvVars
<1>2. \A e \in Device : db'[e].synced = db[e].synced
    <2>1. CASE PullPage(d)
        BY <2>1 DEF PullPage, IndInv, TypeOK, Database
    <2>2. CASE UpgradeClient(d)
        BY <2>2 DEF UpgradeClient, IndInv, TypeOK, Database
    <2>3. QED
        BY <2>1, <2>2
<1>3. Acknowledged' = Acknowledged
    BY <1>2 DEF Acknowledged
<1>4. QED
    BY <1>1, <1>3 DEF Promise!vars, Acknowledged

(* A restore can only forget acknowledgements: the copy is older than the  *)
(* database it replaces.                                                   *)
LEMMA RestoreForgets ==
    ASSUME IndInv, NEW d \in Device, Restore(d)
    PROVE  Promise!Next
<1>1. /\ db' = [db EXCEPT ![d] = backup[d]]
      /\ UNCHANGED <<born, stored>>
    BY DEF Restore, histVars, srvVars
<1>2. /\ db'[d] = backup[d]
      /\ \A e \in Device \ {d} : db'[e] = db[e]
    BY <1>1 DEF IndInv, TypeOK
<1>3. \A e \in Device : db'[e].synced \subseteq db[e].synced
    BY <1>2 DEF IndInv, CopiesInv
<1>4. Acknowledged' \subseteq Acknowledged /\ Acknowledged \subseteq Row
    BY <1>3 DEF Acknowledged, IndInv, TypeOK, Database
<1>5. Promise!Forget(Acknowledged \ Acknowledged')
    BY <1>1, <1>4 DEF Promise!Forget, Acknowledged
<1>6. Acknowledged \ Acknowledged' \in SUBSET Row
    BY <1>4
<1>7. QED
    BY <1>5, <1>6 DEF Promise!Next, Promise!Forget

(* Every step of the protocol is a step of Delivery or a stutter.          *)
LEMMA NextDelivers == IndInv /\ [Next]_vars => [Promise!Next]_(Promise!vars)
<1> SUFFICES ASSUME IndInv, [Next]_vars
             PROVE  Promise!Next \/ UNCHANGED Promise!vars
    OBVIOUS
<1>1. ASSUME NEW d \in Device, NEW r \in Row, Record(d, r) PROVE Promise!Next
    BY <1>1, RecordWrites
<1>2. ASSUME NEW d \in Device,
             \/ StartPush(d) \/ Refused(d) \/ GiveUp(d) \/ PullEnds(d)
             \/ RefuseCall(d) \/ TakeBackup(d)
      PROVE  UNCHANGED Promise!vars
    BY <1>2, StepStutters DEF StartPush, Refused, GiveUp, PullEnds, RefuseCall,
       TakeBackup, histVars, srvVars
<1>3. ASSUME NEW d \in Device, PullPage(d) \/ UpgradeClient(d)
      PROVE  UNCHANGED Promise!vars
    BY <1>3, DatabaseStutters
<1>4. ASSUME NEW d \in Device, Stamp(d) \/ Restore(d) PROVE Promise!Next
    BY <1>4, StampIsAck, RestoreForgets
<1>5. ASSUME NEW d \in Device, MergeCall(d) PROVE Promise!Next
    <2>1. call[d] \in Request /\ RequestOK(call[d]) /\ Merge(call[d])
        BY <1>5 DEF MergeCall, IndInv, TypeOK, RequestsInv
    <2>2. QED
        BY <2>1, MergeIsStore
<1>6. ASSUME NEW q \in late, MergeLate(q) PROVE Promise!Next
    <2>1. q \in Request /\ RequestOK(q) /\ Merge(q)
        BY <1>6 DEF MergeLate, IndInv, TypeOK, RequestsInv
    <2>2. QED
        BY <2>1, MergeIsStore
<1>7. ASSUME NEW q \in late, DropLate(q) PROVE UNCHANGED Promise!vars
    BY <1>7, StepStutters DEF DropLate, histVars, srvVars
<1>8. ASSUME NEW f \in Ref, CreateOnServer(f) PROVE UNCHANGED Promise!vars
    BY <1>8, StepStutters DEF CreateOnServer
<1>9. CASE UpgradeServer
    BY <1>9, StepStutters DEF UpgradeServer, histVars
<1>10. CASE UNCHANGED vars
    BY <1>10, StepStutters DEF vars
<1>11. QED
    BY <1>1, <1>2, <1>3, <1>4, <1>5, <1>6, <1>7, <1>8, <1>9, <1>10 DEF Next

(* The push protocol implements Delivery: rows are stored once, exactly as *)
(* written, never change on the server, and are acknowledged only then.    *)
THEOREM PushDelivers == Spec => Delivers
<1>1. Init => Promise!Init
    BY DEF Init, EmptyDatabase, Promise!Init
<1>2. QED
    BY <1>1, NextDelivers, Invariance, PTL DEF Spec, Delivers, Promise!Spec

-----------------------------------------------------------------------------
(* No request breaks a constraint of the server.                           *)

(* A new row takes a number above those of every row of its device and     *)
(* table, because all of them are in the ledger it was computed from.      *)
LEMMA RecordNumbers ==
    ASSUME IndInv, NumbersInv, NEW d \in Device, NEW r \in Row, Record(d, r)
    PROVE  NumbersInv'
<1> SUFFICES ASSUME restores = 0
             PROVE  (/\ \A s \in Written : s \in db[Home[s]].ledger
                     /\ SeqUnique(Written))'
    BY DEF NumbersInv, Record
<1> DEFINE own == {s \in db[d].ledger : Table(s) = Table(r)}
<1>1. /\ born[r] = 0 /\ Home[r] = d
      /\ born' = [born EXCEPT ![r] = db[d].schema]
      /\ db' = [db EXCEPT ![d].ledger = @ \cup {r},
                          ![d].refs = @ \cup (Closure({r}) \ db[d].refs)]
    BY DEF Record
<1>2. PICK n \in 1..MaxSeq : /\ IsNextSeq(n, own)
                             /\ seq' = [seq EXCEPT ![r] = n]
    BY DEF Record
<1>3. Written' \subseteq Written \cup {r}
    BY <1>1 DEF Written, IndInv, TypeOK
<1>4. /\ seq'[r] = n
      /\ \A s \in Written : seq'[s] = seq[s]
    BY <1>1, <1>2 DEF Written, IndInv, TypeOK
<1>5. /\ db'[d].ledger = db[d].ledger \cup {r}
      /\ \A e \in Device \ {d} : db'[e] = db[e]
    BY <1>1 DEF IndInv, TypeOK, Database
<1>6. \A s \in Written : s \in db[Home[s]].ledger
    BY DEF NumbersInv
<1>7. \A s \in Written' : s \in db'[Home[s]].ledger
    <2>1. \A s \in Row : Home[s] \in Device
        BY ForeignKeys
    <2>2. Written \subseteq Row
        BY DEF Written
    <2>3. QED
        BY <1>1, <1>3, <1>5, <1>6, <2>1, <2>2
<1>8. \A s \in Written : (Table(s) = Table(r) /\ Home[s] = d) => seq[s] < n
    BY <1>2, <1>6 DEF IsNextSeq
<1>9. \A s \in Written : seq[s] \in Nat
    BY Bounds DEF Written, IndInv, TypeOK
<1>10. SeqUnique(Written)'
    <2> SUFFICES ASSUME NEW s \in Written', NEW t \in Written',
                        Table(s) = Table(t), Home[s] = Home[t],
                        seq'[s] = seq'[t]
                 PROVE  s = t
        BY DEF SeqUnique, Table
    <2>1. CASE s = r /\ t \in Written
        BY <2>1, <1>1, <1>4, <1>8, <1>9
    <2>2. CASE t = r /\ s \in Written
        BY <2>2, <1>1, <1>4, <1>8, <1>9
    <2>3. CASE s \in Written /\ t \in Written
        BY <2>3, <1>4 DEF NumbersInv, SeqUnique
    <2>4. QED
        BY <1>3, <2>1, <2>2, <2>3
<1>11. QED
    BY <1>7, <1>10

(* Nothing else writes a row or numbers one.                               *)
LEMMA NumbersStay ==
    ASSUME NumbersInv, UNCHANGED <<born, seq, restores>>,
           \A d \in Device : db[d].ledger \subseteq db'[d].ledger
    PROVE  NumbersInv'
<1>1. Written' = Written
    BY DEF Written
<1>2. \A r \in Written : Home[r] \in Device
    BY ForeignKeys DEF Written
<1>3. QED
    BY <1>1, <1>2 DEF NumbersInv, SeqUnique, Table

LEMMA NextNumbers == IndInv /\ NumbersInv /\ [Next]_vars => NumbersInv'
<1> SUFFICES ASSUME IndInv, NumbersInv, [Next]_vars PROVE NumbersInv'
    OBVIOUS
<1>1. ASSUME NEW d \in Device, NEW r \in Row, Record(d, r) PROVE NumbersInv'
    BY <1>1, RecordNumbers
<1>2. ASSUME NEW d \in Device,
             \/ StartPush(d) \/ Refused(d) \/ GiveUp(d) \/ PullEnds(d)
             \/ MergeCall(d) \/ RefuseCall(d) \/ TakeBackup(d)
      PROVE  NumbersInv'
    BY <1>2, NumbersStay DEF StartPush, Refused, GiveUp, PullEnds, MergeCall,
       Merge, RefuseCall, TakeBackup, histVars, srvVars
<1>3. ASSUME NEW d \in Device, Stamp(d) PROVE NumbersInv'
    <2>1. \A e \in Device : db'[e].ledger = db[e].ledger
        BY <1>3 DEF Stamp, IndInv, TypeOK, Database
    <2>2. QED
        BY <1>3, <2>1, NumbersStay DEF Stamp, histVars
<1>4. ASSUME NEW d \in Device, PullPage(d) PROVE NumbersInv'
    <2>1. \A e \in Device : db'[e].ledger = db[e].ledger
        BY <1>4 DEF PullPage, IndInv, TypeOK, Database
    <2>2. QED
        BY <1>4, <2>1, NumbersStay DEF PullPage, histVars
<1>5. ASSUME NEW d \in Device, UpgradeClient(d) PROVE NumbersInv'
    <2>1. \A e \in Device : db'[e].ledger = db[e].ledger
        BY <1>5 DEF UpgradeClient, IndInv, TypeOK, Database
    <2>2. QED
        BY <1>5, <2>1, NumbersStay DEF UpgradeClient, histVars
<1>6. ASSUME NEW d \in Device, Restore(d) PROVE NumbersInv'
    BY <1>6, Bounds DEF Restore, NumbersInv, IndInv, TypeOK
<1>7. ASSUME NEW q \in late, MergeLate(q) \/ DropLate(q) PROVE NumbersInv'
    BY <1>7, NumbersStay DEF MergeLate, Merge, DropLate, histVars
<1>8. ASSUME NEW f \in Ref, CreateOnServer(f) PROVE NumbersInv'
    BY <1>8, NumbersStay DEF CreateOnServer
<1>9. CASE UpgradeServer
    BY <1>9, NumbersStay DEF UpgradeServer, histVars
<1>10. CASE UNCHANGED vars
    BY <1>10, NumbersStay DEF vars
<1>11. QED
    BY <1>1, <1>2, <1>3, <1>4, <1>5, <1>6, <1>7, <1>8, <1>9, <1>10 DEF Next

(* As long as no client was restored, a push is refused only for its       *)
(* schema version, its size or its rate: next_seq and the closure of       *)
(* collect_push_records meet every constraint of the server.               *)
THEOREM PushNeverBreaksConstraints == Spec => []AlwaysMergeable
<1>1. Init => NumbersInv
    BY DEF Init, NumbersInv, Written, SeqUnique
<1>2. IndInv /\ NumbersInv => AlwaysMergeable
    <2> SUFFICES ASSUME IndInv, NumbersInv, restores = 0, NEW q \in Wire
                 PROVE  Mergeable(q)
        BY DEF AlwaysMergeable
    <2>1. q \in Request /\ RequestOK(q)
        BY DEF Wire, IndInv, TypeOK, RequestsInv
    <2>2. ForeignKeysHold(q)
        <3>1. \A x \in q.rows \cup q.refs :
                  Enforced[x] \subseteq Parents[x]
            BY <2>1, ForeignKeys DEF Request
        <3>2. QED
            BY <2>1, <3>1 DEF ForeignKeysHold, NewRows, RequestOK
    <2>3. Stored \subseteq Written
        BY DEF Stored, Written, IndInv, NoColumnDropped
    <2>4. NewRows(q) \subseteq Written
        BY <2>1 DEF NewRows, Written, RequestOK, Request
    <2>5. SeqUnique(Stored \cup NewRows(q))
        BY <2>3, <2>4 DEF NumbersInv, SeqUnique
    <2>6. QED
        BY <2>2, <2>5 DEF Mergeable
<1>3. QED
    BY <1>1, <1>2, NextNumbers, Invariance, PTL DEF Spec
=============================================================================
