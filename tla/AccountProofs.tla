---------------------------- MODULE AccountProofs ----------------------------
(***************************************************************************)
(* Proofs about accounts and what is done with them: who may do what       *)
(* (module Access), for every number of accounts, warehouses and requests  *)
(* served at the same time; what lets an account or a device in (module    *)
(* Credentials), for every life of a token and any number of resets and    *)
(* releases; and what the pages make of what a clerk enters (module        *)
(* Wizard), for any products, batches, warehouses and lengths of a basket. *)
(***************************************************************************)
EXTENDS Access, Credentials, Wizard, FiniteSetTheorems, SequenceTheorems, TLAPS

-----------------------------------------------------------------------------
(* Roles and warehouses *)

(* What is known of a request while an administrator's decisions fall      *)
(* between its steps.  Confined says the same without the second and third *)
(* part, on which the handlers of those kinds rely.                        *)
RequestOK(t) ==
    LET r == request[t]
    IN  /\ r.kind \in Pages \cup {"replace"} => r.actor \in Admin
        /\ r.kind \in Moves => r.actor \in User
        /\ r.kind \in {"setup", "create", "assign", "replace"} => r.user \in User
        /\ r.actor # NoUser => Exists(r.actor)
        /\ r.actor \in Operator =>
              r.scope \subseteq assigned[r.actor] \cup taken[t]

(* What is known of a form that has deleted and not committed: the         *)
(* operator has rows that it deleted and rows that others gave him since;  *)
(* on SQLite it is the only one, and nobody gave him any.                  *)
FormOK(t) ==
    LET r == request[t]
    IN  r.kind = "replace" =>
            /\ assigned[r.user] \subseteq r.seen \cup given[t]
            /\ ~ReadCommitted =>
                  /\ assigned[r.user] \subseteq r.seen
                  /\ \A s \in Thread \ {t} : request[s].kind # "replace"

IInv == TypeOK /\ \A t \in Thread : RequestOK(t) /\ FormOK(t)

(* A thread that is idle has nothing to answer for.                        *)
LEMMA IdleTyped == Idle \in Request
    BY DEF Idle, Request

LEMMA IdleOK ==
    ASSUME NEW t \in Thread, request[t] = Idle
    PROVE  RequestOK(t) /\ FormOK(t)
<1>1. request[t].kind = "idle" /\ request[t].actor = NoUser
    BY DEF Idle
<1>2. /\ "idle" \notin Pages \cup Moves
                          \cup {"setup", "create", "assign", "replace"}
      /\ NoUser \notin Operator
    BY Roles DEF Pages, Moves, Operator
<1>3. QED
    BY <1>1, <1>2 DEF RequestOK, FormOK

(* The forms under way are not disturbed by a request that begins or ends  *)
(* and does not change what operators have.                                *)
LEMMA FormsStay ==
    ASSUME IInv, NEW t \in Thread, NEW q, q.kind # "replace",
           request' = [request EXCEPT ![t] = q], UNCHANGED assigned,
           \A s \in Thread \ {t} : given'[s] = given[s]
    PROVE  \A s \in Thread : FormOK(s)'
<1>1. /\ request'[t] = q
      /\ \A s \in Thread \ {t} : request'[s] = request[s] /\ FormOK(s)
    BY DEF IInv, TypeOK
<1>2. FormOK(t)'
    BY <1>1 DEF FormOK
<1>3. ASSUME NEW s \in Thread \ {t} PROVE FormOK(s)'
    BY <1>1 DEF FormOK
<1>4. QED
    BY <1>2, <1>3

LEMMA InitInv == Init => IInv
<1> SUFFICES ASSUME Init PROVE IInv
    OBVIOUS
<1>1. TypeOK
    BY IdleTyped DEF Init, TypeOK
<1>2. \A t \in Thread : RequestOK(t) /\ FormOK(t)
    BY IdleOK DEF Init
<1>3. QED
    BY <1>1, <1>2 DEF IInv

(* A request that the guard lets in is confined.                           *)
LEMMA AskInv ==
    ASSUME IInv, NEW t \in Thread, NEW u \in User, NEW kind \in Pages \cup Moves,
           NEW v \in User \cup {NoUser}, NEW S \in SUBSET Warehouse,
           kind \in {"create", "assign"} => v \in User,
           Ask(t, u, kind, v, S)
    PROVE  IInv'
<1> DEFINE q == [kind |-> kind, actor |-> u, scope |-> Scope(u), user |-> v,
                 places |-> S, seen |-> {}]
<1>1. /\ request' = [request EXCEPT ![t] = q]
      /\ UNCHANGED <<tables, taken, given>>
    BY DEF Ask, Begins
<1>2. q \in Request
    BY DEF Request, Scope, IInv, TypeOK
<1>3. TypeOK'
    BY <1>1, <1>2 DEF IInv, TypeOK, tables
<1>4. request'[t] = q
    BY <1>1 DEF IInv, TypeOK
<1>5. RequestOK(t)'
    BY <1>1, <1>4, Roles DEF RequestOK, Ask, Admitted, IsOn, Exists, RoleSuffices,
       Pages, Moves, Operator, Scope, tables
<1>6. ASSUME NEW s \in Thread \ {t} PROVE RequestOK(s)'
    BY <1>1 DEF IInv, TypeOK, RequestOK, Exists, tables
<1>7. q.kind # "replace"
    BY DEF Pages, Moves
<1>8. \A s \in Thread : FormOK(s)'
    <2> HIDE DEF q
    <2>1. QED
        BY <1>1, <1>7, FormsStay DEF tables
<1>9. QED
    BY <1>3, <1>5, <1>6, <1>8 DEF IInv

(* The form of the first start has no user behind it.                      *)
LEMMA AskSetupInv ==
    ASSUME IInv, NEW t \in Thread, NEW u \in Admin, AskSetup(t, u)
    PROVE  IInv'
<1> DEFINE q == [Idle EXCEPT !.kind = "setup", !.user = u]
<1>1. /\ request' = [request EXCEPT ![t] = q]
      /\ UNCHANGED <<tables, taken, given>>
    BY DEF AskSetup, Begins
<1>2. /\ q \in Request
      /\ q.kind = "setup" /\ q.actor = NoUser
    BY Roles DEF Request, Idle
<1>3. TypeOK'
    BY <1>1, <1>2 DEF IInv, TypeOK, tables
<1>4. request'[t] = q
    BY <1>1 DEF IInv, TypeOK
<1>5. RequestOK(t)'
    BY <1>2, <1>4, Roles DEF RequestOK, Pages, Moves, Operator
<1>6. ASSUME NEW s \in Thread \ {t} PROVE RequestOK(s)'
    BY <1>1 DEF IInv, TypeOK, RequestOK, Exists, tables
<1>7. \A s \in Thread : FormOK(s)'
    <2> HIDE DEF q
    <2>1. QED
        BY <1>1, <1>2, FormsStay DEF tables
<1>8. QED
    BY <1>3, <1>5, <1>6, <1>7 DEF IInv

(* A handler that ends, and neither removes an account nor takes a         *)
(* warehouse away, disturbs no other request.                              *)
LEMMA EndsInv ==
    ASSUME IInv, NEW t \in Thread, Ends(t), UNCHANGED assigned,
           account' \in [User -> {"none", "on", "off"}],
           closed' \in SUBSET Warehouse, signedIn' \in SUBSET User,
           \A u \in User : Exists(u) => Exists(u)'
    PROVE  IInv'
<1>1. TypeOK'
    BY IdleTyped DEF IInv, TypeOK, Ends
<1>2. RequestOK(t)'
    <2>1. request'[t] = Idle
        BY DEF Ends, IInv, TypeOK
    <2>2. request'[t].kind = "idle" /\ request'[t].actor = NoUser
        BY <2>1 DEF Idle
    <2>3. /\ "idle" \notin Pages \cup Moves
                              \cup {"setup", "create", "assign", "replace"}
          /\ NoUser \notin Operator
        BY Roles DEF Pages, Moves, Operator
    <2>4. QED
        BY <2>2, <2>3 DEF RequestOK
<1>3. ASSUME NEW s \in Thread \ {t} PROVE RequestOK(s)'
    <2>1. /\ request'[s] = request[s] /\ taken'[s] = taken[s]
          /\ request[s].actor \in User \cup {NoUser}
        BY DEF Ends, IInv, TypeOK, Request
    <2>2. RequestOK(s)
        BY DEF IInv
    <2>3. QED
        BY <2>1, <2>2 DEF RequestOK
<1>4. \A s \in Thread : FormOK(s)'
    <2>1. /\ Idle.kind # "replace"
          /\ request' = [request EXCEPT ![t] = Idle]
          /\ \A s \in Thread \ {t} : given'[s] = given[s]
        BY DEF Idle, Ends, IInv, TypeOK
    <2>2. QED
        BY <2>1, FormsStay
<1>5. QED
    BY <1>1, <1>2, <1>3, <1>4 DEF IInv

LEMMA EnrolledKeeps ==
    ASSUME TypeOK, NEW u \in User
    PROVE  /\ Enrolled(u) \in [User -> {"none", "on", "off"}]
           /\ \A v \in User : Exists(v) => Enrolled(u)[v] # "none"
    BY DEF TypeOK, Enrolled, Exists

(* Setup and the pages of the administrators, but for the form with the    *)
(* warehouses of an operator.                                              *)
LEMMA PagesInv ==
    ASSUME IInv, NEW t \in Thread,
           \/ Setup(t) \/ CreateUser(t) \/ DeactivateUser(t)
           \/ ReactivateUser(t) \/ CloseWarehouse(t)
    PROVE  IInv'
<1> DEFINE u == request[t].user
<1>1. request[t] \in Request /\ TypeOK
    BY DEF IInv, TypeOK
<1>2. CASE Setup(t) /\ u \in User
    BY <1>1, <1>2, EnrolledKeeps, EndsInv DEF Setup, TypeOK, Exists
<1>3. CASE CreateUser(t) /\ u \in User
    BY <1>1, <1>3, EnrolledKeeps, EndsInv DEF CreateUser, TypeOK, Exists
<1>4. CASE DeactivateUser(t)
    BY <1>1, <1>4, EndsInv DEF DeactivateUser, TypeOK, Exists
<1>5. CASE ReactivateUser(t)
    BY <1>1, <1>5, EndsInv DEF ReactivateUser, TypeOK, Exists
<1>6. CASE CloseWarehouse(t)
    BY <1>1, <1>6, EndsInv DEF CloseWarehouse, TypeOK, Exists, Request
<1>7. (Setup(t) \/ CreateUser(t)) => u \in User
    BY DEF IInv, RequestOK, Setup, CreateUser
<1>8. QED
    BY <1>2, <1>3, <1>4, <1>5, <1>6, <1>7

(* The DELETE of a form finds everything the operator has; on SQLite no    *)
(* other form is under way.                                                *)
LEMMA DeleteInv ==
    ASSUME IInv, NEW t \in Thread, DeleteUserWarehouses(t)
    PROVE  IInv'
<1> DEFINE r == request[t]
           q == [r EXCEPT !.kind = "replace", !.places = Ticked(r),
                          !.seen = assigned[r.user]]
<1>1. /\ TypeOK /\ r \in Request /\ RequestOK(t)
      /\ r.kind = "assign" /\ r.user \in User /\ WritesAlone(t)
      /\ request' = [request EXCEPT ![t] = q]
      /\ UNCHANGED <<tables, taken, given>>
    BY DEF IInv, TypeOK, RequestOK, DeleteUserWarehouses
<1>2. /\ q \in Request
      /\ q.kind = "replace" /\ q.user = r.user /\ q.actor = r.actor
      /\ q.scope = r.scope /\ q.seen = assigned[r.user]
    BY <1>1 DEF Request, Ticked, TypeOK
<1> HIDE DEF q
<1>3. TypeOK'
    BY <1>1, <1>2 DEF TypeOK, tables
<1>4. /\ request'[t] = q
      /\ \A s \in Thread \ {t} : request'[s] = request[s]
    BY <1>1 DEF TypeOK
<1>5. RequestOK(t)'
    BY <1>1, <1>2, <1>4 DEF RequestOK, Pages, Moves, Exists, tables
<1>6. ASSUME NEW s \in Thread \ {t} PROVE RequestOK(s)'
    BY <1>1, <1>4 DEF IInv, RequestOK, Exists, tables
<1>7. FormOK(t)'
    BY <1>1, <1>2, <1>4 DEF FormOK, WritesAlone, tables
<1>8. ASSUME NEW s \in Thread \ {t} PROVE FormOK(s)'
    <2>1. /\ FormOK(s) /\ request'[s] = request[s]
          /\ UNCHANGED <<assigned, given>>
          /\ request[s].kind = "replace" => ReadCommitted
        BY <1>1, <1>4 DEF IInv, WritesAlone, tables
    <2>2. QED
        BY <2>1 DEF FormOK
<1>9. QED
    BY <1>3, <1>5, <1>6, <1>7, <1>8 DEF IInv

(* What a commit leaves of the requests under way.                         *)
LEMMA RivalsSee ==
    ASSUME IInv, NEW t \in Thread, NEW s \in Thread \ {t},
           request' = [x \in Thread |->
                IF x \in Rivals(t)
                THEN [request[x] EXCEPT !.seen = @ \cap Kept(request[t])]
                ELSE IF x = t THEN Idle ELSE request[x]]
    PROVE  /\ request'[s] \in Request
           /\ request'[s].kind = request[s].kind
           /\ request'[s].actor = request[s].actor
           /\ request'[s].user = request[s].user
           /\ request'[s].scope = request[s].scope
           /\ request'[s].seen = IF s \in Rivals(t)
                                 THEN request[s].seen \cap Kept(request[t])
                                 ELSE request[s].seen
<1>1. request[s] \in Request
    BY DEF IInv, TypeOK
<1>2. CASE s \in Rivals(t)
    BY <1>1, <1>2 DEF Request
<1>3. CASE s \notin Rivals(t)
    BY <1>1, <1>3
<1>4. QED
    BY <1>2, <1>3

(* The warehouses of an operator are replaced.  What it takes from him is  *)
(* noted for every request of his that is under way, what it gives him for *)
(* every other form about him.                                             *)
LEMMA AssignInv ==
    ASSUME IInv, NEW t \in Thread, SetUserWarehouses(t)
    PROVE  IInv'
<1> DEFINE r == request[t]
           u == r.user
           now == Kept(r) \cup r.places
<1>1. /\ TypeOK /\ r \in Request /\ u \in User /\ r.kind = "replace"
      /\ UNCHANGED <<account, closed, signedIn>>
    BY DEF IInv, TypeOK, RequestOK, SetUserWarehouses
<1>2. now \in SUBSET Warehouse /\ r.places \in SUBSET Warehouse
    BY <1>1 DEF Kept, TypeOK, Request
<1>3. CASE Ends(t) /\ UNCHANGED assigned
    BY <1>1, <1>3, EndsInv DEF TypeOK, Exists
<1>4. CASE /\ assigned' = [assigned EXCEPT ![u] = now]
           /\ taken' = [s \in Thread |->
                IF s # t /\ request[s].actor = u
                THEN taken[s] \cup (assigned[u] \ now)
                ELSE IF s = t THEN {} ELSE taken[s]]
           /\ given' = [s \in Thread |->
                IF s \in Rivals(t) THEN given[s] \cup r.places
                ELSE IF s = t THEN {} ELSE given[s]]
           /\ request' = [s \in Thread |->
                IF s \in Rivals(t)
                THEN [request[s] EXCEPT !.seen = @ \cap Kept(r)]
                ELSE IF s = t THEN Idle ELSE request[s]]
    <2>1. t \notin Rivals(t)
        BY DEF Rivals
    <2>2. /\ assigned'[u] = now
          /\ \A v \in User \ {u} : assigned'[v] = assigned[v]
        BY <1>1, <1>4 DEF TypeOK
    <2>3. request'[t] = Idle
        BY <1>4, <2>1
    <2>4. TypeOK'
        <3>1. request' \in [Thread -> Request]
            <4>1. \A s \in Thread : request'[s] \in Request
                BY <1>4, <2>3, RivalsSee, IdleTyped
            <4>2. QED
                BY <1>4, <4>1
        <3>2. /\ assigned' \in [User -> SUBSET Warehouse]
              /\ taken' \in [Thread -> SUBSET Warehouse]
              /\ given' \in [Thread -> SUBSET Warehouse]
            BY <1>1, <1>2, <1>4 DEF TypeOK
        <3>3. QED
            BY <1>1, <3>1, <3>2 DEF TypeOK
    <2>5. RequestOK(t)' /\ FormOK(t)'
        <3>1. request'[t].kind = "idle" /\ request'[t].actor = NoUser
            BY <2>3 DEF Idle
        <3>2. /\ "idle" \notin Pages \cup Moves
                               \cup {"setup", "create", "assign", "replace"}
              /\ NoUser \notin Operator
            BY Roles DEF Pages, Moves, Operator
        <3>3. QED
            BY <3>1, <3>2 DEF RequestOK, FormOK
    <2>6. ASSUME NEW s \in Thread \ {t} PROVE RequestOK(s)'
        <3>1. /\ request'[s].kind = request[s].kind
              /\ request'[s].actor = request[s].actor
              /\ request'[s].user = request[s].user
              /\ request'[s].scope = request[s].scope
              /\ RequestOK(s)
            BY <1>4, RivalsSee DEF IInv
        <3>2. \A v \in User : Exists(v)' <=> Exists(v)
            BY <1>1 DEF Exists
        <3>3. request[s].actor \in User \cup {NoUser}
            BY <1>1 DEF TypeOK, Request
        <3>4. request[s].actor \in Operator =>
                 request[s].scope \subseteq assigned'[request[s].actor] \cup taken'[s]
            <4>1. CASE request[s].actor = u
                BY <1>4, <2>2, <3>1, <4>1 DEF RequestOK
            <4>2. CASE request[s].actor # u
                BY <1>4, <2>2, <3>1, <3>3, <4>2 DEF RequestOK, Operator
            <4>3. QED
                BY <4>1, <4>2
        <3>5. QED
            BY <3>1, <3>2, <3>3, <3>4, Roles DEF RequestOK
    <2>7. ASSUME NEW s \in Thread \ {t}, request[s].kind = "replace"
          PROVE  FormOK(s)'
        <3>1. ReadCommitted
            BY <1>1, <2>7 DEF IInv, FormOK
        <3>2. /\ assigned[request[s].user] \subseteq request[s].seen \cup given[s]
              /\ request[s].user \in User
              /\ request'[s].user = request[s].user
            BY <1>4, <2>7, RivalsSee DEF IInv, FormOK, RequestOK
        <3>3. CASE request[s].user = u
            <4>1. s \in Rivals(t)
                BY <2>7, <3>3 DEF Rivals
            <4>2. /\ request'[s].seen = request[s].seen \cap Kept(r)
                  /\ given'[s] = given[s] \cup r.places
                BY <1>4, <4>1, RivalsSee
            <4>3. Kept(r) \subseteq assigned[u]
                BY DEF Kept
            <4>4. assigned'[u] \subseteq request'[s].seen \cup given'[s]
                BY <2>2, <3>2, <3>3, <4>2, <4>3
            <4>5. QED
                BY <3>1, <3>2, <3>3, <4>4 DEF FormOK
        <3>4. CASE request[s].user # u
            <4>1. s \notin Rivals(t)
                BY <3>4 DEF Rivals
            <4>2. request'[s].seen = request[s].seen /\ given'[s] = given[s]
                BY <1>4, <4>1, RivalsSee
            <4>3. QED
                BY <2>2, <3>1, <3>2, <3>4, <4>2 DEF FormOK
        <3>5. QED
            BY <3>3, <3>4
    <2>8. ASSUME NEW s \in Thread \ {t}, request[s].kind # "replace"
          PROVE  FormOK(s)'
        BY <1>4, <2>8, RivalsSee DEF FormOK
    <2>9. QED
        BY <2>4, <2>5, <2>6, <2>7, <2>8 DEF IInv
<1>5. QED
    BY <1>3, <1>4 DEF SetUserWarehouses

LEMMA MoveInv ==
    ASSUME IInv, NEW t \in Thread,
           \/ \E w \in Warehouse : Move(t, w)
           \/ \E v, w \in Warehouse : Transfer(t, v, w)
           \/ Refuse(t) \/ RefuseForm(t)
    PROVE  IInv'
<1>1. Ends(t) /\ UNCHANGED tables
    BY DEF Move, Transfer, Refuse, RefuseForm
<1>2. QED
    BY <1>1, EndsInv DEF tables, IInv, TypeOK, Exists

LEMMA SessionInv ==
    ASSUME IInv, NEW u \in User, SignIn(u) \/ SignOut(u)
    PROVE  IInv'
<1>1. /\ signedIn' \in SUBSET User
      /\ UNCHANGED <<account, assigned, closed, request, taken, given>>
    BY DEF SignIn, SignOut, IInv, TypeOK
<1>2. QED
    BY <1>1 DEF IInv, TypeOK, RequestOK, FormOK, Exists

LEMMA StutterInv == IInv /\ UNCHANGED vars => IInv'
    BY DEF vars, IInv, TypeOK, RequestOK, FormOK, Exists

LEMMA NextInv == IInv /\ [Next]_vars => IInv'
<1> SUFFICES ASSUME IInv, [Next]_vars PROVE IInv'
    OBVIOUS
<1>1. ASSUME NEW u \in User, SignIn(u) \/ SignOut(u) PROVE IInv'
    BY <1>1, SessionInv
<1>2. ASSUME NEW t \in Thread, NEW u \in Admin, AskSetup(t, u) PROVE IInv'
    BY <1>2, AskSetupInv
<1>3. ASSUME NEW t \in Thread, NEW u \in User, NEW v \in User,
             NEW kind \in {"create", "deactivate", "reactivate"},
             Ask(t, u, kind, v, {})
      PROVE  IInv'
    BY <1>3, AskInv DEF Pages
<1>4. ASSUME NEW t \in Thread, NEW u \in User, NEW v \in User,
             NEW S \in SUBSET Warehouse, Ask(t, u, "assign", v, S)
      PROVE  IInv'
    BY <1>4, AskInv DEF Pages
<1>5. ASSUME NEW t \in Thread, NEW u \in User,
             NEW S \in SUBSET Warehouse,
             NEW kind \in {"move", "close", "transfer"},
             Ask(t, u, kind, NoUser, S)
      PROVE  IInv'
    BY <1>5, AskInv DEF Pages, Moves
<1>6. ASSUME NEW t \in Thread,
             \/ Setup(t) \/ CreateUser(t) \/ DeactivateUser(t)
             \/ ReactivateUser(t) \/ CloseWarehouse(t)
      PROVE  IInv'
    BY <1>6, PagesInv
<1>7. ASSUME NEW t \in Thread, DeleteUserWarehouses(t) \/ SetUserWarehouses(t)
      PROVE  IInv'
    BY <1>7, DeleteInv, AssignInv
<1>8. ASSUME NEW t \in Thread,
             \/ \E w \in Warehouse : Move(t, w)
             \/ \E v, w \in Warehouse : Transfer(t, v, w)
             \/ Refuse(t) \/ RefuseForm(t)
      PROVE  IInv'
    BY <1>8, MoveInv
<1>9. CASE UNCHANGED vars
    BY <1>9, StutterInv
<1>10. QED
    BY <1>1, <1>2, <1>3, <1>4, <1>5, <1>6, <1>7, <1>8, <1>9 DEF Next

LEMMA Invariance == Spec => []IInv
    BY InitInv, NextInv, PTL DEF Spec

-----------------------------------------------------------------------------
(* The guard confines every request, whatever the administrators decide    *)
(* while it is served: auth_guard, require_role and                        *)
(* resolve_allowed_warehouses, for any number of threads and accounts.     *)
THEOREM EveryRequestConfined == Spec => []Confined
<1>1. IInv => Confined
    BY DEF IInv, RequestOK, Confined
<1>2. QED
    BY Invariance, <1>1, PTL

(* No goods leave a warehouse by the hand of an operator who does not hold *)
(* it, nor held it when his request was already under way: what            *)
(* warehouse_allowed compares with is what the guard found.                *)
THEOREM GoodsLeaveOwnWarehouses == Spec => OwnGoods
<1> DEFINE Own == \A t \in Thread, w \in Warehouse :
                    (Move(t, w) \/ \E v \in Warehouse : Transfer(t, w, v))
                       => LET u == request[t].actor
                          IN  u \in Admin \/ w \in assigned[u] \cup taken[t]
<1>1. IInv /\ [Next]_vars => [Own]_vars
    <2> SUFFICES ASSUME IInv, NEW t \in Thread, NEW w \in Warehouse,
                        Move(t, w) \/ \E v \in Warehouse : Transfer(t, w, v)
                 PROVE  \/ request[t].actor \in Admin
                        \/ w \in assigned[request[t].actor] \cup taken[t]
        BY DEF Own
    <2>1. request[t].kind \in Moves /\ w \in request[t].scope
        BY DEF Move, Transfer, Allowed, Moves
    <2>2. RequestOK(t)
        BY DEF IInv
    <2>3. QED
        BY <2>1, <2>2 DEF RequestOK, Operator
<1>2. QED
    BY Invariance, <1>1, PTL DEF Spec, OwnGoods

(* Switching an account off is the only step that leaves fewer of them on. *)
(* The handlers that write an account or an assignment.                    *)
LEMMA Writers ==
    ASSUME [Next]_vars, ~UNCHANGED <<account, assigned>>
    PROVE  \E t \in Thread :
              \/ Setup(t) \/ CreateUser(t) \/ ReactivateUser(t)
              \/ DeactivateUser(t) \/ SetUserWarehouses(t)
<1>1. ASSUME NEW u \in User, SignIn(u) \/ SignOut(u) PROVE FALSE
    BY <1>1 DEF SignIn, SignOut
<1>2. ASSUME NEW t \in Thread, NEW r, Begins(t, r) PROVE FALSE
    BY <1>2 DEF Begins, tables
<1>3. ASSUME NEW t \in Thread, NEW u, AskSetup(t, u) PROVE FALSE
    BY <1>2, <1>3 DEF AskSetup
<1>4. ASSUME NEW t \in Thread, NEW u, NEW kind, NEW v, NEW S,
             Ask(t, u, kind, v, S)
      PROVE  FALSE
    BY <1>2, <1>4 DEF Ask
<1>5. ASSUME NEW t \in Thread,
             \/ CloseWarehouse(t) \/ Refuse(t)
             \/ RefuseForm(t) \/ DeleteUserWarehouses(t)
      PROVE  FALSE
    BY <1>5 DEF CloseWarehouse, Refuse, RefuseForm, DeleteUserWarehouses, tables
<1>6. ASSUME NEW t \in Thread, NEW v, NEW w, Move(t, w) \/ Transfer(t, v, w)
      PROVE  FALSE
    BY <1>6 DEF Move, Transfer, tables
<1>7. Next
    BY DEF vars
<1>8. QED
    BY <1>1, <1>3, <1>4, <1>5, <1>6, <1>7 DEF Next

LEMMA OnlyDeactivates ==
    ASSUME IInv, [Next]_vars, NEW u \in User, IsOn(u), ~IsOn(u)'
    PROVE  \E t \in Thread : DeactivateUser(t) /\ request[t].user = u
<1>1. account'[u] # account[u]
    BY DEF IsOn
<1>2. ASSUME NEW t \in Thread, Setup(t) \/ CreateUser(t) PROVE FALSE
    BY <1>1, <1>2 DEF Setup, CreateUser, Enrolled, IsOn, Exists, IInv, TypeOK
<1>3. ASSUME NEW t \in Thread, ReactivateUser(t) PROVE FALSE
    BY <1>1, <1>3 DEF ReactivateUser, IsOn, IInv, TypeOK
<1>4. ASSUME NEW t \in Thread, DeactivateUser(t)
      PROVE  request[t].user = u
    BY <1>1, <1>4 DEF DeactivateUser, IInv, TypeOK
<1>5. CASE \E t \in Thread : DeactivateUser(t)
    BY <1>4, <1>5
<1>6. ASSUME NEW t \in Thread, SetUserWarehouses(t) PROVE FALSE
    BY <1>1, <1>6 DEF SetUserWarehouses
<1>7. QED
    BY <1>1, <1>2, <1>3, <1>5, <1>6, Writers

(* However many administrators switch each other off at the same time,     *)
(* none of them switches himself off: the one who takes the last of them   *)
(* away has been switched off before (deactivate_user).                    *)
THEOREM NobodyLocksHimselfOut == Spec => NoSelfLockout
<1> DEFINE By == (\E u \in Admin : IsOn(u)) /\ ~(\E u \in Admin : IsOn(u)')
                   => \E t \in Thread : /\ request[t].kind = "deactivate"
                                        /\ request'[t] = Idle
                                        /\ ~IsOn(request[t].actor)
<1>1. IInv /\ [Next]_vars => [By]_vars
    <2> SUFFICES ASSUME IInv, [Next]_vars, NEW u \in Admin, IsOn(u),
                        \A v \in Admin : ~IsOn(v)'
                 PROVE  \E t \in Thread : /\ request[t].kind = "deactivate"
                                          /\ request'[t] = Idle
                                          /\ ~IsOn(request[t].actor)
        OBVIOUS
    <2>1. PICK t \in Thread : DeactivateUser(t) /\ request[t].user = u
        BY OnlyDeactivates, Roles
    <2>2. /\ request[t].kind = "deactivate"
          /\ request'[t] = Idle
          /\ request[t].actor \in Admin
        BY <2>1 DEF DeactivateUser, Ends, IInv, TypeOK, RequestOK, Pages
    <2>3. account'[u] # account[u]
        BY DEF IsOn
    <2>4. request[t].actor # u
        BY <2>1, <2>3 DEF DeactivateUser, NotOneself
    <2>5. account'[request[t].actor] = account[request[t].actor]
        BY <2>1, <2>2, <2>4, Roles DEF DeactivateUser, IInv, TypeOK
    <2>6. ~IsOn(request[t].actor)
        BY <2>2, <2>5 DEF IsOn
    <2>7. QED
        BY <2>2, <2>6
<1>2. QED
    BY Invariance, <1>1, PTL DEF Spec, NoSelfLockout

(* However many forms are sent at the same time, on SQLite an operator     *)
(* ends with exactly the warehouses ticked in one of them, and on the      *)
(* central server with those and what others gave him between the DELETE   *)
(* and the commit (set_user_warehouses).                                   *)
THEOREM WarehousesOfOneForm == Spec => OneForm
<1> DEFINE FromForm == \A u \in User :
          assigned'[u] # assigned[u] =>
             \E t \in Thread :
                LET r == request[t]
                IN  /\ r.kind = "replace"
                    /\ r.user = u
                    /\ request'[t] = Idle
                    /\ r.places \subseteq assigned'[u]
                    /\ assigned'[u] \ r.places
                          \subseteq (IF ReadCommitted THEN given[t] ELSE {})
<1>1. IInv /\ [Next]_vars => [FromForm]_vars
    <2> SUFFICES ASSUME IInv, [Next]_vars PROVE FromForm
        OBVIOUS
    <2> SUFFICES ASSUME NEW u \in User, assigned'[u] # assigned[u]
                 PROVE  \E t \in Thread :
                            LET r == request[t]
                            IN  /\ r.kind = "replace"
                                /\ r.user = u
                                /\ request'[t] = Idle
                                /\ r.places \subseteq assigned'[u]
                                /\ assigned'[u] \ r.places \subseteq
                                      (IF ReadCommitted THEN given[t] ELSE {})
        OBVIOUS
    <2>1. PICK t \in Thread : SetUserWarehouses(t)
        <3>1. ASSUME NEW s \in Thread,
                     \/ Setup(s) \/ CreateUser(s)
                     \/ ReactivateUser(s) \/ DeactivateUser(s)
              PROVE  FALSE
            BY <3>1 DEF Setup, CreateUser, ReactivateUser, DeactivateUser
        <3>2. QED
            BY <3>1, Writers
    <2>2. /\ request[t].kind = "replace"
          /\ request[t].user = u
          /\ request'[t] = Idle
          /\ assigned'[u] = Kept(request[t]) \cup request[t].places
        BY <2>1 DEF SetUserWarehouses, Rivals, IInv, TypeOK
    <2>3. FormOK(t)
        BY DEF IInv
    <2>4. Kept(request[t]) \subseteq IF ReadCommitted THEN given[t] ELSE {}
        BY <2>2, <2>3 DEF FormOK, Kept
    <2>5. QED
        BY <2>2, <2>4
<1>2. QED
    BY Invariance, <1>1, PTL DEF Spec, OneForm

-----------------------------------------------------------------------------
(* Passwords, tickets and tokens *)

Logins == {"login", "offline-login"}

(* Once the account is off, its latest token is at least as old as that    *)
(* decision; a login that saw the account on began before it, and time     *)
(* stands still while it is under way.                                     *)
AgeInv ==
    ~active =>
        /\ offAge <= ticket
        /\ \A t \in Worker : call[t].kind \in Logins /\ call[t].on
                                => offAge = 0

CredentialsInv == CredentialsTypeOK /\ AgeInv

(* The constants are numbers.                                              *)
LEMMA Numbers ==
    /\ MaxSecret \in Nat /\ MaxSecret >= 1
    /\ TokenTTL \in Nat
    /\ MaxRenewals \in Nat
    BY Bounds

(* A thread without a request has a record of its own kind.                *)
LEMMA NoCallTyped == NoCall \in Call /\ NoCall.kind = "idle"
    BY DEF NoCall, Call

(* What the record of a login holds.                                       *)
LEMMA LoginTyped ==
    ASSUME CredentialsTypeOK, NEW t \in Worker, call[t].kind \in Logins
    PROVE  /\ call[t].typed \in 1..MaxSecret
           /\ call[t].read \in Hash
           /\ call[t].on \in BOOLEAN
    BY DEF CredentialsTypeOK, Call, Logins

LEMMA CredentialsInitInv == CredentialsInit => CredentialsInv
<1> SUFFICES ASSUME CredentialsInit PROVE CredentialsInv
    OBVIOUS
<1>1. CredentialsTypeOK
    <2>1. /\ password \in Hash
          /\ ticket \in 0..TokenTTL + 1 /\ offAge \in 0..TokenTTL + 1
          /\ renewals \in 0..MaxRenewals
        BY Numbers DEF CredentialsInit, Hash
    <2>2. call \in [Worker -> Call]
        BY NoCallTyped DEF CredentialsInit
    <2>3. QED
        BY <2>1, <2>2 DEF CredentialsInit, CredentialsTypeOK
<1>2. QED
    BY <1>1 DEF CredentialsInit, CredentialsInv, AgeInv

LEMMA OlderTyped ==
    ASSUME NEW a \in 0..TokenTTL + 1
    PROVE  /\ Older(a) \in 0..TokenTTL + 1
           /\ \A b \in 0..TokenTTL + 1 : a <= b => Older(a) <= Older(b)
    BY Numbers DEF Older

LEMMA NextTyped == CredentialsTypeOK /\ [CredentialsNext]_credentialsVars => CredentialsTypeOK'
<1> SUFFICES ASSUME CredentialsTypeOK, [CredentialsNext]_credentialsVars PROVE CredentialsTypeOK'
    OBVIOUS
<1> USE DEF accountVars
<1>1. ASSUME NEW t \in Worker, NEW kind \in Logins, NEW typed \in 1..MaxSecret,
             AskLogin(t, kind, typed)
      PROVE  CredentialsTypeOK'
    <2>1. PICK q : q = [kind |-> kind, typed |-> typed, read |-> password,
                        on |-> active]
        OBVIOUS
    <2>2. q \in Call
        BY <2>1 DEF CredentialsTypeOK, Call, Logins
    <2>3. call' = [call EXCEPT ![t] = q]
        BY <1>1, <2>1 DEF AskLogin, Enters
    <2>4. QED
        BY <1>1, <2>2, <2>3 DEF CredentialsTypeOK, AskLogin
<1>2. ASSUME NEW t \in Worker, Login(t) PROVE CredentialsTypeOK'
    <2>1. call[t].typed \in 1..MaxSecret
        BY <1>2, LoginTyped DEF Login, Logins
    <2>2. password' \in Hash
        BY <1>2, <2>1 DEF Login, Hash, CredentialsTypeOK
    <2>3. call' \in [Worker -> Call]
        BY <1>2, NoCallTyped DEF Login, Leaves, CredentialsTypeOK
    <2>4. session' \in BOOLEAN
        BY <1>2, Zenon DEF Login
    <2>5. ticket' \in 0..TokenTTL + 1
        BY <1>2, Numbers DEF Login, CredentialsTypeOK
    <2>6. QED
        BY <1>2, <2>2, <2>3, <2>4, <2>5 DEF Login, CredentialsTypeOK
<1>3. ASSUME NEW t \in Worker, AskUpload(t) \/ AskSync(t) PROVE CredentialsTypeOK'
    <2>1. call' \in [Worker -> Call]
        BY <1>3 DEF CredentialsTypeOK, AskUpload, AskSync, Enters, Call
    <2>2. QED
        BY <1>3, <2>1 DEF CredentialsTypeOK, AskUpload, AskSync
<1>4. ASSUME NEW t \in Worker, Upload(t) \/ Sync(t) PROVE CredentialsTypeOK'
    <2>1. call' \in [Worker -> Call]
        BY <1>4, NoCallTyped DEF CredentialsTypeOK, Upload, Sync, Leaves
    <2>2. QED
        BY <1>4, <2>1 DEF CredentialsTypeOK, Upload, Sync, StatusAfterTouch
<1>5. CASE DropSession \/ MintToken \/ RevokeToken
    <2>1. /\ session' \in BOOLEAN \/ session' = session
          /\ device' \in {"none", "active", "revoked"} \/ device' = device
          /\ UNCHANGED <<active, password, ticket, offAge, call, renewals>>
        BY <1>5 DEF DropSession, MintToken, RevokeToken, accountVars
    <2>2. QED
        BY <2>1 DEF CredentialsTypeOK
<1>6. CASE deactivate_user \/ reactivate_user
    <2>1. 0 \in 0..TokenTTL + 1
        BY Numbers
    <2>2. active' \in BOOLEAN /\ offAge' = 0
        BY <1>6, Zenon DEF deactivate_user, reactivate_user
    <2>3. UNCHANGED <<password, session, ticket, device, call, renewals>>
        BY <1>6 DEF deactivate_user, reactivate_user
    <2>4. QED
        BY <2>1, <2>2, <2>3 DEF CredentialsTypeOK
<1>7. CASE reset_password
    <2>1. password' \in Hash
        BY <1>7, Numbers DEF CredentialsTypeOK, reset_password, Hash
    <2>2. QED
        BY <1>7, <2>1 DEF CredentialsTypeOK, reset_password
<1>8. CASE StrongerParameters
    <2>1. /\ password' \in Hash
          /\ renewals' \in 0..MaxRenewals
        <3>1. password' \in Hash
            BY <1>8 DEF CredentialsTypeOK, StrongerParameters, Hash
        <3>2. renewals' \in 0..MaxRenewals
            BY <1>8, Numbers DEF CredentialsTypeOK, StrongerParameters
        <3>3. QED
            BY <3>1, <3>2
    <2>2. call' \in [Worker -> Call]
        BY <1>8, NoCallTyped DEF StrongerParameters
    <2>3. QED
        BY <1>8, <2>1, <2>2 DEF CredentialsTypeOK, StrongerParameters
<1>9. CASE Pass
    <2>1. ticket' \in 0..TokenTTL + 1 /\ offAge' \in 0..TokenTTL + 1
        BY <1>9, OlderTyped, Numbers DEF CredentialsTypeOK, Pass
    <2>2. active => offAge' = 0
        BY <1>9 DEF Pass
    <2>3. QED
        BY <1>9, <2>1, <2>2 DEF CredentialsTypeOK, Pass
<1>10. CASE UNCHANGED credentialsVars
    BY <1>10 DEF CredentialsTypeOK, credentialsVars
<1>11. QED
    BY <1>1, <1>2, <1>3, <1>4, <1>5, <1>6, <1>7, <1>8, <1>9, <1>10
    DEF CredentialsNext, Logins

LEMMA NextAge == CredentialsInv /\ [CredentialsNext]_credentialsVars => AgeInv'
<1> SUFFICES ASSUME CredentialsTypeOK, AgeInv, [CredentialsNext]_credentialsVars, ~active'
             PROVE  AgeInv'
    BY DEF CredentialsInv, AgeInv
<1> USE DEF accountVars
<1>1. ASSUME NEW t \in Worker, NEW kind \in Logins, NEW typed \in 1..MaxSecret,
             AskLogin(t, kind, typed)
      PROVE  AgeInv'
    <2>1. /\ ~active /\ UNCHANGED <<active, offAge, ticket>>
          /\ call'[t].on = active
          /\ \A s \in Worker \ {t} : call'[s] = call[s]
        BY <1>1 DEF AskLogin, Enters, CredentialsTypeOK
    <2>2. QED
        BY <2>1 DEF AgeInv
<1>2. ASSUME NEW t \in Worker, Login(t) PROVE AgeInv'
    <2>1. /\ ~active /\ UNCHANGED <<active, offAge>>
          /\ call'[t] = NoCall
          /\ \A s \in Worker \ {t} : call'[s] = call[s]
        BY <1>2 DEF Login, Leaves, CredentialsTypeOK
    <2>2. \A s \in Worker : call'[s].kind \in Logins /\ call'[s].on
                               => offAge = 0
        BY <2>1, NoCallTyped DEF AgeInv, Logins
    <2>3. offAge <= ticket'
        <3>1. CASE ticket' = ticket
            BY <2>1, <3>1 DEF AgeInv
        <3>2. CASE SeenActive(call[t]) /\ ticket' = 0
            <4>1. call[t].kind \in Logins /\ call[t].on
                BY <1>2, <2>1, <3>2, Zenon DEF Login, SeenActive, Logins
            <4>2. QED
                BY <2>1, <3>2, <4>1 DEF AgeInv
        <3>3. QED
            BY <1>2, <3>1, <3>2, Zenon DEF Login
    <2>4. QED
        BY <2>1, <2>2, <2>3 DEF AgeInv
<1>3. ASSUME NEW t \in Worker, AskUpload(t) \/ AskSync(t) PROVE AgeInv'
    <2>1. /\ ~active /\ UNCHANGED <<active, offAge, ticket>>
          /\ call'[t].kind \in {"upload", "sync"}
          /\ \A s \in Worker \ {t} : call'[s] = call[s]
        BY <1>3 DEF AskUpload, AskSync, Enters, CredentialsTypeOK
    <2>2. QED
        BY <2>1 DEF AgeInv, Logins
<1>4. ASSUME NEW t \in Worker, Upload(t) \/ Sync(t) PROVE AgeInv'
    <2>1. /\ ~active /\ UNCHANGED <<active, offAge, ticket>>
          /\ call'[t] = NoCall
          /\ \A s \in Worker \ {t} : call'[s] = call[s]
        BY <1>4 DEF Upload, Sync, Leaves, CredentialsTypeOK
    <2>2. QED
        BY <2>1, NoCallTyped DEF AgeInv, Logins
<1>5. CASE \/ DropSession \/ MintToken \/ RevokeToken \/ reset_password
           \/ UNCHANGED credentialsVars
    BY <1>5 DEF AgeInv, DropSession, MintToken, RevokeToken, reset_password, credentialsVars
<1>6. CASE deactivate_user \/ reactivate_user
    BY <1>6, Numbers DEF AgeInv, CredentialsTypeOK, deactivate_user, reactivate_user
<1>7. CASE StrongerParameters
    BY <1>7, NoCallTyped DEF AgeInv, StrongerParameters, Logins
<1>8. CASE Pass
    <2>1. /\ ~active /\ UNCHANGED <<active, call>>
          /\ ticket' = Older(ticket) /\ offAge' = Older(offAge)
          /\ \A t \in Worker : call[t] = NoCall
        BY <1>8 DEF Pass
    <2>2. offAge' <= ticket'
        BY <2>1, OlderTyped DEF AgeInv, CredentialsTypeOK
    <2>3. QED
        BY <2>1, <2>2, NoCallTyped DEF AgeInv, Logins
<1>9. QED
    BY <1>1, <1>2, <1>3, <1>4, <1>5, <1>6, <1>7, <1>8 DEF CredentialsNext, Logins

LEMMA CredentialsInvariance == CredentialsSpec => []CredentialsInv
<1>1. CredentialsInv /\ [CredentialsNext]_credentialsVars => CredentialsInv'
    BY NextTyped, NextAge DEF CredentialsInv
<1>2. QED
    BY CredentialsInitInv, <1>1, PTL DEF CredentialsSpec

-----------------------------------------------------------------------------
(* Whatever logins and rehashes fall beside the decision, an account that  *)
(* was switched off uploads for the life of one token and no longer        *)
(* (OFFLINE_TOKEN_TTL, D-03).                                              *)
THEOREM UploadsAreCutOff == CredentialsSpec => CutOff
<1> DEFINE A == (\E t \in Worker : AskUpload(t)) => active \/ offAge <= TokenTTL
<1>1. CredentialsInv => (A \/ UNCHANGED credentialsVars)
    <2> SUFFICES ASSUME CredentialsInv, NEW t \in Worker, AskUpload(t), ~active
                 PROVE  offAge <= TokenTTL
        OBVIOUS
    <2>1. offAge <= ticket /\ ticket <= TokenTTL
        BY DEF CredentialsInv, AgeInv, AskUpload
    <2>2. QED
        BY <2>1, Numbers DEF CredentialsInv, CredentialsTypeOK
<1>2. CredentialsInv => CredentialsTypeOK
    BY DEF CredentialsInv
<1>3. QED
    BY <1>1, <1>2, CredentialsInvariance, PTL DEF CutOff

(* A revoked device stays revoked, nobody but the administrator switches   *)
(* the account, and a password goes back only by the rehash of a login     *)
(* that had read a hash of old parameters (touch_last_used,                *)
(* verify_password).                                                       *)
THEOREM DecisionsOfTheAdministrator == CredentialsSpec => DecisionsStand
<1> DEFINE A ==
       /\ device = "revoked" => device' = "revoked"
       /\ active # active' => UNCHANGED <<call, password, device>>
       /\ password'.secret < password.secret =>
             \E t \in Worker : /\ call[t].kind \in {"login", "offline-login"}
                               /\ call[t].read.weak
<1>1. CredentialsInv /\ [CredentialsNext]_credentialsVars => [A]_credentialsVars
    <2> SUFFICES ASSUME CredentialsTypeOK, CredentialsNext PROVE A
        BY DEF CredentialsInv
    <2>1. device = "revoked" => device' = "revoked"
        BY DEF CredentialsNext, AskLogin, Login, AskUpload, Upload, AskSync, Sync,
           StatusAfterTouch, DropSession, MintToken, RevokeToken,
           deactivate_user, reactivate_user, reset_password, StrongerParameters,
           Pass
    <2>2. active # active' => UNCHANGED <<call, password, device>>
        BY DEF CredentialsNext, accountVars, AskLogin, Login, AskUpload, Upload, AskSync,
           Sync, DropSession, MintToken, RevokeToken, deactivate_user,
           reactivate_user, reset_password, StrongerParameters, Pass
    <2>3. ASSUME password'.secret < password.secret
          PROVE  \E t \in Worker : /\ call[t].kind \in {"login", "offline-login"}
                                   /\ call[t].read.weak
        <3>1. password.secret \in Nat /\ password \in Hash
            BY DEF CredentialsTypeOK, Hash
        <3>2. password' # password
            BY <2>3, <3>1
        <3>3. ~reset_password
            BY <2>3, <3>1 DEF reset_password
        <3>4. ~StrongerParameters
            BY <2>3, <3>1 DEF StrongerParameters, Hash
        <3>5. PICK t \in Worker : Login(t)
            BY <3>2, <3>3, <3>4 DEF CredentialsNext, accountVars, AskLogin, AskUpload,
               Upload, AskSync, Sync, DropSession, MintToken, RevokeToken,
               deactivate_user, reactivate_user, Pass
        <3>6. call[t].kind \in {"login", "offline-login"}
            BY <3>5, Zenon DEF Login
        <3>7. call[t].read.weak
            BY <3>2, <3>5, Zenon DEF Login, NeedsRehash
        <3>8. QED
            BY <3>6, <3>7
    <2>4. QED
        BY <2>1, <2>2, <2>3
<1>2. QED
    BY CredentialsInvariance, <1>1, PTL DEF CredentialsSpec, DecisionsStand

-----------------------------------------------------------------------------
(* The pages *)

Field == Batch \cup {None, New}
AnyLine == [code: Code \cup {None}, batch: Field]

Page ==
    [flow: {"sale", "receipt", "writeoff", "correction", "transfer"}, device: {"desk", "phone"},
     step: {"form", "product", "batch", "qty", "basket", "details", "confirm", "reason",
            "mode", "value", "dest", "saved"},
     code: Code \cup {None}, named: BOOLEAN, batch: Field, next: BOOLEAN, picked: BOOLEAN,
     place: Place \cup {Default, None}, acc: Seq(AnyLine),
     mode: {"existing", "new", "anon"}, customer: {None, Ann}, typed: BOOLEAN,
     date: Dates \cup {None}, echo: Dates \cup {None}, warned: BOOLEAN]

Intent ==
    [lines: Seq(AnyLine), date: Dates \cup {None}, customer: {None, Ann, New},
     place: Place \cup {Default, None}, lost: SUBSET {"lines", "date", "customer", "place"}]

(* The steps that are reached with a batch of the clerk's choice, or with  *)
(* none, which is refused in the end.                                      *)
Removal == {"writeoff", "correction", "transfer"}
Chosen == {"batch", "qty", "reason", "mode", "value", "dest"}

(* The page holds the lines the clerk has entered.                         *)
HoldsLines(p, i) ==
    /\ p.device = "desk" => i.lines = RowsOf(p)
    /\ p.device = "phone" =>
          /\ p.flow = "sale" => "lines" \in i.lost \/ i.lines = p.acc
          /\ p.flow = "receipt" /\ p.step \in {"details", "confirm"} =>
                i.lines = <<Line(p.code, p.batch)>>
          /\ p.flow \in Removal /\ p.step \in Chosen /\ p.batch # None =>
                i.lines = <<Line(p.code, p.batch)>>

(* And the date, and the customer.                                         *)
HoldsRest(p, i) ==
    /\ "date" \in i.lost \/ i.date = p.date
    /\ p.device = "desk" /\ p.flow = "sale" => i.customer = Means(p)

(* The batch field, and the basket, which only a sale fills.               *)
FieldsOK(p) ==
    /\ p.step \in {"mode", "value", "dest"} => p.batch \in Batch
    /\ p.flow # "receipt" => p.batch # New
    /\ Len(p.acc) <= MaxLines
    /\ p.flow # "sale" => p.acc = <<>>

Faithful(p, i) ==
    p \in Page /\ i \in Intent /\ FieldsOK(p) /\ HoldsLines(p, i) /\ HoldsRest(p, i)

WizardInv ==
    /\ held \in [Batch -> Int] /\ gone \subseteq Code
    /\ stored = None \/ DOMAIN stored = {"lines", "date", "customer", "place"}
    /\ Faithful(page, intent)

(* What a step may do to the stock and to what is stored.                  *)
StepOK ==
    /\ Saves => /\ "lines" \notin intent.lost => stored'.lines = intent.lines
                /\ "date" \notin intent.lost => stored'.date = intent.date
                /\ page.device = "desk" /\ page.flow = "sale" =>
                      stored'.customer = intent.customer
                /\ \A l \in ToSet(stored'.lines) :
                      l.code \notin gone /\ (l.batch # New => CodeOf[l.batch] = l.code)
    /\ \A b \in Batch : held'[b] < held[b] /\ held'[b] < 0 => page.warned

-----------------------------------------------------------------------------
(* Pages that are shown *)

LEMMA BlankFaithful ==
    ASSUME NEW flow \in {"sale", "receipt", "writeoff", "correction", "transfer"},
           NEW dev \in {"desk", "phone"}
    PROVE  /\ Faithful(Blank(flow, dev), Nothing)
           /\ Faithful([Blank(flow, dev) EXCEPT !.step = "saved"], Nothing)
<1> DEFINE p == Blank(flow, dev)
           s == [p EXCEPT !.step = "saved"]
<1>1. <<>> \in Seq(AnyLine) /\ Len(<<>>) = 0 /\ 0 <= MaxLines
    BY WizardBounds
<1>2. p \in Page /\ s \in Page
    BY <1>1 DEF Blank, Page, Field
<1>3. Nothing \in Intent
    BY <1>1 DEF Nothing, Intent
<1>4. FieldsOK(p) /\ FieldsOK(s)
    BY <1>1, Fields DEF Blank, FieldsOK
<1>5. HoldsLines(p, Nothing) /\ HoldsLines(s, Nothing)
    BY DEF Blank, Nothing, HoldsLines, RowsOf
<1>6. HoldsRest(p, Nothing) /\ HoldsRest(s, Nothing)
    BY DEF Blank, Nothing, HoldsRest, Means
<1>7. QED
    BY <1>2, <1>3, <1>4, <1>5, <1>6 DEF Faithful

LEMMA WizardInitInv ==
    ASSUME WizardInit
    PROVE  WizardInv
<1>1. PICK f \in Flows, d \in Devices : page = Blank(f, d)
    BY DEF WizardInit
<1>2. Faithful(page, intent)
    BY <1>1, BlankFaithful, Sections DEF WizardInit
<1>3. held \in [Batch -> Int]
    BY WizardBounds DEF WizardInit
<1>4. QED
    BY <1>2, <1>3 DEF WizardInit, WizardInv

(* What only changes the page is right if the page still holds what was    *)
(* entered.                                                                *)
LEMMA Shown ==
    ASSUME WizardInv, NEW p, NEW i, Faithful(p, i), Shows(p, i)
    PROVE  WizardInv' /\ StepOK
<1>1. /\ page' = p /\ intent' = i /\ held' = held /\ gone' = gone /\ stored' = stored
    BY DEF Shows
<1>2. Faithful(page, intent)'
    BY <1>1 DEF Faithful, FieldsOK, HoldsLines, HoldsRest, Means, RowsOf, Line
<1>3. held \in [Batch -> Int]
    BY DEF WizardInv
<1>4. StepOK
    BY <1>1, <1>3 DEF StepOK, Saves
<1>5. QED
    BY <1>1, <1>2, <1>4 DEF WizardInv

LEMMA Opened ==
    ASSUME WizardInv, NEW flow \in {"sale", "receipt", "writeoff", "correction", "transfer"},
           NEW dev \in {"desk", "phone"}, Opens(flow, dev)
    PROVE  WizardInv' /\ StepOK
<1>1. /\ page' = Blank(flow, dev) /\ intent' = Nothing /\ stored' = None
      /\ held' = held /\ gone' = gone
    BY DEF Opens
<1>2. Faithful(page, intent)'
    <2>1. PICK p, i : p = Blank(flow, dev) /\ i = Nothing
        OBVIOUS
    <2>2. Faithful(p, i)
        BY <2>1, BlankFaithful
    <2>3. page' = p /\ intent' = i
        BY <1>1, <2>1
    <2>4. QED
        BY <2>2, <2>3 DEF Faithful, FieldsOK, HoldsLines, HoldsRest, Means, RowsOf, Line
<1>3. held \in [Batch -> Int]
    BY DEF WizardInv
<1>4. StepOK
    BY <1>1, <1>3 DEF StepOK, Saves
<1>5. QED
    BY <1>1, <1>2, <1>4 DEF WizardInv

LEMMA OpenPageInv ==
    ASSUME WizardInv, OpenPage
    PROVE  WizardInv' /\ StepOK
BY Opened DEF OpenPage, mobile_sales_page, mobile_receipt_new, sale_new_page,
    receipt_new_page, writeoff_page, correction_page, transfers_page

LEMMA ElsewhereInv ==
    ASSUME WizardInv, Elsewhere
    PROVE  WizardInv' /\ StepOK
<1>1. page' = page /\ intent' = intent /\ stored' = stored
    BY DEF Elsewhere
<1>2. held \in [Batch -> Int]
    BY DEF WizardInv
<1>3. /\ held' \in [Batch -> Int] /\ gone' \subseteq Code
      /\ \A b \in Batch : held'[b] < held[b] => held'[b] >= 0
    <2>1. ASSUME NEW b \in Batch, NEW d \in {-1, 1}, held[b] + d \in 0..MaxHeld,
                 held' = [held EXCEPT ![b] = @ + d], UNCHANGED gone
          PROVE  /\ held' \in [Batch -> Int] /\ gone' \subseteq Code
                 /\ \A x \in Batch : held'[x] < held[x] => held'[x] >= 0
        BY <1>2, <2>1 DEF WizardInv
    <2>2. ASSUME NEW c \in Code, gone' = gone \cup {c}, UNCHANGED held
          PROVE  /\ held' \in [Batch -> Int] /\ gone' \subseteq Code
                 /\ \A x \in Batch : held'[x] < held[x] => held'[x] >= 0
        BY <1>2, <2>2 DEF WizardInv
    <2>3. QED
        BY <2>1, <2>2 DEF Elsewhere
<1>4. Faithful(page, intent)'
    BY <1>1 DEF WizardInv, Faithful, FieldsOK, HoldsLines, HoldsRest, Means, RowsOf, Line
<1>5. StepOK
    BY <1>1, <1>2, <1>3 DEF StepOK, Saves
<1>6. QED
    BY <1>1, <1>3, <1>4, <1>5 DEF WizardInv

LEMMA TypeDateInv ==
    ASSUME WizardInv, NEW d \in Dates, TypeDate(d)
    PROVE  WizardInv' /\ StepOK
<1> DEFINE p == [page EXCEPT !.date = d]
           i == [intent EXCEPT !.date = d]
<1>1. Faithful(page, intent)
    BY DEF WizardInv
<1>2. p \in Page /\ i \in Intent
    BY <1>1 DEF Faithful, Page, Intent
<1>3. FieldsOK(p) /\ HoldsLines(p, i) /\ HoldsRest(p, i)
    BY <1>1 DEF Faithful, Page, Intent, FieldsOK, HoldsLines, HoldsRest, Means, RowsOf
<1>4. Faithful(p, i)
    BY <1>2, <1>3 DEF Faithful
<1>5. QED
    BY <1>4, Shown DEF TypeDate

-----------------------------------------------------------------------------
(* Saving *)

(* A flag may be set to any truth value.                                   *)
LEMMA NamedField ==
    ASSUME NEW q \in Page, NEW n, n \in BOOLEAN
    PROVE  [q EXCEPT !.named = n] \in Page /\ [q EXCEPT !.next = n] \in Page
BY DEF Page

(* A page shown again holds what it held.                                  *)
LEMMA AgainFaithful ==
    ASSUME WizardInv, NEW w \in BOOLEAN
    PROVE  Faithful([Again(page) EXCEPT !.warned = w], intent)
<1> DEFINE p == [Again(page) EXCEPT !.warned = w]
<1>1. Faithful(page, intent) /\ page \in Page
    BY DEF WizardInv, Faithful
<1>2. Again(page) \in Page
    <2>1. PICK e : e = IF page.step = "dest" THEN page.date ELSE page.echo
        OBVIOUS
    <2>2. PICK c : c = IF page.mode = "existing" THEN page.customer ELSE None
        OBVIOUS
    <2>3. PICK n \in BOOLEAN : n = (page.named /\ page.flow # "sale")
        BY Zenon
    <2>4. PICK q : q = [page EXCEPT !.echo = e, !.customer = c]
        OBVIOUS
    <2>5. q \in Page
        <3>1. e \in Dates \cup {None} /\ c \in {None, Ann}
            BY <1>1, <2>1, <2>2 DEF Page
        <3>2. QED
            BY <1>1, <2>4, <3>1 DEF Page
    <2>6. Again(page) = [q EXCEPT !.named = n]
        BY <1>1, <2>1, <2>2, <2>3, <2>4, Zenon DEF Again, Page
    <2>7. QED
        BY <2>3, <2>5, <2>6, NamedField
<1>3. p \in Page
    BY <1>2 DEF Page
<1>4. /\ p.flow = page.flow /\ p.device = page.device /\ p.step = page.step /\ p.code = page.code
      /\ p.batch = page.batch /\ p.acc = page.acc /\ p.mode = page.mode /\ p.typed = page.typed
      /\ p.date = page.date /\ (p.mode = "existing" => p.customer = page.customer)
    BY <1>1 DEF Again, Page
<1> HIDE DEF p
<1>5. FieldsOK(p) /\ HoldsLines(p, intent)
    BY <1>1, <1>4 DEF Faithful, FieldsOK, HoldsLines, RowsOf
<1>6. HoldsRest(p, intent)
    <2>1. page.mode \in {"existing", "new", "anon"}
        BY <1>1 DEF Page
    <2>2. Means(p) = Means(page)
        <3>1. CASE page.mode = "existing"
            BY <1>4, <3>1 DEF Means
        <3>2. CASE page.mode = "new"
            BY <1>4, <3>2 DEF Means
        <3>3. CASE page.mode = "anon"
            BY <1>4, <3>3 DEF Means
        <3>4. QED
            BY <2>1, <3>1, <3>2, <3>3
    <2>3. QED
        BY <1>1, <1>4, <2>2 DEF Faithful, HoldsRest
<1>7. QED
    BY <1>1, <1>3, <1>5, <1>6 DEF Faithful, p

LEMMA TakenCount ==
    ASSUME NEW lines \in Seq(AnyLine), NEW b
    PROVE  /\ Taken(lines, b) \in Nat
           /\ Taken(lines, b) > 0 => \E l \in ToSet(lines) : l.batch = b
<1> DEFINE S == {i \in DOMAIN lines : lines[i].batch = b}
<1>1. DOMAIN lines = 1..Len(lines) /\ Len(lines) \in Nat
    OBVIOUS
<1>2. IsFiniteSet(DOMAIN lines)
    BY <1>1, FS_Interval
<1>3. IsFiniteSet(S)
    BY <1>2, FS_Subset
<1>4. Cardinality(S) \in Nat
    BY <1>3, FS_CardinalityType
<1>5. S = {} => Cardinality(S) = 0
    BY FS_EmptySet
<1>6. S # {} => \E l \in ToSet(lines) : l.batch = b
    BY DEF ToSet
<1>7. QED
    BY <1>4, <1>5, <1>6 DEF Taken

(* What is saved is what was entered, if the button sends it.              *)
LEMMA Submitted ==
    ASSUME WizardInv, NEW lines \in Seq(AnyLine), NEW customer, NEW sign \in {-1, 1},
           NEW confirm \in BOOLEAN, Submits(lines, customer, sign, confirm),
           ~Refused(lines, page.date) /\ "lines" \notin intent.lost => lines = intent.lines,
           page.device = "desk" /\ page.flow = "sale" => customer = intent.customer
    PROVE  WizardInv' /\ StepOK
<1>1. Faithful(page, intent) /\ page \in Page /\ intent \in Intent
      /\ held \in [Batch -> Int]
    BY DEF WizardInv, Faithful
<1>2. ASSUME NEW w \in BOOLEAN, Shows([Again(page) EXCEPT !.warned = w], intent)
      PROVE  WizardInv' /\ StepOK
    BY <1>2, AgainFaithful, Shown
<1>3. ASSUME ~Refused(lines, page.date), sign = 1 /\ ~confirm => ~Short(lines),
             Stores(lines, customer, sign)
      PROVE  WizardInv' /\ StepOK
    <2>1. /\ held' = [b \in Batch |-> held[b] - sign * Taken(lines, b)]
          /\ stored' = [lines |-> lines, date |-> page.date, customer |-> customer,
                        place |-> page.place]
          /\ page' = [Blank(page.flow, page.device) EXCEPT !.step = "saved"]
          /\ intent' = Nothing /\ gone' = gone
        BY <1>3 DEF Stores
    <2>2. Faithful(page, intent)'
        <3>1. PICK p, i : p = [Blank(page.flow, page.device) EXCEPT !.step = "saved"] /\ i = Nothing
            OBVIOUS
        <3>2. /\ page.flow \in {"sale", "receipt", "writeoff", "correction", "transfer"}
              /\ page.device \in {"desk", "phone"}
            BY <1>1 DEF Page
        <3>3. Faithful(p, i)
            BY <3>1, <3>2, BlankFaithful
        <3>4. page' = p /\ intent' = i
            BY <2>1, <3>1
        <3>5. QED
            BY <3>3, <3>4 DEF Faithful, FieldsOK, HoldsLines, HoldsRest, Means, RowsOf, Line
    <2>3. \A b \in Batch : Taken(lines, b) \in Nat /\ held[b] \in Int
        BY <1>1, TakenCount
    <2>4. held' \in [Batch -> Int] /\ \A b \in Batch : held'[b] = held[b] - sign * Taken(lines, b)
        BY <2>1, <2>3
    <2>5. ASSUME NEW b \in Batch, held'[b] < held[b], held'[b] < 0 PROVE page.warned
        <3>1. sign = 1 /\ Taken(lines, b) > 0 /\ Taken(lines, b) > held[b]
            BY <2>3, <2>4, <2>5
        <3>2. PICK l \in ToSet(lines) : l.batch = b
            BY <3>1, TakenCount
        <3>3. b # New
            BY Fields
        <3>4. Short(lines)
            BY <3>1, <3>2, <3>3 DEF Short
        <3>5. confirm
            BY <1>3, <3>1, <3>4
        <3>6. QED
            BY <3>5 DEF Submits
    <2>6. ASSUME NEW l \in ToSet(lines)
          PROVE  l.code \notin gone /\ (l.batch # New => CodeOf[l.batch] = l.code)
        BY <1>3, <2>6 DEF Refused, find_product, pick_batch
    <2>7. Saves =>
             /\ "lines" \notin intent.lost => stored'.lines = intent.lines
             /\ "date" \notin intent.lost => stored'.date = intent.date
             /\ page.device = "desk" /\ page.flow = "sale" => stored'.customer = intent.customer
             /\ \A l \in ToSet(stored'.lines) :
                   l.code \notin gone /\ (l.batch # New => CodeOf[l.batch] = l.code)
        <3>1. stored'.lines = lines /\ stored'.date = page.date /\ stored'.customer = customer
            BY <2>1
        <3>2. "date" \notin intent.lost => page.date = intent.date
            BY <1>1 DEF Faithful, HoldsRest
        <3>3. QED
            BY <1>3, <2>6, <3>1, <3>2
    <2>8. DOMAIN stored' = {"lines", "date", "customer", "place"}
        BY <2>1
    <2>9. gone' \subseteq Code
        BY <2>1 DEF WizardInv
    <2>10. QED
        BY <2>2, <2>4, <2>5, <2>7, <2>8, <2>9 DEF WizardInv, StepOK
<1>4. QED
    BY <1>2, <1>3 DEF Submits

-----------------------------------------------------------------------------
(* The customer of a sale *)

LEMMA MeansType ==
    ASSUME NEW p \in Page
    PROVE  Means(p) \in {None, Ann, New}
<1>1. p.mode \in {"existing", "new", "anon"} /\ p.customer \in {None, Ann}
    BY DEF Page
<1>2. CASE p.mode = "existing"
    BY <1>1, <1>2 DEF Means
<1>3. CASE p.mode = "new"
    BY <1>3 DEF Means
<1>4. CASE p.mode = "anon"
    BY <1>4 DEF Means
<1>5. QED
    BY <1>1, <1>2, <1>3, <1>4

(* The header changes nothing else, and the clerk means what it shows.     *)
LEMMA HeaderInv ==
    ASSUME WizardInv, NEW p \in Page, Header(p),
           p.flow = page.flow, p.device = page.device, p.step = page.step, p.code = page.code,
           p.batch = page.batch, p.acc = page.acc, p.date = page.date
    PROVE  WizardInv' /\ StepOK
<1>1. Faithful(page, intent) /\ page \in Page /\ intent \in Intent
    BY DEF WizardInv, Faithful
<1>2. PICK i : i = [intent EXCEPT !.customer = Means(p)]
    OBVIOUS
<1>3. i \in Intent
    BY <1>1, <1>2, MeansType DEF Intent
<1>4. /\ i.lines = intent.lines /\ i.date = intent.date /\ i.lost = intent.lost
      /\ i.customer = Means(p)
    BY <1>1, <1>2 DEF Intent
<1>5. FieldsOK(p) /\ HoldsLines(p, i)
    BY <1>1, <1>4 DEF Faithful, FieldsOK, HoldsLines, RowsOf
<1>6. HoldsRest(p, i)
    BY <1>1, <1>4 DEF Faithful, HoldsRest
<1>7. Faithful(p, i)
    BY <1>3, <1>5, <1>6 DEF Faithful
<1>8. QED
    BY <1>2, <1>7, Shown DEF Header

LEMMA CustomerStepInv ==
    ASSUME WizardInv, CustomerStep
    PROVE  WizardInv' /\ StepOK
<1>1. page \in Page
    BY DEF WizardInv, Faithful
<1>2. ASSUME NEW m \in {"new", "existing", "anon"}, customer_mode(m)
      PROVE  WizardInv' /\ StepOK
    <2>1. [page EXCEPT !.mode = m] \in Page
        BY <1>1 DEF Page
    <2>2. QED
        BY <1>1, <1>2, <2>1, HeaderInv DEF customer_mode, Page
<1>3. ASSUME NEW c \in {None, Ann}, PickCustomer(c)
      PROVE  WizardInv' /\ StepOK
    <2>1. [page EXCEPT !.customer = c] \in Page
        BY <1>1 DEF Page
    <2>2. QED
        BY <1>1, <1>3, <2>1, HeaderInv DEF PickCustomer, Page
<1>4. ASSUME TypeCustomer
      PROVE  WizardInv' /\ StepOK
    <2>1. [page EXCEPT !.typed = TRUE] \in Page
        BY <1>1 DEF Page
    <2>2. QED
        BY <1>1, <1>4, <2>1, HeaderInv DEF TypeCustomer, Page
<1>5. ASSUME customer_create
      PROVE  WizardInv' /\ StepOK
    <2>1. PICK p : p = [page EXCEPT !.mode = "existing", !.customer = Ann, !.typed = FALSE]
        OBVIOUS
    <2>2. p \in Page
        BY <1>1, <2>1 DEF Page
    <2>3. /\ p.flow = page.flow /\ p.device = page.device /\ p.step = page.step
          /\ p.code = page.code /\ p.batch = page.batch /\ p.acc = page.acc /\ p.date = page.date
        BY <1>1, <2>1 DEF Page
    <2>4. Header(p)
        BY <1>5, <2>1 DEF customer_create
    <2>5. QED
        BY <2>2, <2>3, <2>4, HeaderInv
<1>6. QED
    BY <1>2, <1>3, <1>4, <1>5 DEF CustomerStep, sale_customer_mode, sale_customer_create,
        mobile_sale_customer_mode, mobile_sale_customer_create

-----------------------------------------------------------------------------
(* The sale wizard *)

LEMMA BatchTypes ==
    ASSUME NEW c, NEW b
    PROVE  /\ pick_batch(c, b) \in Batch \cup {None}
           /\ Only(open_batches(c)) \in Batch \cup {None}
<1>1. open_batches(c) \subseteq Batch
    BY DEF open_batches
<1>2. Cardinality(open_batches(c)) = 1 => open_batches(c) # {}
    BY FS_EmptySet
<1>3. QED
    BY <1>1, <1>2 DEF pick_batch, Only

(* A step of the phone's sale keeps the basket, or says it is lost.        *)
LEMMA SaleShown ==
    ASSUME WizardInv, NEW p \in Page, NEW i \in Intent, Shows(p, i),
           p.flow = "sale", p.device = "phone", p.step \notin {"mode", "value", "dest"},
           p.batch # New, Len(p.acc) <= MaxLines,
           "lines" \in i.lost \/ i.lines = p.acc,
           "date" \in i.lost \/ i.date = p.date
    PROVE  WizardInv' /\ StepOK
<1>1. FieldsOK(p)
    BY DEF FieldsOK
<1>2. HoldsLines(p, i)
    BY DEF HoldsLines, Removal
<1>3. HoldsRest(p, i)
    BY DEF HoldsRest
<1>4. QED
    BY <1>1, <1>2, <1>3, Shown DEF Faithful

(* What the steps of the phone's sale start from.                          *)
LEMMA SaleStarts ==
    ASSUME WizardInv, page.flow = "sale", page.device = "phone"
    PROVE  /\ page \in Page /\ intent \in Intent /\ page.batch \in Batch \cup {None}
           /\ page.acc \in Seq(AnyLine) /\ Len(page.acc) \in Nat /\ Len(page.acc) <= MaxLines
           /\ "lines" \in intent.lost \/ intent.lines = page.acc
           /\ "date" \in intent.lost \/ intent.date = page.date
<1>1. Faithful(page, intent) /\ page \in Page /\ intent \in Intent
    BY DEF WizardInv, Faithful
<1>2. page.acc \in Seq(AnyLine) /\ page.batch \in Field
    BY <1>1 DEF Page
<1>3. Len(page.acc) \in Nat
    BY <1>2
<1>4. QED
    BY <1>1, <1>2, <1>3 DEF Faithful, FieldsOK, HoldsLines, HoldsRest, Field

LEMMA SaleProductInv ==
    ASSUME WizardInv, NEW c \in Code, mobile_sale_step_product(c)
    PROVE  WizardInv' /\ StepOK
<1>1. page.flow = "sale" /\ page.device = "phone"
    BY DEF mobile_sale_step_product, At
<1>2. /\ page \in Page /\ intent \in Intent /\ page.batch \in Batch \cup {None}
      /\ Len(page.acc) <= MaxLines
      /\ "lines" \in intent.lost \/ intent.lines = page.acc
      /\ "date" \in intent.lost \/ intent.date = page.date
    BY <1>1, SaleStarts
<1>3. CASE find_product(c)
    <2>1. PICK b : b = Only(open_batches(c))
        OBVIOUS
    <2>2. b \in Batch \cup {None}
        BY <2>1, BatchTypes
    <2>3. PICK q : q = [page EXCEPT !.step = "batch", !.code = c, !.batch = b]
        OBVIOUS
    <2>4. PICK n \in BOOLEAN : n = (open_batches(c) # {})
        BY Zenon
    <2>5. PICK p : p = [q EXCEPT !.next = n]
        OBVIOUS
    <2>6. q \in Page
        BY <1>2, <2>2, <2>3 DEF Page, Field
    <2>7. p \in Page
        BY <2>4, <2>5, <2>6, NamedField
    <2>8. /\ p.flow = "sale" /\ p.device = "phone" /\ p.step = "batch" /\ p.batch = b
          /\ p.acc = page.acc /\ p.date = page.date
        BY <1>1, <1>2, <2>3, <2>5 DEF Page
    <2>9. p = [page EXCEPT !.step = "batch", !.code = c, !.batch = Only(open_batches(c)),
                           !.next = open_batches(c) # {}]
        BY <1>2, <2>1, <2>3, <2>4, <2>5, Zenon DEF Page
    <2>10. Shows(p, intent)
        BY <1>3, <2>9 DEF mobile_sale_step_product
    <2>11. QED
        BY <1>2, <2>2, <2>7, <2>8, <2>10, SaleShown, Fields
<1>4. CASE ~find_product(c) /\ c \in Dictionary
    <2>1. PICK p : p = [page EXCEPT !.step = "qty", !.code = c, !.batch = None, !.picked = FALSE]
        OBVIOUS
    <2>2. p \in Page
        BY <1>2, <2>1 DEF Page, Field
    <2>3. /\ p.flow = "sale" /\ p.device = "phone" /\ p.step = "qty" /\ p.batch = None
          /\ p.acc = page.acc /\ p.date = page.date
        BY <1>1, <1>2, <2>1 DEF Page
    <2>4. Shows(p, intent)
        BY <1>4, <2>1 DEF mobile_sale_step_product
    <2>5. QED
        BY <1>2, <2>2, <2>3, <2>4, SaleShown, Fields
<1>5. CASE ~find_product(c) /\ c \notin Dictionary
    <2>1. PICK p : p = [page EXCEPT !.code = c]
        OBVIOUS
    <2>2. p \in Page
        BY <1>2, <2>1 DEF Page, Field
    <2>3. /\ p.flow = "sale" /\ p.device = "phone" /\ p.step = "product" /\ p.batch = page.batch
          /\ p.acc = page.acc /\ p.date = page.date
        BY <1>1, <1>2, <2>1 DEF Page, mobile_sale_step_product, At
    <2>4. Shows(p, intent)
        BY <1>5, <2>1 DEF mobile_sale_step_product
    <2>5. QED
        BY <1>2, <2>2, <2>3, <2>4, SaleShown, Fields
<1>6. QED
    BY <1>3, <1>4, <1>5

LEMMA BackToProductInv ==
    ASSUME WizardInv, BackToProduct
    PROVE  WizardInv' /\ StepOK
<1>1. page.flow = "sale" /\ page.device = "phone"
    BY DEF BackToProduct, At
<1>2. /\ page \in Page /\ intent \in Intent /\ Len(page.acc) <= MaxLines
      /\ "lines" \in intent.lost \/ intent.lines = page.acc
      /\ "date" \in intent.lost \/ intent.date = page.date
    BY <1>1, SaleStarts
<1>3. PICK p : p = [page EXCEPT !.step = "product", !.batch = None, !.next = FALSE]
    OBVIOUS
<1>4. p \in Page
    BY <1>2, <1>3 DEF Page, Field
<1>5. /\ p.flow = "sale" /\ p.device = "phone" /\ p.step = "product" /\ p.batch = None
      /\ p.acc = page.acc /\ p.date = page.date
    BY <1>1, <1>2, <1>3 DEF Page
<1>6. Shows(p, intent)
    BY <1>3 DEF BackToProduct
<1>7. QED
    BY <1>2, <1>4, <1>5, <1>6, SaleShown, Fields

LEMMA DropsType ==
    ASSUME NEW i \in Intent, NEW what \in {"lines", "date", "customer", "place"}
    PROVE  /\ Drops(what, i) \in Intent /\ what \in Drops(what, i).lost
           /\ i.lost \subseteq Drops(what, i).lost
           /\ what # "lines" => Drops(what, i).lines = i.lines
           /\ what # "date" => Drops(what, i).date = i.date
           /\ what # "customer" => Drops(what, i).customer = i.customer
<1>1. <<>> \in Seq(AnyLine)
    OBVIOUS
<1>2. PICK l, d, c, s :
        /\ l = (IF what = "lines" THEN <<>> ELSE i.lines)
        /\ d = (IF what = "date" THEN None ELSE i.date)
        /\ c = (IF what = "customer" THEN None ELSE i.customer)
        /\ s = i.lost \cup {what}
    OBVIOUS
<1>3. /\ l \in Seq(AnyLine) /\ d \in Dates \cup {None} /\ c \in {None, Ann, New}
      /\ s \in SUBSET {"lines", "date", "customer", "place"}
    BY <1>1, <1>2 DEF Intent
<1>4. Drops(what, i) = [i EXCEPT !.lost = s, !.lines = l, !.date = d, !.customer = c]
    BY <1>2 DEF Drops
<1>5. Drops(what, i) \in Intent
    BY <1>3, <1>4 DEF Intent
<1>6. /\ Drops(what, i).lost = s /\ Drops(what, i).lines = l /\ Drops(what, i).date = d
      /\ Drops(what, i).customer = c
    BY <1>4 DEF Intent
<1>7. QED
    BY <1>2, <1>5, <1>6

LEMMA AddMoreInv ==
    ASSUME WizardInv, AddMore
    PROVE  WizardInv' /\ StepOK
<1>1. page.flow = "sale" /\ page.device = "phone"
    BY DEF AddMore, At
<1>2. /\ page \in Page /\ intent \in Intent /\ page.batch \in Batch \cup {None}
      /\ Len(page.acc) <= MaxLines
      /\ "lines" \in intent.lost \/ intent.lines = page.acc
      /\ "date" \in intent.lost \/ intent.date = page.date
    BY <1>1, SaleStarts
<1>3. PICK p : p = [page EXCEPT !.step = "product", !.code = None, !.mode = "existing",
                          !.customer = None, !.typed = FALSE, !.warned = FALSE]
    OBVIOUS
<1>4. p \in Page
    BY <1>2, <1>3 DEF Page, Field
<1>5. /\ p.flow = "sale" /\ p.device = "phone" /\ p.step = "product" /\ p.batch = page.batch
      /\ p.acc = page.acc /\ p.date = page.date
    BY <1>1, <1>2, <1>3 DEF Page
<1>6. PICK i : i = IF intent.customer = None THEN intent ELSE Drops("customer", intent)
    OBVIOUS
<1>7. /\ i \in Intent /\ intent.lost \subseteq i.lost
      /\ i.lines = intent.lines /\ i.date = intent.date
    BY <1>2, <1>6, DropsType
<1>8. Shows(p, i)
    BY <1>3, <1>6 DEF AddMore
<1>9. QED
    BY <1>2, <1>4, <1>5, <1>7, <1>8, SaleShown, Fields

LEMMA SaleBatchInv ==
    ASSUME WizardInv, NEW b, mobile_sale_step_batch(b)
    PROVE  WizardInv' /\ StepOK
<1>1. page.flow = "sale" /\ page.device = "phone" /\ page.step = "batch"
    BY DEF mobile_sale_step_batch, At
<1>2. /\ page \in Page /\ intent \in Intent /\ Len(page.acc) <= MaxLines
      /\ "lines" \in intent.lost \/ intent.lines = page.acc
      /\ "date" \in intent.lost \/ intent.date = page.date
    BY <1>1, SaleStarts
<1>3. PICK x : x = pick_batch(page.code, b)
    OBVIOUS
<1>4. x \in Batch \cup {None}
    BY <1>3, BatchTypes
<1>5. PICK q : q = [page EXCEPT !.batch = x]
    OBVIOUS
<1>6. PICK n \in BOOLEAN : n = (open_batches(page.code) # {})
    BY Zenon
<1>7. PICK p : p = [q EXCEPT !.next = n]
    OBVIOUS
<1>8. q \in Page
    BY <1>2, <1>4, <1>5 DEF Page, Field
<1>9. p \in Page
    BY <1>6, <1>7, <1>8, NamedField
<1>10. /\ p.flow = "sale" /\ p.device = "phone" /\ p.step = "batch" /\ p.batch = x
       /\ p.acc = page.acc /\ p.date = page.date
    BY <1>1, <1>2, <1>5, <1>7 DEF Page
<1>11. p = [page EXCEPT !.batch = pick_batch(page.code, b),
                        !.next = open_batches(page.code) # {}]
    BY <1>2, <1>3, <1>5, <1>6, <1>7, Zenon DEF Page
<1>12. Shows(p, intent)
    BY <1>11 DEF mobile_sale_step_batch
<1>13. QED
    BY <1>2, <1>4, <1>9, <1>10, <1>12, SaleShown, Fields

LEMMA BackToBatchInv ==
    ASSUME WizardInv, BackToBatch
    PROVE  WizardInv' /\ StepOK
<1>1. page.flow = "sale" /\ page.device = "phone"
    BY DEF BackToBatch, At
<1>2. /\ page \in Page /\ intent \in Intent
      /\ "lines" \in intent.lost \/ intent.lines = page.acc
      /\ "date" \in intent.lost \/ intent.date = page.date
    BY <1>1, SaleStarts
<1>3. PICK p : p = [page EXCEPT !.step = "batch", !.code = None, !.batch = None,
                          !.picked = FALSE, !.acc = <<>>]
    OBVIOUS
<1>4. <<>> \in Seq(AnyLine) /\ Len(<<>>) <= MaxLines
    BY WizardBounds
<1>5. p \in Page
    BY <1>2, <1>3, <1>4 DEF Page, Field
<1>6. /\ p.flow = "sale" /\ p.device = "phone" /\ p.step = "batch" /\ p.batch = None
      /\ p.acc = <<>> /\ p.date = page.date
    BY <1>1, <1>2, <1>3 DEF Page
<1>7. PICK i : i = IF page.acc = <<>> THEN intent ELSE Drops("lines", intent)
    OBVIOUS
<1>8. /\ "lines" \in i.lost \/ i.lines = p.acc
      /\ "date" \in i.lost \/ i.date = p.date
    <2>1. CASE page.acc = <<>>
        BY <1>2, <1>6, <1>7, <2>1
    <2>2. CASE page.acc # <<>>
        <3>1. /\ i \in Intent /\ "lines" \in i.lost /\ intent.lost \subseteq i.lost
              /\ i.date = intent.date
            BY <1>2, <1>7, <2>2, DropsType
        <3>2. QED
            BY <1>2, <1>6, <3>1
    <2>3. QED
        BY <2>1, <2>2
<1>9. i \in Intent
    BY <1>2, <1>7, DropsType
<1>10. Shows(p, i)
    BY <1>3, <1>7 DEF BackToBatch
<1>11. QED
    BY <1>2, <1>4, <1>5, <1>6, <1>8, <1>9, <1>10, SaleShown, Fields

LEMMA SaleQtyInv ==
    ASSUME WizardInv, mobile_sale_step_qty_price
    PROVE  WizardInv' /\ StepOK
<1>1. page.flow = "sale" /\ page.device = "phone"
    BY DEF mobile_sale_step_qty_price, At
<1>2. /\ page \in Page /\ intent \in Intent /\ Len(page.acc) <= MaxLines
      /\ "lines" \in intent.lost \/ intent.lines = page.acc
      /\ "date" \in intent.lost \/ intent.date = page.date
    BY <1>1, SaleStarts
<1>3. PICK x : x = pick_batch(page.code, page.batch)
    OBVIOUS
<1>4. x \in Batch \cup {None}
    BY <1>3, BatchTypes
<1>5. PICK p : p = [page EXCEPT !.step = "qty", !.batch = x, !.picked = TRUE, !.next = FALSE]
    OBVIOUS
<1>6. p \in Page
    BY <1>2, <1>4, <1>5 DEF Page, Field
<1>7. /\ p.flow = "sale" /\ p.device = "phone" /\ p.step = "qty" /\ p.batch = x
      /\ p.acc = page.acc /\ p.date = page.date
    BY <1>1, <1>2, <1>5 DEF Page
<1>8. Shows(p, intent)
    BY <1>3, <1>5 DEF mobile_sale_step_qty_price
<1>9. QED
    BY <1>2, <1>4, <1>6, <1>7, <1>8, SaleShown, Fields

LEMMA BasketAddInv ==
    ASSUME WizardInv, mobile_sale_step_basket_add
    PROVE  WizardInv' /\ StepOK
<1>1. page.flow = "sale" /\ page.device = "phone"
    BY DEF mobile_sale_step_basket_add, At
<1>2. /\ page \in Page /\ intent \in Intent /\ page.batch \in Batch \cup {None}
      /\ page.acc \in Seq(AnyLine) /\ Len(page.acc) \in Nat
      /\ "lines" \in intent.lost \/ intent.lines = page.acc
      /\ "date" \in intent.lost \/ intent.date = page.date
    BY <1>1, SaleStarts
<1>3. PICK line : line = Line(page.code, page.batch)
    OBVIOUS
<1>4. line \in AnyLine
    BY <1>2, <1>3 DEF Line, AnyLine, Page
<1>5. PICK lines : lines = Append(page.acc, line)
    OBVIOUS
<1>6. lines \in Seq(AnyLine) /\ Len(lines) = Len(page.acc) + 1
    BY <1>2, <1>4, <1>5
<1>7. Len(lines) <= MaxLines
    BY <1>2, <1>6, WizardBounds DEF mobile_sale_step_basket_add
<1>8. PICK p : p = Basket(lines)
    OBVIOUS
<1>9. p \in Page
    BY <1>2, <1>6, <1>8 DEF Page, Field, Basket
<1>10. /\ p.flow = "sale" /\ p.device = "phone" /\ p.step = "basket" /\ p.batch = None
       /\ p.acc = lines /\ p.date = page.date
    BY <1>1, <1>2, <1>8 DEF Page, Basket
<1>11. PICK i : i = Adds(line)
    OBVIOUS
<1>12. /\ i \in Intent
       /\ "lines" \in i.lost \/ i.lines = p.acc
       /\ "date" \in i.lost \/ i.date = p.date
    <2>1. CASE "lines" \in intent.lost
        BY <1>2, <1>10, <1>11, <2>1 DEF Adds
    <2>2. CASE "lines" \notin intent.lost
        <3>1. i = [intent EXCEPT !.lines = lines]
            BY <1>2, <1>5, <1>11, <2>2 DEF Adds, Intent
        <3>2. QED
            BY <1>2, <1>6, <1>10, <3>1 DEF Intent
    <2>3. QED
        BY <2>1, <2>2
<1>13. Shows(p, i)
    BY <1>3, <1>5, <1>8, <1>11 DEF mobile_sale_step_basket_add
<1>14. QED
    BY <1>7, <1>9, <1>10, <1>12, <1>13, SaleShown, Fields

LEMMA RemoveLineInv ==
    ASSUME WizardInv, NEW k \in 1..MaxLines, RemoveLine(k)
    PROVE  WizardInv' /\ StepOK
<1>1. page.flow = "sale" /\ page.device = "phone" /\ page.step = "basket"
    BY DEF RemoveLine, At
<1>2. /\ page \in Page /\ intent \in Intent /\ page.batch \in Batch \cup {None}
      /\ page.acc \in Seq(AnyLine) /\ Len(page.acc) \in Nat /\ Len(page.acc) <= MaxLines
      /\ "lines" \in intent.lost \/ intent.lines = page.acc
      /\ "date" \in intent.lost \/ intent.date = page.date
    BY <1>1, SaleStarts
<1>3. PICK lines : lines = RemoveAt(page.acc, k)
    OBVIOUS
<1>4. lines \in Seq(AnyLine) /\ Len(lines) <= MaxLines
    <2>1. k \in 1..Len(page.acc)
        BY <1>2 DEF RemoveLine
    <2>2. PICK s, t : s = SubSeq(page.acc, 1, k - 1) /\ t = SubSeq(page.acc, k + 1, Len(page.acc))
        OBVIOUS
    <2>3. s \in Seq(AnyLine) /\ Len(s) = k - 1
        BY <1>2, <2>1, <2>2
    <2>4. t \in Seq(AnyLine) /\ Len(t) = Len(page.acc) - k
        BY <1>2, <2>1, <2>2
    <2>5. lines = s \o t
        BY <1>3, <2>2 DEF RemoveAt
    <2>6. lines \in Seq(AnyLine) /\ Len(lines) = Len(s) + Len(t)
        BY <2>3, <2>4, <2>5, ConcatProperties
    <2>7. QED
        BY <1>2, <2>1, <2>3, <2>4, <2>6, WizardBounds
<1>5. PICK p : p = [page EXCEPT !.acc = lines]
    OBVIOUS
<1>6. p \in Page
    BY <1>2, <1>4, <1>5 DEF Page
<1>7. /\ p.flow = "sale" /\ p.device = "phone" /\ p.step = "basket" /\ p.batch = page.batch
      /\ p.acc = lines /\ p.date = page.date
    BY <1>1, <1>2, <1>5 DEF Page
<1>8. PICK i : i = IF "lines" \in intent.lost THEN intent ELSE [intent EXCEPT !.lines = lines]
    OBVIOUS
<1>9. /\ i \in Intent
      /\ "lines" \in i.lost \/ i.lines = p.acc
      /\ "date" \in i.lost \/ i.date = p.date
    BY <1>2, <1>4, <1>7, <1>8 DEF Intent
<1>10. Shows(p, i)
    BY <1>3, <1>5, <1>8 DEF RemoveLine
<1>11. QED
    BY <1>2, <1>4, <1>6, <1>7, <1>9, <1>10, SaleShown, Fields

LEMMA MobileSaleInv ==
    ASSUME WizardInv, NEW confirm \in BOOLEAN, mobile_sale_create(confirm)
    PROVE  WizardInv' /\ StepOK
<1>1. page.flow = "sale" /\ page.device = "phone"
    BY DEF mobile_sale_create, At
<1>2. /\ page.acc \in Seq(AnyLine)
      /\ "lines" \in intent.lost \/ intent.lines = page.acc
    BY <1>1, SaleStarts
<1>3. QED
    BY <1>1, <1>2, Submitted DEF mobile_sale_create

LEMMA SaleWizardInv ==
    ASSUME WizardInv, SaleWizard
    PROVE  WizardInv' /\ StepOK
BY SaleProductInv, SaleBatchInv, BackToProductInv, AddMoreInv, BackToBatchInv, SaleQtyInv,
   BasketAddInv, RemoveLineInv, MobileSaleInv DEF SaleWizard

-----------------------------------------------------------------------------
(* The receipt wizard *)

LEMMA LineType ==
    ASSUME NEW c \in Code \cup {None}, NEW b \in Field
    PROVE  Line(c, b) \in AnyLine /\ <<Line(c, b)>> \in Seq(AnyLine)
BY DEF Line, AnyLine

(* A step of the phone's receipt: once a batch is chosen the line stands.  *)
LEMMA ReceiptShown ==
    ASSUME WizardInv, NEW p \in Page, NEW i \in Intent, Shows(p, i),
           page.flow = "receipt", page.device = "phone",
           p.flow = "receipt", p.device = "phone", p.step \notin {"mode", "value", "dest"},
           p.acc = page.acc, p.date = page.date,
           p.step \in {"details", "confirm"} => i.lines = <<Line(p.code, p.batch)>>,
           i.lost = intent.lost \/ i.lost = intent.lost \cup {"place"}, i.date = intent.date
    PROVE  WizardInv' /\ StepOK
<1>1. Faithful(page, intent)
    BY DEF WizardInv
<1>2. FieldsOK(p)
    BY <1>1 DEF FieldsOK, Faithful
<1>3. HoldsLines(p, i)
    BY DEF HoldsLines, Removal
<1>4. HoldsRest(p, i)
    BY <1>1 DEF HoldsRest, Faithful
<1>5. QED
    BY <1>2, <1>3, <1>4, Shown DEF Faithful

LEMMA ReceiptBatchInv ==
    ASSUME WizardInv, NEW c \in Code, NEW w \in Place, mobile_receipt_step_batch(c, w)
    PROVE  WizardInv' /\ StepOK
<1>1. page.flow = "receipt" /\ page.device = "phone"
    BY DEF mobile_receipt_step_batch, At
<1>2. page \in Page /\ intent \in Intent
    BY DEF WizardInv, Faithful
<1>3. PICK b : b = IF {x \in open_batches(c) : PlaceOf[x] = w} = {} THEN New ELSE None
    OBVIOUS
<1>4. b \in Field
    BY <1>3 DEF Field
<1>5. PICK p : p = [page EXCEPT !.step = "batch", !.code = c, !.place = w, !.batch = b]
    OBVIOUS
<1>6. p \in Page
    BY <1>2, <1>4, <1>5 DEF Page
<1>7. /\ p.flow = "receipt" /\ p.device = "phone" /\ p.step = "batch"
      /\ p.acc = page.acc /\ p.date = page.date
    BY <1>1, <1>2, <1>5 DEF Page
<1>8. PICK i : i = IF "place" \in intent.lost THEN intent ELSE [intent EXCEPT !.place = w]
    OBVIOUS
<1>9. i \in Intent /\ i.lost = intent.lost /\ i.date = intent.date
    BY <1>2, <1>8 DEF Intent
<1>10. Shows(p, i)
    BY <1>3, <1>5, <1>8 DEF mobile_receipt_step_batch
<1>11. QED
    BY <1>1, <1>6, <1>7, <1>9, <1>10, ReceiptShown

LEMMA ReceiptDetailsInv ==
    ASSUME WizardInv, NEW b \in Batch \cup {New}, mobile_receipt_step_details(b)
    PROVE  WizardInv' /\ StepOK
<1>1. page.flow = "receipt" /\ page.device = "phone"
    BY DEF mobile_receipt_step_details, At
<1>2. page \in Page /\ intent \in Intent
    BY DEF WizardInv, Faithful
<1>3. PICK p : p = [page EXCEPT !.step = "details", !.batch = b]
    OBVIOUS
<1>4. p \in Page
    BY <1>2, <1>3 DEF Page, Field
<1>5. /\ p.flow = "receipt" /\ p.device = "phone" /\ p.step = "details" /\ p.batch = b
      /\ p.code = page.code /\ p.acc = page.acc /\ p.date = page.date
    BY <1>1, <1>2, <1>3 DEF Page
<1>6. PICK s : s = <<Line(page.code, b)>>
    OBVIOUS
<1>7. s \in Seq(AnyLine)
    BY <1>2, <1>6, LineType DEF Page, Field
<1>8. PICK i : i = [intent EXCEPT !.lines = s]
    OBVIOUS
<1>9. i \in Intent /\ i.lost = intent.lost /\ i.date = intent.date /\ i.lines = s
    BY <1>2, <1>7, <1>8 DEF Intent
<1>10. Shows(p, i)
    BY <1>3, <1>6, <1>8 DEF mobile_receipt_step_details
<1>11. QED
    BY <1>1, <1>4, <1>5, <1>6, <1>9, <1>10, ReceiptShown

(* Forth to the last step and back.                                        *)
LEMMA ReceiptConfirmInv ==
    ASSUME WizardInv, mobile_receipt_step_confirm \/ BackToDetails
    PROVE  WizardInv' /\ StepOK
<1>1. /\ page.flow = "receipt" /\ page.device = "phone" /\ page.step \in {"details", "confirm"}
    BY DEF mobile_receipt_step_confirm, BackToDetails, At
<1>2. page \in Page /\ intent \in Intent /\ HoldsLines(page, intent)
    BY DEF WizardInv, Faithful
<1>3. PICK s \in {"details", "confirm"} : Shows([page EXCEPT !.step = s], intent)
    BY DEF mobile_receipt_step_confirm, BackToDetails
<1>4. PICK p : p = [page EXCEPT !.step = s]
    OBVIOUS
<1>5. p \in Page
    BY <1>2, <1>4 DEF Page
<1>6. /\ p.flow = "receipt" /\ p.device = "phone" /\ p.step = s /\ p.batch = page.batch
      /\ p.code = page.code /\ p.acc = page.acc /\ p.date = page.date
    BY <1>1, <1>2, <1>4 DEF Page
<1>7. intent.lines = <<Line(p.code, p.batch)>>
    BY <1>1, <1>2, <1>6 DEF HoldsLines
<1>8. QED
    BY <1>1, <1>2, <1>3, <1>4, <1>5, <1>6, <1>7, ReceiptShown

LEMMA BackToWarehouseInv ==
    ASSUME WizardInv, BackToWarehouse
    PROVE  WizardInv' /\ StepOK
<1>1. page.flow = "receipt" /\ page.device = "phone"
    BY DEF BackToWarehouse, At
<1>2. page \in Page /\ intent \in Intent
    BY DEF WizardInv, Faithful
<1>3. PICK p : p = [page EXCEPT !.step = "product", !.place = Default, !.batch = None]
    OBVIOUS
<1>4. p \in Page
    BY <1>2, <1>3 DEF Page, Field
<1>5. /\ p.flow = "receipt" /\ p.device = "phone" /\ p.step = "product"
      /\ p.acc = page.acc /\ p.date = page.date
    BY <1>1, <1>2, <1>3 DEF Page
<1>6. PICK i : i = IF page.place = Default THEN intent ELSE Drops("place", intent)
    OBVIOUS
<1>7. i.lost = intent.lost \/ i.lost = intent.lost \cup {"place"}
    BY <1>2, <1>6 DEF Drops, Intent
<1>8. i \in Intent /\ i.date = intent.date
    BY <1>2, <1>6, DropsType
<1>9. Shows(p, i)
    BY <1>3, <1>6 DEF BackToWarehouse
<1>10. QED
    BY <1>1, <1>4, <1>5, <1>7, <1>8, <1>9, ReceiptShown

LEMMA MobileReceiptInv ==
    ASSUME WizardInv, mobile_receipt_create
    PROVE  WizardInv' /\ StepOK
<1>1. page.flow = "receipt" /\ page.device = "phone" /\ page.step = "confirm"
    BY DEF mobile_receipt_create, At
<1>2. page \in Page /\ HoldsLines(page, intent)
    BY DEF WizardInv, Faithful
<1>3. <<Line(page.code, page.batch)>> \in Seq(AnyLine)
    BY <1>2, LineType DEF Page
<1>4. intent.lines = <<Line(page.code, page.batch)>>
    BY <1>1, <1>2 DEF HoldsLines
<1>5. QED
    BY <1>1, <1>3, <1>4, Submitted DEF mobile_receipt_create

LEMMA ReceiptWizardInv ==
    ASSUME WizardInv, ReceiptWizard
    PROVE  WizardInv' /\ StepOK
BY ReceiptBatchInv, ReceiptDetailsInv, ReceiptConfirmInv, BackToWarehouseInv, MobileReceiptInv
   DEF ReceiptWizard

-----------------------------------------------------------------------------
(* The wizards of goods that leave a batch *)

LEMMA RemovalShown ==
    ASSUME WizardInv, NEW p \in Page, NEW i \in Intent, Shows(p, i),
           p.flow \in Removal, p.flow = page.flow, p.device = "phone",
           p.step \in {"mode", "value", "dest"} => p.batch \in Batch,
           p.batch # New, p.acc = page.acc,
           p.step \in Chosen /\ p.batch # None => i.lines = <<Line(p.code, p.batch)>>,
           "date" \in i.lost \/ i.date = p.date
    PROVE  WizardInv' /\ StepOK
<1>1. Faithful(page, intent)
    BY DEF WizardInv
<1>2. FieldsOK(p)
    BY <1>1 DEF FieldsOK, Faithful
<1>3. HoldsLines(p, i)
    BY DEF HoldsLines, Removal
<1>4. HoldsRest(p, i)
    BY DEF HoldsRest
<1>5. QED
    BY <1>2, <1>3, <1>4, Shown DEF Faithful

LEMMA RemovalStarts ==
    ASSUME WizardInv, page.flow \in Removal, page.device = "phone"
    PROVE  /\ page \in Page /\ intent \in Intent /\ page.batch \in Batch \cup {None}
           /\ page.step \in {"mode", "value", "dest"} => page.batch \in Batch
           /\ page.step \in Chosen /\ page.batch # None =>
                 intent.lines = <<Line(page.code, page.batch)>>
           /\ "date" \in intent.lost \/ intent.date = page.date
<1>1. Faithful(page, intent) /\ page \in Page /\ intent \in Intent
    BY DEF WizardInv, Faithful
<1>2. page.batch \in Field
    BY <1>1 DEF Page
<1>3. page.flow # "receipt"
    BY DEF Removal
<1>4. QED
    BY <1>1, <1>2, <1>3 DEF Faithful, FieldsOK, HoldsLines, HoldsRest, Field

(* A step that changes neither the code nor the batch.                     *)
LEMMA RemovalKeeps ==
    ASSUME WizardInv, NEW p \in Page, Shows(p, intent),
           page.flow \in Removal, page.device = "phone", page.step \in Chosen,
           p.flow = page.flow, p.device = page.device, p.code = page.code, p.batch = page.batch,
           p.acc = page.acc, p.date = page.date,
           p.step \in {"mode", "value", "dest"} => page.batch \in Batch
    PROVE  WizardInv' /\ StepOK
<1>1. /\ page \in Page /\ intent \in Intent /\ page.batch \in Batch \cup {None}
      /\ page.step \in Chosen /\ page.batch # None =>
            intent.lines = <<Line(page.code, page.batch)>>
      /\ "date" \in intent.lost \/ intent.date = page.date
    BY RemovalStarts
<1>2. page.batch # New
    BY <1>1, Fields
<1>3. QED
    BY <1>1, <1>2, RemovalShown

(* Back to the first step: no batch is picked there.                       *)
LEMMA RemovalRestarts ==
    ASSUME WizardInv, page.flow \in Removal, page.device = "phone",
           Shows([page EXCEPT !.step = "product", !.batch = None, !.next = FALSE], intent)
    PROVE  WizardInv' /\ StepOK
<1>1. /\ page \in Page /\ intent \in Intent
      /\ "date" \in intent.lost \/ intent.date = page.date
    BY RemovalStarts
<1>2. PICK p : p = [page EXCEPT !.step = "product", !.batch = None, !.next = FALSE]
    OBVIOUS
<1>3. p \in Page
    BY <1>1, <1>2 DEF Page, Field
<1>4. /\ p.flow = page.flow /\ p.device = "phone" /\ p.step = "product" /\ p.batch = None
      /\ p.acc = page.acc /\ p.date = page.date
    BY <1>1, <1>2 DEF Page
<1>5. Shows(p, intent)
    BY <1>2
<1>6. QED
    BY <1>1, <1>3, <1>4, <1>5, RemovalShown, Fields

LEMMA BatchesType ==
    ASSUME NEW q \in Page, NEW c \in Code \cup {None}
    PROVE  /\ Batches(c, q) \in Page /\ Batches(c, q).step = "batch"
           /\ Batches(c, q).batch = None /\ Batches(c, q).code = c
           /\ Batches(c, q).flow = q.flow /\ Batches(c, q).device = q.device
           /\ Batches(c, q).acc = q.acc /\ Batches(c, q).date = q.date
<1>1. PICK r : r = [q EXCEPT !.step = "batch", !.code = c, !.batch = None, !.warned = FALSE]
    OBVIOUS
<1>2. PICK n \in BOOLEAN : n = (open_batches(c) # {})
    BY Zenon
<1>3. r \in Page
    BY <1>1 DEF Page, Field
<1>4. PICK p : p = [r EXCEPT !.next = n]
    OBVIOUS
<1>5. p \in Page
    BY <1>2, <1>3, <1>4, NamedField
<1>6. p = Batches(c, q)
    BY <1>1, <1>2, <1>4, Zenon DEF Page, Batches
<1>7. /\ p.step = "batch" /\ p.batch = None /\ p.code = c /\ p.flow = q.flow
      /\ p.device = q.device /\ p.acc = q.acc /\ p.date = q.date
    BY <1>1, <1>4 DEF Page
<1>8. QED
    BY <1>5, <1>6, <1>7

(* The second step, or the first again for a code nobody knows.            *)
LEMMA RemovalBatches ==
    ASSUME WizardInv, page.flow \in Removal, page.device = "phone", NEW c \in Code,
           Shows(IF find_product(c) THEN Batches(c, page)
                 ELSE [page EXCEPT !.step = "product", !.code = c], intent)
    PROVE  WizardInv' /\ StepOK
<1>1. /\ page \in Page /\ intent \in Intent /\ page.batch \in Batch \cup {None}
      /\ "date" \in intent.lost \/ intent.date = page.date
    BY RemovalStarts
<1>2. PICK p : p = IF find_product(c) THEN Batches(c, page)
                   ELSE [page EXCEPT !.step = "product", !.code = c]
    OBVIOUS
<1>3. /\ p \in Page /\ p.flow = page.flow /\ p.device = "phone"
      /\ p.acc = page.acc /\ p.date = page.date
      /\ p.step \in {"batch", "product"} /\ p.batch \in Batch \cup {None}
      /\ p.step \in Chosen => p.batch = None
    <2>1. CASE find_product(c)
        BY <1>1, <1>2, <2>1, BatchesType
    <2>2. CASE ~find_product(c)
        <3>1. p = [page EXCEPT !.step = "product", !.code = c]
            BY <1>2, <2>2
        <3>2. p \in Page
            BY <1>1, <3>1 DEF Page
        <3>3. /\ p.flow = page.flow /\ p.device = "phone" /\ p.step = "product"
              /\ p.acc = page.acc /\ p.date = page.date /\ p.batch = page.batch
            BY <1>1, <3>1 DEF Page
        <3>4. QED
            BY <1>1, <3>2, <3>3 DEF Chosen
    <2>3. QED
        BY <2>1, <2>2
<1>4. Shows(p, intent)
    BY <1>2
<1>5. QED
    BY <1>1, <1>3, <1>4, RemovalShown, Fields

(* A card is tapped: the clerk means its batch.                            *)
LEMMA IntendsType ==
    ASSUME page \in Page, NEW i \in Intent, NEW b \in Batch
    PROVE  /\ Intends(b, i) \in Intent /\ Intends(b, i).lines = <<Line(page.code, b)>>
           /\ Intends(b, i).lost = i.lost /\ Intends(b, i).date = i.date
<1>1. PICK s : s = <<Line(page.code, b)>>
    OBVIOUS
<1>2. s \in Seq(AnyLine)
    BY <1>1, LineType DEF Page, Field
<1>3. QED
    BY <1>1, <1>2 DEF Intends, Intent

LEMMA RemovalPicks ==
    ASSUME WizardInv, page.flow \in Removal, page.device = "phone", NEW b \in Batch,
           NEW p \in Page, Shows(p, Intends(b, intent)),
           p.flow = page.flow, p.device = page.device, p.code = page.code,
           p.acc = page.acc, p.date = page.date, p.batch \in {b, None},
           p.step \in {"mode", "value", "dest"} => p.batch = b
    PROVE  WizardInv' /\ StepOK
<1>1. /\ page \in Page /\ intent \in Intent
      /\ "date" \in intent.lost \/ intent.date = page.date
    BY RemovalStarts
<1>2. PICK i : i = Intends(b, intent)
    OBVIOUS
<1>3. /\ i \in Intent /\ i.lines = <<Line(page.code, b)>> /\ i.lost = intent.lost
      /\ i.date = intent.date
    BY <1>1, <1>2, IntendsType
<1>4. p.batch # New
    BY Fields
<1>5. Shows(p, i)
    BY <1>2
<1>6. QED
    BY <1>1, <1>3, <1>4, <1>5, RemovalShown

(* The line of a page without a batch is refused.                          *)
LEMMA OneLine ==
    ASSUME WizardInv, page.flow \in Removal, page.device = "phone", page.step \in Chosen,
           NEW sign \in {-1, 1}, NEW confirm \in BOOLEAN,
           Submits(<<Line(page.code, page.batch)>>, None, sign, confirm)
    PROVE  WizardInv' /\ StepOK
<1>1. /\ page \in Page
      /\ page.batch # None => intent.lines = <<Line(page.code, page.batch)>>
    BY RemovalStarts
<1>2. PICK lines : lines = <<Line(page.code, page.batch)>>
    OBVIOUS
<1>3. lines \in Seq(AnyLine)
    BY <1>1, <1>2, LineType DEF Page
<1>4. page.batch = None => Refused(lines, page.date)
    <2>1. ASSUME page.batch = None PROVE Refused(lines, page.date)
        <3>1. lines[1] \in ToSet(lines) /\ lines[1].code = page.code /\ lines[1].batch = None
            BY <1>2, <2>1 DEF ToSet, Line
        <3>2. pick_batch(page.code, None) = None /\ None # New
            BY Fields DEF pick_batch
        <3>3. QED
            BY <3>1, <3>2 DEF Refused
    <2>2. QED
        BY <2>1
<1>5. page.flow # "sale"
    BY DEF Removal
<1>6. Submits(lines, None, sign, confirm)
    BY <1>2
<1>7. QED
    BY <1>1, <1>2, <1>3, <1>4, <1>5, <1>6, Submitted

LEMMA WriteoffStepsInv ==
    ASSUME WizardInv,
           \/ mobile_writeoff_start
           \/ \E c \in Code : mobile_writeoff_step_batch(c)
           \/ \E b \in Batch : mobile_writeoff_step_batch_pick(b)
           \/ mobile_writeoff_step_qty \/ mobile_writeoff_step_reason
           \/ \E confirm \in BOOLEAN : mobile_writeoff_submit(confirm)
    PROVE  WizardInv' /\ StepOK
<1>1. page \in Page
    BY DEF WizardInv, Faithful
<1>2. CASE mobile_writeoff_start
    BY <1>2, Opened, RemovalRestarts DEF mobile_writeoff_start, At, Removal
<1>3. CASE \E c \in Code : mobile_writeoff_step_batch(c)
    BY <1>3, RemovalBatches DEF mobile_writeoff_step_batch, At, Removal
<1>4. ASSUME NEW b \in Batch, mobile_writeoff_step_batch_pick(b)
      PROVE  WizardInv' /\ StepOK
    <2>1. page.flow = "writeoff" /\ page.device = "phone" /\ page.step = "batch"
        BY <1>4 DEF mobile_writeoff_step_batch_pick, At
    <2>2. PICK p : p = [page EXCEPT !.batch = pick_batch(page.code, b)]
        OBVIOUS
    <2>3. pick_batch(page.code, b) \in {b, None}
        BY DEF pick_batch
    <2>4. /\ p \in Page /\ p.flow = page.flow /\ p.device = page.device /\ p.code = page.code
          /\ p.acc = page.acc /\ p.date = page.date /\ p.batch \in {b, None} /\ p.step = "batch"
        BY <1>1, <2>1, <2>2, <2>3 DEF Page, Field
    <2>5. Shows(p, Intends(b, intent))
        BY <1>4, <2>2 DEF mobile_writeoff_step_batch_pick
    <2>6. QED
        BY <2>1, <2>4, <2>5, RemovalPicks DEF Removal
<1>5. ASSUME mobile_writeoff_step_qty
      PROVE  WizardInv' /\ StepOK
    <2>1. page.flow = "writeoff" /\ page.device = "phone" /\ page.step \in {"batch", "reason"}
        BY <1>5 DEF mobile_writeoff_step_qty, At
    <2>2. PICK p : p = [page EXCEPT !.step = "qty", !.next = FALSE, !.warned = FALSE]
        OBVIOUS
    <2>3. p \in Page
        BY <1>1, <2>2 DEF Page
    <2>4. /\ p.flow = page.flow /\ p.device = page.device /\ p.code = page.code
          /\ p.batch = page.batch /\ p.acc = page.acc /\ p.date = page.date /\ p.step = "qty"
        BY <1>1, <2>2 DEF Page
    <2>5. Shows(p, intent)
        BY <1>5, <2>2 DEF mobile_writeoff_step_qty
    <2>6. QED
        BY <2>1, <2>3, <2>4, <2>5, RemovalKeeps DEF Removal, Chosen
<1>6. ASSUME mobile_writeoff_step_reason
      PROVE  WizardInv' /\ StepOK
    <2>1. page.flow = "writeoff" /\ page.device = "phone" /\ page.step = "qty"
        BY <1>6 DEF mobile_writeoff_step_reason, At
    <2>2. PICK p : p = [page EXCEPT !.step = "reason"]
        OBVIOUS
    <2>3. p \in Page
        BY <1>1, <2>2 DEF Page
    <2>4. /\ p.flow = page.flow /\ p.device = page.device /\ p.code = page.code
          /\ p.batch = page.batch /\ p.acc = page.acc /\ p.date = page.date /\ p.step = "reason"
        BY <1>1, <2>2 DEF Page
    <2>5. Shows(p, intent)
        BY <1>6, <2>2 DEF mobile_writeoff_step_reason
    <2>6. QED
        BY <2>1, <2>3, <2>4, <2>5, RemovalKeeps DEF Removal, Chosen
<1>7. CASE \E confirm \in BOOLEAN : mobile_writeoff_submit(confirm)
    BY <1>7, OneLine DEF mobile_writeoff_submit, At, Removal, Chosen
<1>8. QED
    BY <1>2, <1>3, <1>4, <1>5, <1>6, <1>7

LEMMA CorrectionStepsInv ==
    ASSUME WizardInv,
           \/ mobile_correction_start
           \/ \E c \in Code : mobile_correction_step_batch(c)
           \/ \E b \in Batch : mobile_correction_batch_pick(b)
           \/ mobile_correction_step_mode \/ mobile_correction_step_value
           \/ \E confirm \in BOOLEAN, sign \in {-1, 1} : mobile_correction_create(sign, confirm)
    PROVE  WizardInv' /\ StepOK
<1>1. page \in Page
    BY DEF WizardInv, Faithful
<1>2. CASE mobile_correction_start
    BY <1>2, Opened, RemovalRestarts DEF mobile_correction_start, At, Removal
<1>3. CASE \E c \in Code : mobile_correction_step_batch(c)
    BY <1>3, RemovalBatches DEF mobile_correction_step_batch, At, Removal
<1>4. ASSUME NEW b \in Batch, mobile_correction_batch_pick(b)
      PROVE  WizardInv' /\ StepOK
    <2>1. page.flow = "correction" /\ page.device = "phone" /\ page.step = "batch"
        BY <1>4 DEF mobile_correction_batch_pick, At
    <2>2. PICK x \in {b, None} : x = pick_batch(page.code, b)
        BY DEF pick_batch
    <2>3. PICK q : q = [page EXCEPT !.batch = x]
        OBVIOUS
    <2>4. PICK n \in BOOLEAN : n = (open_batches(page.code) # {})
        BY Zenon
    <2>5. PICK p : p = [q EXCEPT !.next = n]
        OBVIOUS
    <2>6. q \in Page
        BY <1>1, <2>2, <2>3 DEF Page, Field
    <2>7. p \in Page
        BY <2>4, <2>5, <2>6, NamedField
    <2>8. /\ p.flow = page.flow /\ p.device = page.device /\ p.code = page.code
          /\ p.acc = page.acc /\ p.date = page.date /\ p.batch = x /\ p.step = "batch"
        BY <1>1, <2>1, <2>3, <2>5 DEF Page
    <2>9. p = [page EXCEPT !.batch = pick_batch(page.code, b),
                           !.next = open_batches(page.code) # {}]
        BY <1>1, <2>2, <2>3, <2>4, <2>5, Zenon DEF Page
    <2>10. Shows(p, Intends(b, intent))
        BY <1>4, <2>9 DEF mobile_correction_batch_pick
    <2>11. QED
        BY <2>1, <2>2, <2>7, <2>8, <2>10, RemovalPicks DEF Removal
<1>5. ASSUME mobile_correction_step_mode
      PROVE  WizardInv' /\ StepOK
    <2>1. page.flow = "correction" /\ page.device = "phone" /\ page.step \in {"batch", "value"}
        BY <1>5 DEF mobile_correction_step_mode, At
    <2>2. PICK p : p = [page EXCEPT !.step = "mode", !.next = FALSE, !.warned = FALSE]
        OBVIOUS
    <2>3. p \in Page
        BY <1>1, <2>2 DEF Page
    <2>4. /\ p.flow = page.flow /\ p.device = page.device /\ p.code = page.code
          /\ p.batch = page.batch /\ p.acc = page.acc /\ p.date = page.date
        BY <1>1, <2>2 DEF Page
    <2>5. Shows(p, intent)
        BY <1>5, <2>2 DEF mobile_correction_step_mode
    <2>6. page.batch \in Batch
        BY <1>5, <2>1, RemovalStarts DEF mobile_correction_step_mode, Removal
    <2>7. QED
        BY <2>1, <2>3, <2>4, <2>5, <2>6, RemovalKeeps DEF Removal, Chosen
<1>6. ASSUME mobile_correction_step_value
      PROVE  WizardInv' /\ StepOK
    <2>1. page.flow = "correction" /\ page.device = "phone" /\ page.step = "mode"
        BY <1>6 DEF mobile_correction_step_value, At
    <2>2. PICK p : p = [page EXCEPT !.step = "value"]
        OBVIOUS
    <2>3. p \in Page
        BY <1>1, <2>2 DEF Page
    <2>4. /\ p.flow = page.flow /\ p.device = page.device /\ p.code = page.code
          /\ p.batch = page.batch /\ p.acc = page.acc /\ p.date = page.date
        BY <1>1, <2>2 DEF Page
    <2>5. Shows(p, intent)
        BY <1>6, <2>2 DEF mobile_correction_step_value
    <2>6. page.batch \in Batch
        BY <2>1, RemovalStarts DEF Removal
    <2>7. QED
        BY <2>1, <2>3, <2>4, <2>5, <2>6, RemovalKeeps DEF Removal, Chosen
<1>7. CASE \E confirm \in BOOLEAN, sign \in {-1, 1} : mobile_correction_create(sign, confirm)
    BY <1>7, OneLine DEF mobile_correction_create, At, Removal, Chosen
<1>8. QED
    BY <1>2, <1>3, <1>4, <1>5, <1>6, <1>7

LEMMA MovesInv ==
    ASSUME WizardInv, NEW confirm \in BOOLEAN, mobile_transfers_create(confirm)
    PROVE  WizardInv' /\ StepOK
BY OneLine DEF mobile_transfers_create, MovesGoods, At, Removal, Chosen

LEMMA TransferStepsInv ==
    ASSUME WizardInv,
           \/ transfers_step_product
           \/ \E c \in Code : transfers_step_batch(c)
           \/ \E b \in Batch : transfers_step_batch_pick(b)
           \/ \E w \in Place : transfers_step_dest_prices(w)
           \/ \E confirm \in BOOLEAN : mobile_transfers_create(confirm)
    PROVE  WizardInv' /\ StepOK
<1>1. page \in Page /\ intent \in Intent
    BY DEF WizardInv, Faithful
<1>2. CASE transfers_step_product
    BY <1>2, Opened, RemovalRestarts DEF transfers_step_product, At, Removal
<1>3. ASSUME NEW c \in Code, transfers_step_batch(c)
      PROVE  WizardInv' /\ StepOK
    <2>1. page.flow = "transfer" /\ page.device = "phone"
        BY <1>3 DEF transfers_step_batch, At
    <2>2. "date" \in intent.lost \/ intent.date = page.date
        BY <2>1, RemovalStarts DEF Removal
    <2>3. PICK q : q = Batches(c, page)
        OBVIOUS
    <2>4. /\ q \in Page /\ q.step = "batch" /\ q.batch = None /\ q.flow = "transfer"
          /\ q.device = "phone" /\ q.acc = page.acc
        BY <1>1, <2>1, <2>3, BatchesType
    <2>5. PICK p : p = [q EXCEPT !.date = page.echo]
        OBVIOUS
    <2>6. p \in Page
        BY <1>1, <2>4, <2>5 DEF Page
    <2>7. /\ p.step = "batch" /\ p.batch = None /\ p.flow = "transfer"
          /\ p.device = "phone" /\ p.acc = page.acc /\ p.date = page.echo
        BY <2>4, <2>5 DEF Page
    <2>8. PICK i : i = IF page.date = page.echo THEN intent ELSE Drops("date", intent)
        OBVIOUS
    <2>9. /\ i \in Intent
          /\ "date" \in i.lost \/ i.date = p.date
        BY <1>1, <2>2, <2>7, <2>8, DropsType
    <2>10. Shows(p, i)
        BY <1>3, <2>3, <2>5, <2>8 DEF transfers_step_batch
    <2>11. QED
        BY <2>1, <2>6, <2>7, <2>9, <2>10, RemovalShown, Fields DEF Removal
<1>4. ASSUME NEW b \in Batch, transfers_step_batch_pick(b)
      PROVE  WizardInv' /\ StepOK
    <2>1. page.flow = "transfer" /\ page.device = "phone"
        BY <1>4 DEF transfers_step_batch_pick, At
    <2>2. PICK p : p = IF pick_batch(page.code, b) = None THEN Batches(page.code, page)
                       ELSE [page EXCEPT !.step = "dest", !.batch = b, !.next = FALSE]
        OBVIOUS
    <2>3. /\ p \in Page /\ p.flow = page.flow /\ p.device = page.device /\ p.code = page.code
          /\ p.acc = page.acc /\ p.date = page.date /\ p.batch \in {b, None}
          /\ p.step \in {"mode", "value", "dest"} => p.batch = b
        <3>1. CASE pick_batch(page.code, b) = None
            <4>1. page.code \in Code \cup {None}
                BY <1>1 DEF Page
            <4>2. QED
                BY <1>1, <2>2, <3>1, <4>1, BatchesType
        <3>2. CASE pick_batch(page.code, b) # None
            <4>1. p = [page EXCEPT !.step = "dest", !.batch = b, !.next = FALSE]
                BY <2>2, <3>2
            <4>2. p \in Page
                BY <1>1, <4>1 DEF Page, Field
            <4>3. /\ p.flow = page.flow /\ p.device = page.device /\ p.code = page.code
                  /\ p.acc = page.acc /\ p.date = page.date /\ p.batch = b
                BY <1>1, <4>1 DEF Page
            <4>4. QED
                BY <4>2, <4>3
        <3>3. QED
            BY <3>1, <3>2
    <2>4. Shows(p, Intends(b, intent))
        BY <1>4, <2>2 DEF transfers_step_batch_pick
    <2>5. QED
        BY <2>1, <2>3, <2>4, RemovalPicks DEF Removal
<1>5. ASSUME NEW w \in Place, transfers_step_dest_prices(w)
      PROVE  WizardInv' /\ StepOK
    <2>1. page.flow = "transfer" /\ page.device = "phone" /\ page.step = "dest"
        BY <1>5 DEF transfers_step_dest_prices, At
    <2>2. /\ page.batch \in Batch /\ intent.lines = <<Line(page.code, page.batch)>>
          /\ "date" \in intent.lost \/ intent.date = page.date
        BY <2>1, RemovalStarts, Fields DEF Removal, Chosen
    <2>3. PICK p : p = [page EXCEPT !.place = w]
        OBVIOUS
    <2>4. p \in Page
        BY <1>1, <2>3 DEF Page
    <2>5. /\ p.flow = page.flow /\ p.device = page.device /\ p.code = page.code
          /\ p.batch = page.batch /\ p.acc = page.acc /\ p.date = page.date /\ p.step = "dest"
        BY <1>1, <2>1, <2>3 DEF Page
    <2>6. PICK i : i = [intent EXCEPT !.place = w]
        OBVIOUS
    <2>7. i \in Intent /\ i.lines = intent.lines /\ i.lost = intent.lost /\ i.date = intent.date
        BY <1>1, <2>6 DEF Intent
    <2>8. Shows(p, i)
        BY <1>5, <2>3, <2>6 DEF transfers_step_dest_prices
    <2>9. QED
        BY <2>1, <2>2, <2>4, <2>5, <2>7, <2>8, RemovalShown, Fields DEF Removal
<1>6. CASE \E confirm \in BOOLEAN : mobile_transfers_create(confirm)
    BY <1>6, MovesInv
<1>7. QED
    BY <1>2, <1>3, <1>4, <1>5, <1>6

LEMMA StockWizardsInv ==
    ASSUME WizardInv, StockWizards
    PROVE  WizardInv' /\ StepOK
BY WriteoffStepsInv, CorrectionStepsInv, TransferStepsInv DEF StockWizards

-----------------------------------------------------------------------------
(* The forms of the desktop *)

LEMMA RowsType ==
    ASSUME NEW p \in Page
    PROVE  /\ RowsOf(p) \in Seq(AnyLine) /\ Line(p.code, p.batch) \in AnyLine
           /\ p.code # None => RowsOf(p) = Append(p.acc, Line(p.code, p.batch))
           /\ p.code = None => RowsOf(p) = p.acc
           /\ Len(Append(p.acc, Line(p.code, p.batch))) = Len(p.acc) + 1
           /\ Len(p.acc) \in Nat
<1>1. Line(p.code, p.batch) \in AnyLine /\ p.acc \in Seq(AnyLine)
    BY LineType DEF Page
<1>2. PICK l \in AnyLine : l = Line(p.code, p.batch)
    BY <1>1
<1>3. /\ Append(p.acc, l) \in Seq(AnyLine) /\ Len(Append(p.acc, l)) = Len(p.acc) + 1
      /\ Len(p.acc) \in Nat
    BY <1>1
<1>4. QED
    BY <1>1, <1>2, <1>3 DEF RowsOf

(* A form shown with the rows the clerk has entered.                       *)
LEMMA DeskShown ==
    ASSUME WizardInv, page.device = "desk", page.step = "form",
           NEW p \in Page, NEW i \in Intent, Shows(p, i),
           p.flow = page.flow, p.device = "desk", p.step = "form",
           Len(p.acc) <= MaxLines, p.flow # "sale" => p.acc = page.acc,
           p.flow # "receipt" => p.batch # New,
           p.mode = page.mode, p.customer = page.customer, p.typed = page.typed,
           p.date = page.date,
           i.lines = RowsOf(p), i.date = intent.date, i.lost = intent.lost,
           i.customer = intent.customer
    PROVE  WizardInv' /\ StepOK
<1>1. Faithful(page, intent)
    BY DEF WizardInv
<1>2. FieldsOK(p)
    BY <1>1 DEF FieldsOK, Faithful
<1>3. HoldsLines(p, i)
    BY DEF HoldsLines
<1>4. Means(p) = Means(page)
    BY DEF Means
<1>5. HoldsRest(p, i)
    BY <1>1, <1>4 DEF HoldsRest, Faithful
<1>6. QED
    BY <1>2, <1>3, <1>5, Shown DEF Faithful

LEMMA DeskStarts ==
    ASSUME WizardInv, page.device = "desk"
    PROVE  /\ page \in Page /\ intent \in Intent /\ page.batch \in Field
           /\ page.flow # "receipt" => page.batch # New
           /\ page.flow # "sale" => page.acc = <<>>
           /\ Len(page.acc) <= MaxLines
           /\ intent.lines = RowsOf(page)
           /\ page.flow = "sale" => intent.customer = Means(page)
<1>1. Faithful(page, intent) /\ page \in Page /\ intent \in Intent
    BY DEF WizardInv, Faithful
<1>2. page.batch \in Field
    BY <1>1 DEF Page
<1>3. QED
    BY <1>1, <1>2 DEF Faithful, FieldsOK, HoldsLines, HoldsRest

LEMMA EditsInv ==
    ASSUME WizardInv, page.device = "desk", page.step = "form", NEW p \in Page, Edits(p),
           p.flow = page.flow, p.device = "desk", p.step = "form",
           Len(p.acc) <= MaxLines, p.flow # "sale" => p.acc = page.acc,
           p.flow # "receipt" => p.batch # New,
           p.mode = page.mode, p.customer = page.customer, p.typed = page.typed,
           p.date = page.date
    PROVE  WizardInv' /\ StepOK
<1>1. page \in Page /\ intent \in Intent
    BY DeskStarts
<1>2. PICK s : s = RowsOf(p)
    OBVIOUS
<1>3. s \in Seq(AnyLine)
    BY <1>2, RowsType
<1>4. PICK i : i = [intent EXCEPT !.lines = s]
    OBVIOUS
<1>5. /\ i \in Intent /\ i.lines = s /\ i.date = intent.date /\ i.lost = intent.lost
      /\ i.customer = intent.customer
    BY <1>1, <1>3, <1>4 DEF Intent
<1>6. Shows(p, i)
    BY <1>2, <1>4 DEF Edits
<1>7. QED
    BY <1>2, <1>5, <1>6, DeskShown

LEMMA LookupInv ==
    ASSUME WizardInv, page.device = "desk", page.step = "form",
           NEW c \in Code, NEW picked \in Field, page.flow # "receipt" => picked # New,
           Lookup(c, picked)
    PROVE  WizardInv' /\ StepOK
<1>1. /\ page \in Page /\ page.batch \in Field /\ Len(page.acc) <= MaxLines
      /\ page.flow # "receipt" => page.batch # New
    BY DeskStarts
<1>2. ASSUME NEW b \in Field, NEW p, NEW n, n \in BOOLEAN,
             page.flow # "receipt" => b # New,
             p = [page EXCEPT !.code = c, !.named = n, !.batch = b], Edits(p)
      PROVE  WizardInv' /\ StepOK
    <2>1. PICK q : q = [page EXCEPT !.code = c, !.batch = b]
        OBVIOUS
    <2>2. q \in Page
        BY <1>1, <2>1 DEF Page
    <2>3. p = [q EXCEPT !.named = n]
        BY <1>1, <1>2, <2>1 DEF Page
    <2>4. p \in Page
        <3>1. n \in BOOLEAN
            BY <1>2
        <3>2. QED
            BY <2>2, <2>3, <3>1, NamedField, Zenon
    <2>5. /\ p.flow = page.flow /\ p.device = "desk" /\ p.step = "form" /\ p.batch = b
          /\ p.acc = page.acc /\ p.mode = page.mode /\ p.customer = page.customer
          /\ p.typed = page.typed /\ p.date = page.date
        BY <1>1, <2>1, <2>3 DEF Page
    <2>6. QED
        BY <1>1, <1>2, <2>4, <2>5, EditsInv
<1>3. CASE page.named \/ (~find_product(c) /\ c \notin Dictionary)
    <2>1. PICK p : p = [page EXCEPT !.code = c]
        OBVIOUS
    <2>2. p \in Page
        BY <1>1, <2>1 DEF Page
    <2>3. /\ p.flow = page.flow /\ p.device = "desk" /\ p.step = "form" /\ p.batch = page.batch
          /\ p.acc = page.acc /\ p.mode = page.mode /\ p.customer = page.customer
          /\ p.typed = page.typed /\ p.date = page.date
        BY <1>1, <2>1 DEF Page
    <2>4. Edits(p)
        BY <1>3, <2>1 DEF Lookup
    <2>5. QED
        BY <1>1, <2>2, <2>3, <2>4, EditsInv
<1>4. CASE ~(page.named \/ (~find_product(c) /\ c \notin Dictionary))
    BY <1>2, <1>4 DEF Lookup
<1>5. QED
    BY <1>3, <1>4

LEMMA PickInv ==
    ASSUME WizardInv, page.device = "desk", page.step = "form", NEW b, Pick(b)
    PROVE  WizardInv' /\ StepOK
<1>1. page \in Page /\ Len(page.acc) <= MaxLines
    BY DeskStarts
<1>2. PICK x \in Batch \cup {None} : x = pick_batch(page.code, b)
    BY BatchTypes
<1>3. PICK p : p = [page EXCEPT !.batch = x]
    OBVIOUS
<1>4. p \in Page
    BY <1>1, <1>3 DEF Page, Field
<1>5. /\ p.flow = page.flow /\ p.device = "desk" /\ p.step = "form" /\ p.batch = x
      /\ p.acc = page.acc /\ p.mode = page.mode /\ p.customer = page.customer
      /\ p.typed = page.typed /\ p.date = page.date
    BY <1>1, <1>3 DEF Page
<1>6. Edits(p)
    BY <1>2, <1>3 DEF Pick
<1>7. QED
    BY <1>1, <1>2, <1>4, <1>5, <1>6, EditsInv, Fields

LEMMA ReceiptRowInv ==
    ASSUME WizardInv, NEW w \in Place, NEW b \in Batch \cup {New}, receipt_batches(w, b)
    PROVE  WizardInv' /\ StepOK
<1>1. page.flow = "receipt" /\ page.device = "desk" /\ page.step = "form"
    BY DEF receipt_batches, Form, At
<1>2. page \in Page /\ intent \in Intent /\ Len(page.acc) <= MaxLines
    BY <1>1, DeskStarts
<1>3. PICK p : p = [page EXCEPT !.place = w, !.batch = b]
    OBVIOUS
<1>4. p \in Page
    BY <1>2, <1>3 DEF Page, Field
<1>5. /\ p.flow = "receipt" /\ p.device = "desk" /\ p.step = "form"
      /\ p.acc = page.acc /\ p.mode = page.mode /\ p.customer = page.customer
      /\ p.typed = page.typed /\ p.date = page.date
    BY <1>1, <1>2, <1>3 DEF Page
<1>6. PICK s \in Seq(AnyLine) : s = RowsOf(p)
    BY <1>4, RowsType
<1>7. PICK i : i = [intent EXCEPT !.lines = s, !.place = w]
    OBVIOUS
<1>8. /\ i \in Intent /\ i.lines = s /\ i.date = intent.date /\ i.lost = intent.lost
      /\ i.customer = intent.customer
    BY <1>2, <1>6, <1>7 DEF Intent
<1>9. Shows(p, i)
    BY <1>3, <1>6, <1>7 DEF receipt_batches
<1>10. QED
    BY <1>1, <1>2, <1>4, <1>5, <1>6, <1>8, <1>9, DeskShown

LEMMA DestPickInv ==
    ASSUME WizardInv, NEW w \in Place, transfers_dest_pick(w)
    PROVE  WizardInv' /\ StepOK
<1>1. page.flow = "transfer" /\ page.device = "desk" /\ page.step = "form"
    BY DEF transfers_dest_pick, Form, At
<1>2. /\ page \in Page /\ intent \in Intent /\ Len(page.acc) <= MaxLines
      /\ page.batch # New /\ intent.lines = RowsOf(page)
    BY <1>1, DeskStarts
<1>3. PICK p : p = [page EXCEPT !.place = w]
    OBVIOUS
<1>4. p \in Page
    BY <1>2, <1>3 DEF Page
<1>5. /\ p.flow = "transfer" /\ p.device = "desk" /\ p.step = "form" /\ p.batch = page.batch
      /\ p.code = page.code /\ p.acc = page.acc /\ p.mode = page.mode
      /\ p.customer = page.customer /\ p.typed = page.typed /\ p.date = page.date
    BY <1>1, <1>2, <1>3 DEF Page
<1>6. PICK i : i = [intent EXCEPT !.place = w]
    OBVIOUS
<1>7. /\ i \in Intent /\ i.lines = intent.lines /\ i.date = intent.date
      /\ i.lost = intent.lost /\ i.customer = intent.customer
    BY <1>2, <1>6 DEF Intent
<1>8. RowsOf(p) = RowsOf(page)
    BY <1>5 DEF RowsOf
<1>9. Shows(p, i)
    BY <1>3, <1>6 DEF transfers_dest_pick
<1>10. QED
    BY <1>1, <1>2, <1>4, <1>5, <1>7, <1>8, <1>9, DeskShown

LEMMA SaleRowInv ==
    ASSUME WizardInv, sale_row
    PROVE  WizardInv' /\ StepOK
<1>1. page.flow = "sale" /\ page.device = "desk" /\ page.step = "form" /\ page.code # None
    BY DEF sale_row, Form, At
<1>2. page \in Page /\ intent \in Intent
    BY <1>1, DeskStarts
<1>3. PICK s : s = Rows
    OBVIOUS
<1>4. s = RowsOf(page)
    BY <1>3 DEF Rows, RowsOf
<1>5. s \in Seq(AnyLine) /\ Len(s) <= MaxLines
    BY <1>1, <1>2, <1>4, RowsType, WizardBounds DEF sale_row
<1>6. PICK p : p = [page EXCEPT !.acc = s, !.code = None, !.batch = None, !.named = FALSE]
    OBVIOUS
<1>7. p \in Page
    BY <1>2, <1>5, <1>6 DEF Page, Field
<1>8. /\ p.flow = "sale" /\ p.device = "desk" /\ p.step = "form" /\ p.batch = None
      /\ p.acc = s /\ p.mode = page.mode /\ p.customer = page.customer
      /\ p.typed = page.typed /\ p.date = page.date
    BY <1>1, <1>2, <1>6 DEF Page
<1>9. Edits(p)
    BY <1>3, <1>6 DEF sale_row
<1>10. QED
    BY <1>1, <1>5, <1>7, <1>8, <1>9, EditsInv, Fields

(* The rows a form sends are those the clerk has entered.                  *)
LEMMA FormSent ==
    ASSUME WizardInv, page.device = "desk", NEW customer, NEW sign \in {-1, 1},
           NEW confirm \in BOOLEAN, Submits(Rows, customer, sign, confirm),
           page.flow = "sale" => customer = intent.customer
    PROVE  WizardInv' /\ StepOK
<1>1. page \in Page /\ intent.lines = RowsOf(page)
    BY DeskStarts
<1>2. Rows = RowsOf(page)
    BY DEF Rows, RowsOf
<1>3. Rows \in Seq(AnyLine)
    BY <1>1, <1>2, RowsType
<1>4. QED
    BY <1>1, <1>2, <1>3, Submitted

LEMMA SaleCreateInv ==
    ASSUME WizardInv, NEW confirm \in BOOLEAN, sale_create(confirm)
    PROVE  WizardInv' /\ StepOK
<1>1. page.flow = "sale" /\ page.device = "desk"
    BY DEF sale_create, Form, At
<1>2. page \in Page /\ intent.customer = Means(page)
    BY <1>1, DeskStarts
<1>3. CASE page.mode = "new" /\ page.typed
    BY <1>3, AgainFaithful, Shown DEF sale_create
<1>4. CASE ~(page.mode = "new" /\ page.typed)
    <2>1. page.mode \in {"existing", "new", "anon"}
        BY <1>2 DEF Page
    <2>2. Means(page) = SentCustomer
        <3>1. CASE page.mode = "existing"
            BY <3>1 DEF Means, SentCustomer
        <3>2. CASE page.mode = "new"
            BY <1>4, <3>2 DEF Means, SentCustomer
        <3>3. CASE page.mode = "anon"
            BY <3>3 DEF Means, SentCustomer
        <3>4. QED
            BY <2>1, <3>1, <3>2, <3>3
    <2>3. Submits(Rows, SentCustomer, 1, confirm)
        BY <1>4 DEF sale_create
    <2>4. QED
        BY <1>1, <1>2, <2>2, <2>3, FormSent
<1>5. QED
    BY <1>3, <1>4

(* A transfer sends one line, and without a code it is refused.            *)
LEMMA TransferCreateInv ==
    ASSUME WizardInv, NEW confirm \in BOOLEAN, transfers_create(confirm)
    PROVE  WizardInv' /\ StepOK
<1>1. page.flow = "transfer" /\ page.device = "desk"
    BY DEF transfers_create, Form, At
<1>2. page \in Page /\ page.acc = <<>> /\ intent.lines = RowsOf(page)
    BY <1>1, DeskStarts
<1>3. PICK lines : lines = <<Line(page.code, page.batch)>>
    OBVIOUS
<1>4. lines \in Seq(AnyLine)
    BY <1>2, <1>3, LineType DEF Page
<1>5. page.code # None => lines = intent.lines
    BY <1>2, <1>3 DEF RowsOf
<1>6. ASSUME page.code = None PROVE Refused(lines, page.date)
    <2>1. lines[1] \in ToSet(lines) /\ lines[1].code = None
        BY <1>3, <1>6 DEF ToSet, Line
    <2>2. QED
        BY <2>1 DEF Refused, find_product
<1>7. Submits(lines, None, 1, confirm)
    BY <1>3 DEF transfers_create, MovesGoods
<1>8. QED
    BY <1>1, <1>4, <1>5, <1>6, <1>7, Submitted

LEMMA DesktopInv ==
    ASSUME WizardInv, Desktop
    PROVE  WizardInv' /\ StepOK
<1>1. ASSUME NEW c \in Code,
             \/ sale_lookup(c) \/ receipt_lookup(c) \/ writeoff_lookup(c)
             \/ correction_lookup(c) \/ transfers_lookup(c)
      PROVE  WizardInv' /\ StepOK
    <2>1. page.device = "desk" /\ page.step = "form"
        BY <1>1 DEF sale_lookup, receipt_lookup, writeoff_lookup, correction_lookup,
            transfers_lookup, Form, At
    <2>2. None \in Field /\ New \in Field /\ Only(open_batches(c)) \in Field
          /\ None # New /\ Only(open_batches(c)) # New
        BY BatchTypes, Fields DEF Field
    <2>3. PICK picked \in Field : Lookup(c, picked) /\ (page.flow # "receipt" => picked # New)
        BY <1>1, <2>2 DEF sale_lookup, receipt_lookup, writeoff_lookup, correction_lookup,
            transfers_lookup, Form, At
    <2>4. QED
        BY <2>1, <2>3, LookupInv
<1>2. ASSUME NEW b \in Batch,
             \/ sale_batch_pick(b) \/ writeoff_batch_pick(b)
             \/ correction_batch_pick(b) \/ transfers_batch_pick(b)
      PROVE  WizardInv' /\ StepOK
    BY <1>2, PickInv DEF sale_batch_pick, writeoff_batch_pick, correction_batch_pick,
        transfers_batch_pick, Form, At
<1>3. ASSUME \/ receipt_create
             \/ \E confirm \in BOOLEAN :
                   \/ writeoff_create(confirm)
                   \/ \E sign \in {-1, 1} : correction_create(sign, confirm)
      PROVE  WizardInv' /\ StepOK
    BY <1>3, FormSent DEF receipt_create, writeoff_create, correction_create, Form, At
<1>4. QED
    BY <1>1, <1>2, <1>3, ReceiptRowInv, DestPickInv, SaleRowInv, SaleCreateInv,
        TransferCreateInv DEF Desktop

-----------------------------------------------------------------------------
(* Every step *)

LEMMA WizardNextInv ==
    ASSUME WizardInv, [WizardNext]_wizardVars
    PROVE  WizardInv' /\ StepOK
<1>1. CASE UNCHANGED wizardVars
    <2>1. /\ held' = held /\ gone' = gone /\ page' = page /\ intent' = intent
          /\ stored' = stored
        BY <1>1 DEF wizardVars
    <2>2. Faithful(page, intent)'
        BY <2>1 DEF WizardInv, Faithful, FieldsOK, HoldsLines, HoldsRest, Means, RowsOf, Line
    <2>3. held \in [Batch -> Int]
        BY DEF WizardInv
    <2>4. StepOK
        BY <2>1, <2>3 DEF StepOK, Saves
    <2>5. QED
        BY <2>1, <2>2, <2>4 DEF WizardInv
<1>2. CASE WizardNext
    BY <1>2, OpenPageInv, CustomerStepInv, SaleWizardInv, ReceiptWizardInv, StockWizardsInv,
        DesktopInv, ElsewhereInv, TypeDateInv DEF WizardNext
<1>3. QED
    BY <1>1, <1>2

LEMMA WizardAlways == WizardSpec => []WizardInv /\ [][WizardNext /\ StepOK]_wizardVars
<1>1. WizardInit => WizardInv
    BY WizardInitInv
<1>2. WizardInv /\ [WizardNext]_wizardVars => WizardInv' /\ [WizardNext /\ StepOK]_wizardVars
    BY WizardNextInv
<1>3. QED
    BY <1>1, <1>2, PTL DEF WizardSpec

LEMMA TypesHold ==
    ASSUME WizardInv
    PROVE  WizardTypeOK
<1>1. page \in Page /\ intent \in Intent /\ FieldsOK(page)
    BY DEF WizardInv, Faithful
<1>2. DOMAIN page = DOMAIN Blank(page.flow, page.device)
    BY <1>1 DEF Page, Blank
<1>3. /\ page.batch \in Batch \cup {None, New}
      /\ intent.lost \subseteq {"lines", "date", "customer", "place"}
    BY <1>1 DEF Page, Intent, Field
<1>4. QED
    BY <1>1, <1>2, <1>3 DEF WizardInv, WizardTypeOK, FieldsOK

(* What is stored is what the clerk entered: every page that a handler     *)
(* answers with, on the desktop and on the phone, back and forth, after a  *)
(* warning and after an error, still holds the lines, the date and the     *)
(* customer, or a button known to drop them was pressed (routes/sales.py,  *)
(* mobile_*.py and their templates).                                       *)
THEOREM EnteredIsStored == WizardSpec => EnteredStored
<1>1. WizardInv /\ [WizardNext /\ StepOK]_wizardVars =>
         /\ [Saves /\ "lines" \notin intent.lost => stored'.lines = intent.lines]_wizardVars
         /\ [Saves /\ "date" \notin intent.lost => stored'.date = intent.date]_wizardVars
         /\ [Saves /\ page.device = "desk" /\ page.flow = "sale" =>
                stored'.customer = intent.customer]_wizardVars
    BY DEF StepOK
<1>2. QED
    BY <1>1, WizardAlways, PTL DEF EnteredStored, LinesStored, DateStored, DeskCustomerStored

(* A document takes from the batches of its own products, of none that is  *)
(* deleted by then, and from none more than it holds unless a warning was  *)
(* on the screen, whatever the other clerks did since the page was opened  *)
(* (the register_ services called by the routes).                          *)
THEOREM BatchesAreRespected == WizardSpec => BatchesRespected
<1>1. WizardInv => WizardTypeOK
    BY TypesHold
<1>2. WizardInv /\ [WizardNext /\ StepOK]_wizardVars =>
         /\ [\A b \in Batch : held'[b] < held[b] /\ held'[b] < 0 => page.warned]_wizardVars
         /\ [Saves => \A l \in ToSet(stored'.lines) :
               l.code \notin gone /\ (l.batch # New => CodeOf[l.batch] = l.code)]_wizardVars
    BY DEF StepOK
<1>3. QED
    BY <1>1, <1>2, WizardAlways, PTL DEF BatchesRespected, OwnBatches, ShortOnlyWarned
=============================================================================
