------------------------------- MODULE Access -------------------------------
(***************************************************************************)
(* Who may do what on one database: the accounts, the guard in front of    *)
(* every route, and the warehouses of an operator (app/services/users.py,  *)
(* app/services/security.py, app/routes/auth.py, app/routes/users.py).     *)
(* Passwords and tokens are module Credentials, what a move does to the    *)
(* stock is module Stock.                                                  *)
(*                                                                         *)
(* Every request runs in a thread and a session of its own.  The guard     *)
(* reads the account and its warehouses once; the handler works with what  *)
(* the guard read and commits some time later.  So a request is two steps, *)
(* and an administrator's decision may fall between them.  The form with   *)
(* the warehouses of an operator is three: its DELETE and its INSERTs are  *)
(* one transaction, but only SQLite keeps other writers out of it.         *)
(***************************************************************************)
EXTENDS FiniteSets

CONSTANTS
    User,         \* logins
    Admin,        \* those with the role administrator
    Warehouse,
    Thread,       \* requests served at the same time
    NoUser,
    ReadCommitted \* PostgreSQL of the central server, otherwise SQLite

ASSUME Roles == Admin \subseteq User /\ NoUser \notin User
ASSUME Isolation == ReadCommitted \in BOOLEAN

VARIABLES
    account,   \* each login: "none", "on" or "off"
    assigned,  \* user_warehouses
    closed,    \* warehouses with deleted_at set
    signedIn,  \* logins whose browser holds a session cookie
    request,   \* what each thread has read
    taken,     \* warehouses its user has lost while a request ran
    given      \* warehouses that other forms gave the operator of a form
               \* after its DELETE

vars == <<account, assigned, closed, signedIn, request, taken, given>>
tables == <<account, assigned, closed, signedIn>>

Operator == User \ Admin
Exists(u) == account[u] # "none"
IsOn(u) == account[u] = "on"

Pages == {"create", "deactivate", "reactivate", "assign", "close"}
Moves == {"move", "transfer"}

(* A request: its user, the warehouses the guard found, whom and which     *)
(* warehouses the form names, and the rows of user_warehouses that its     *)
(* DELETE found ("replace": the form has deleted and has not committed).   *)
Request == [kind: {"idle", "setup", "replace"} \cup Pages \cup Moves,
            actor: User \cup {NoUser}, scope: SUBSET Warehouse,
            user: User \cup {NoUser}, places: SUBSET Warehouse,
            seen: SUBSET Warehouse]

Idle == [kind |-> "idle", actor |-> NoUser, scope |-> {}, user |-> NoUser,
         places |-> {}, seen |-> {}]

Begins(t, r) ==
    /\ request[t] = Idle
    /\ request' = [request EXCEPT ![t] = r]
    /\ UNCHANGED <<tables, taken, given>>

Ends(t) ==
    /\ request' = [request EXCEPT ![t] = Idle]
    /\ taken' = [taken EXCEPT ![t] = {}]
    /\ given' = [given EXCEPT ![t] = {}]

(* SQLite has one writer: from its DELETE to its commit a form keeps all   *)
(* others waiting.                                                         *)
WritesAlone(t) ==
    ReadCommitted \/ \A s \in Thread \ {t} : request[s].kind # "replace"

-----------------------------------------------------------------------------
(* The guard *)

(* get_active_user of the user in the cookie; the cookie of one who is off *)
(* is cleared.                                                             *)
Admitted(u) == u \in signedIn /\ IsOn(u)

(* Mutant: an operator without warehouses is not restricted.               *)
ScopeOrAll(u) ==
    IF u \in Admin \/ assigned[u] = {} THEN Warehouse ELSE assigned[u]

(* resolve_allowed_warehouses; None, for an administrator, is all of them. *)
Scope(u) == IF u \in Admin THEN Warehouse ELSE assigned[u]

(* Mutant: the pages of the administrators are only hidden from the menu.  *)
AnyRole(kind, u) == TRUE

(* require_role *)
RoleSuffices(kind, u) == kind \in Moves \/ u \in Admin

(* A request passes the guard.                                             *)
Ask(t, u, kind, v, S) ==
    /\ Admitted(u)
    /\ RoleSuffices(kind, u)
    /\ Begins(t, [kind |-> kind, actor |-> u, scope |-> Scope(u), user |-> v,
                  places |-> S, seen |-> {}])

NoUsers == \A u \in User : ~Exists(u)

(* setup_submit counts the users once more, before it inserts one.         *)
AskSetup(t, u) ==
    /\ NoUsers
    /\ Begins(t, [Idle EXCEPT !.kind = "setup", !.user = u])

-----------------------------------------------------------------------------
(* Sessions *)

(* login_submit, module Credentials.                                       *)
SignIn(u) ==
    /\ IsOn(u)
    /\ u \notin signedIn
    /\ signedIn' = signedIn \cup {u}
    /\ UNCHANGED <<account, assigned, closed, request, taken, given>>

(* logout, or a guard that finds the account off.                          *)
SignOut(u) ==
    /\ u \in signedIn
    /\ signedIn' = signedIn \ {u}
    /\ UNCHANGED <<account, assigned, closed, request, taken, given>>

-----------------------------------------------------------------------------
(* The handlers *)

(* create_user: a login is taken once, the check is backed by a unique     *)
(* index.                                                                  *)
Enrolled(u) == IF Exists(u) THEN account ELSE [account EXCEPT ![u] = "on"]

Setup(t) ==
    LET u == request[t].user
    IN  /\ request[t].kind = "setup"
        /\ WritesAlone(t)
        /\ signedIn' = IF Exists(u) THEN signedIn ELSE signedIn \cup {u}
        /\ account' = Enrolled(u)
        /\ Ends(t)
        /\ UNCHANGED <<assigned, closed>>

CreateUser(t) ==
    /\ request[t].kind = "create"
    /\ WritesAlone(t)
    /\ account' = Enrolled(request[t].user)
    /\ Ends(t)
    /\ UNCHANGED <<assigned, closed, signedIn>>

(* Mutant: an administrator may disable himself.                           *)
Anybody(user, actor) == TRUE

NotOneself(user, actor) == user # actor

DeactivateUser(t) ==
    LET u == request[t].user
    IN  /\ request[t].kind = "deactivate"
        /\ WritesAlone(t)
        /\ account' = IF Exists(u) /\ NotOneself(u, request[t].actor)
                      THEN [account EXCEPT ![u] = "off"] ELSE account
        /\ Ends(t)
        /\ UNCHANGED <<assigned, closed, signedIn>>

ReactivateUser(t) ==
    LET u == request[t].user
    IN  /\ request[t].kind = "reactivate"
        /\ WritesAlone(t)
        /\ account' = IF Exists(u) THEN [account EXCEPT ![u] = "on"] ELSE account
        /\ Ends(t)
        /\ UNCHANGED <<assigned, closed, signedIn>>

Ticked(r) == r.places \ closed

Assignable(u) == Exists(u) /\ u \in Operator

(* set_user_warehouses refuses an administrator and a login it does not    *)
(* find.                                                                   *)
RefuseForm(t) ==
    /\ request[t].kind = "assign"
    /\ ~Assignable(request[t].user)
    /\ Ends(t)
    /\ UNCHANGED tables

(* set_user_warehouses: a warehouse that is not active is dropped, then    *)
(* the DELETE finds the rows committed by now.                             *)
DeleteUserWarehouses(t) ==
    LET r == request[t]
    IN  /\ r.kind = "assign"
        /\ Assignable(r.user)
        /\ WritesAlone(t)
        /\ request' = [request EXCEPT ![t] =
                [r EXCEPT !.kind = "replace", !.places = Ticked(r),
                          !.seen = assigned[r.user]]]
        /\ UNCHANGED <<tables, taken, given>>

(* Mutant: the boxes ticked are added to what the operator has.            *)
KeptWhenAssigning(r) == assigned[r.user]

(* The rows of the operator that the DELETE did not find: other forms have *)
(* inserted them since.                                                    *)
Kept(r) == assigned[r.user] \ r.seen

Rivals(t) == {s \in Thread \ {t} : /\ request[s].kind = "replace"
                                   /\ request[s].user = request[t].user}

(* set_user_warehouses, the INSERTs and the commit: a row inserted twice   *)
(* breaks the primary key.  What this form deletes and inserts again is    *)
(* not what the DELETE of a rival has found.                               *)
SetUserWarehouses(t) ==
    LET r == request[t]
        now == Kept(r) \cup r.places
    IN  /\ r.kind = "replace"
        /\ IF Kept(r) \cap r.places = {}
           THEN /\ assigned' = [assigned EXCEPT ![r.user] = now]
                /\ taken' = [s \in Thread |->
                        IF s # t /\ request[s].actor = r.user
                        THEN taken[s] \cup (assigned[r.user] \ now)
                        ELSE IF s = t THEN {} ELSE taken[s]]
                /\ given' = [s \in Thread |->
                        IF s \in Rivals(t) THEN given[s] \cup r.places
                        ELSE IF s = t THEN {} ELSE given[s]]
                /\ request' = [s \in Thread |->
                        IF s \in Rivals(t)
                        THEN [request[s] EXCEPT !.seen = @ \cap Kept(r)]
                        ELSE IF s = t THEN Idle ELSE request[s]]
           ELSE Ends(t) /\ UNCHANGED assigned
        /\ UNCHANGED <<account, closed, signedIn>>

(* warehouses.delete and restore; the rows that assign it stay.            *)
CloseWarehouse(t) ==
    /\ request[t].kind = "close"
    /\ WritesAlone(t)
    /\ closed' = (closed \ request[t].places) \cup (request[t].places \ closed)
    /\ Ends(t)
    /\ UNCHANGED <<account, assigned, signedIn>>

(* warehouse_allowed, of what the guard found.                             *)
Allowed(r, w) == w \in r.scope

(* A sale, receipt, return, write-off or correction in w.                  *)
Move(t, w) ==
    /\ request[t].kind = "move"
    /\ WritesAlone(t)
    /\ w \in request[t].places
    /\ Allowed(request[t], w)
    /\ Ends(t)
    /\ UNCHANGED tables

(* A transfer: the source must be allowed, the other one only active.      *)
Transfer(t, from, to) ==
    /\ request[t].kind = "transfer"
    /\ WritesAlone(t)
    /\ request[t].places = {from, to}
    /\ from # to
    /\ Allowed(request[t], from)
    /\ to \notin closed
    /\ Ends(t)
    /\ UNCHANGED tables

(* The move is refused before any write, or by record_operation.           *)
Refuse(t) ==
    /\ request[t].kind \in Moves
    /\ Ends(t)
    /\ UNCHANGED tables

-----------------------------------------------------------------------------
Init ==
    /\ account = [u \in User |-> "none"]
    /\ assigned = [u \in User |-> {}]
    /\ closed = {}
    /\ signedIn = {}
    /\ request = [t \in Thread |-> Idle]
    /\ taken = [t \in Thread |-> {}]
    /\ given = [t \in Thread |-> {}]

Next ==
    \/ \E u \in User : SignIn(u) \/ SignOut(u)
    \/ \E t \in Thread :
          \/ \E u \in Admin : AskSetup(t, u)
          \/ \E u, v \in User :
                \/ \E kind \in {"create", "deactivate", "reactivate"} :
                      Ask(t, u, kind, v, {})
                \/ \E S \in SUBSET Warehouse : Ask(t, u, "assign", v, S)
          \/ \E u \in User, w \in Warehouse :
                \/ \E kind \in {"move", "close"} : Ask(t, u, kind, NoUser, {w})
                \/ \E v \in Warehouse \ {w} :
                      Ask(t, u, "transfer", NoUser, {v, w})
          \/ Setup(t) \/ CreateUser(t) \/ DeactivateUser(t)
          \/ ReactivateUser(t) \/ CloseWarehouse(t)
          \/ RefuseForm(t) \/ DeleteUserWarehouses(t) \/ SetUserWarehouses(t)
          \/ \E w \in Warehouse : Move(t, w)
          \/ \E v, w \in Warehouse : Transfer(t, v, w)
          \/ Refuse(t)

Spec == Init /\ [][Next]_vars

-----------------------------------------------------------------------------
(* Properties *)

TypeOK ==
    /\ account \in [User -> {"none", "on", "off"}]
    /\ assigned \in [User -> SUBSET Warehouse]
    /\ closed \in SUBSET Warehouse
    /\ signedIn \in SUBSET User
    /\ request \in [Thread -> Request]
    /\ taken \in [Thread -> SUBSET Warehouse]
    /\ given \in [Thread -> SUBSET Warehouse]

(* The variables have their types, and every request stays inside what its *)
(* user may do (auth_guard, require_role, resolve_allowed_warehouses): a   *)
(* page of the administrators is served to an administrator only, no login *)
(* acts that does not exist, and an operator's request is confined to the  *)
(* warehouses he holds now or has lost since he asked.                     *)
Confined ==
    /\ TypeOK
    /\ \A t \in Thread :
          LET r == request[t]
          IN  /\ r.kind \in Pages \cup {"replace"} => r.actor \in Admin
              /\ r.actor # NoUser => Exists(r.actor)
              /\ r.actor \in Operator =>
                    r.scope \subseteq assigned[r.actor] \cup taken[t]

(* Goods leave a warehouse by an operator's hand only if it is his now, or *)
(* was until his request was under way (warehouse_allowed in every service *)
(* and in record_operation; the incoming leg of a transfer is exempt).     *)
OwnGoods ==
    [][\A t \in Thread, w \in Warehouse :
          (Move(t, w) \/ \E v \in Warehouse : Transfer(t, w, v))
             => LET u == request[t].actor
                IN  u \in Admin \/ w \in assigned[u] \cup taken[t]]_vars

(* The last active administrator is switched off only by one who has       *)
(* himself been switched off while his request was under way: nobody locks *)
(* himself out (SELF_DEACTIVATE_ERROR).                                    *)
NoSelfLockout ==
    [][(\E u \in Admin : IsOn(u)) /\ ~(\E u \in Admin : IsOn(u)')
          => \E t \in Thread : /\ request[t].kind = "deactivate"
                               /\ request'[t] = Idle
                               /\ ~IsOn(request[t].actor)]_vars

(* A form gives an operator all the warehouses ticked in it and leaves him *)
(* no others, however many forms are sent at the same time                 *)
(* (set_user_warehouses, "Replace an operator's warehouses ... (one        *)
(* commit)").  The exception is the central server, where those stay which *)
(* another form gave him between the DELETE and the commit of this one.    *)
OneForm ==
    [][\A u \in User :
          assigned'[u] # assigned[u] =>
             \E t \in Thread :
                LET r == request[t]
                IN  /\ r.kind = "replace"
                    /\ r.user = u
                    /\ request'[t] = Idle
                    /\ r.places \subseteq assigned'[u]
                    /\ assigned'[u] \ r.places
                          \subseteq (IF ReadCommitted THEN given[t] ELSE {})]_vars

(* The comment of setup_submit: the first user must be created exactly     *)
(* once.  Two forms sent at the same time, with different logins, break    *)
(* it.                                                                     *)
FirstUserOnce ==
    [][\A t \in Thread :
          Setup(t) /\ account' # account => NoUsers]_vars

(* There is an active administrator from the first run on.  Two who switch *)
(* each other off at the same time break it.                               *)
SomeAdministrator == NoUsers \/ \E u \in Admin : IsOn(u)
=============================================================================
