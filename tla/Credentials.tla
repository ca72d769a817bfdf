---------------------------- MODULE Credentials ----------------------------
(***************************************************************************)
(* What opens a door: the password of an account, the short-lived token of *)
(* an offline upload, and the token of a device (app/services/auth.py,     *)
(* offline.py, devices.py; the routes auth.py, offline.py, users.py,       *)
(* devices.py).                                                            *)
(*                                                                         *)
(* One account and one device are followed.  A request reads a row, spends *)
(* its time on Argon2 or on the body, and writes afterwards; the decisions *)
(* of an administrator (reset, disable, revoke) may fall between.  Time    *)
(* passes in units that are long against a request: it stands still while  *)
(* a request is under way.                                                 *)
(***************************************************************************)
EXTENDS Naturals

CONSTANTS
    Worker,       \* requests served at the same time
    MaxSecret,    \* bound: passwords the account may have had
    TokenTTL,     \* life of an offline token
    MaxRenewals   \* bound: releases with stronger hash parameters

ASSUME Bounds ==
    /\ MaxSecret \in Nat \ {0}
    /\ {TokenTTL, MaxRenewals} \subseteq Nat

VARIABLES
    active,    \* users.is_active
    password,  \* which password, and is its hash made with old parameters?
    session,   \* a browser holds the cookie of the account
    ticket,    \* age of the latest offline token, TokenTTL + 1: none valid
    offAge,    \* time since the account was switched off, 0 while it is on
    device,    \* the device token: "none", "active" or "revoked"
    call,   \* what each thread has read
    renewals   \* releases with stronger parameters so far

credentialsVars == <<active, password, session, ticket, offAge, device, call,
          renewals>>
accountVars == <<active, password, session, offAge>>

Hash == [secret: 1..MaxSecret, weak: BOOLEAN]
Call == [kind: {"login", "offline-login"}, typed: 1..MaxSecret,
            read: Hash, on: BOOLEAN]
           \cup [kind: {"idle", "upload", "sync"}]
NoCall == [kind |-> "idle"]

Enters(t, r) == call[t] = NoCall /\ call' = [call EXCEPT ![t] = r]
Leaves(t) == call' = [call EXCEPT ![t] = NoCall]

-----------------------------------------------------------------------------
(* Login, to the pages and for an offline upload *)

(* The row of the login is read; then Argon2 takes its time.               *)
AskLogin(t, kind, typed) ==
    /\ Enters(t, [kind |-> kind, typed |-> typed, read |-> password,
                  on |-> active])
    /\ UNCHANGED <<accountVars, ticket, device, renewals>>

(* check_needs_rehash *)
NeedsRehash(hash) == hash.weak

Fits(r) == r.read.secret = r.typed

(* Mutant: the account is not looked at.                                   *)
AnyAccount(r) == TRUE

(* is_active as the handler sees it: a rehash commits, after which the row *)
(* is read again; without one it is the row read in the beginning.         *)
SeenActive(r) == IF NeedsRehash(r.read) THEN active ELSE r.on

(* verify_password, and what follows it in login_submit or offline_login.  *)
(* A rehash stores the password that was typed, whatever is stored now.    *)
Login(t) ==
    LET r == call[t]
        lets == Fits(r) /\ SeenActive(r)
    IN  /\ r.kind \in {"login", "offline-login"}
        /\ password' = IF Fits(r) /\ NeedsRehash(r.read)
                       THEN [secret |-> r.typed, weak |-> FALSE] ELSE password
        /\ session' = (session \/ (lets /\ r.kind = "login"))
        /\ ticket' = IF lets /\ r.kind = "offline-login" THEN 0 ELSE ticket
        /\ Leaves(t)
        /\ UNCHANGED <<active, offAge, device, renewals>>

(* auth_guard: the cookie of an account that is off is cleared; logout.    *)
DropSession ==
    /\ session
    /\ session' = FALSE
    /\ UNCHANGED <<active, password, ticket, offAge, device, call,
                   renewals>>

(* The gate of offline_upload: scope, signature and age of the token.  The *)
(* account is not looked at.                                               *)
AskUpload(t) ==
    /\ ticket <= TokenTTL
    /\ Enters(t, [kind |-> "upload"])
    /\ UNCHANGED <<accountVars, ticket, device, renewals>>

(* The merge of the file, module Transport.                                *)
Upload(t) ==
    /\ call[t].kind = "upload"
    /\ Leaves(t)
    /\ UNCHANGED <<accountVars, ticket, device, renewals>>

-----------------------------------------------------------------------------
(* Devices *)

(* require_device: lookup_active_token.                                    *)
AskSync(t) ==
    /\ device = "active"
    /\ Enters(t, [kind |-> "sync"])
    /\ UNCHANGED <<accountVars, ticket, device, renewals>>

(* Mutant: touch_last_used writes the whole row back, as it was read.      *)
RowWrittenBack == "active"

(* touch_last_used writes one column of the row.                           *)
StatusAfterTouch == device

Sync(t) ==
    /\ call[t].kind = "sync"
    /\ device' = StatusAfterTouch
    /\ Leaves(t)
    /\ UNCHANGED <<accountVars, ticket, renewals>>

MintToken ==
    /\ device = "none"
    /\ device' = "active"
    /\ UNCHANGED <<accountVars, ticket, call, renewals>>

(* revoke_token *)
RevokeToken ==
    /\ device = "active"
    /\ device' = "revoked"
    /\ UNCHANGED <<accountVars, ticket, call, renewals>>

-----------------------------------------------------------------------------
(* The administrator, releases, time *)

deactivate_user ==
    /\ active
    /\ active' = FALSE
    /\ offAge' = 0
    /\ UNCHANGED <<password, session, ticket, device, call, renewals>>

reactivate_user ==
    /\ ~active
    /\ active' = TRUE
    /\ offAge' = 0
    /\ UNCHANGED <<password, session, ticket, device, call, renewals>>

reset_password ==
    /\ password.secret < MaxSecret
    /\ password' = [secret |-> password.secret + 1, weak |-> FALSE]
    /\ UNCHANGED <<active, session, ticket, offAge, device, call,
                   renewals>>

(* A release brings a library with stronger defaults: no request lives     *)
(* through the restart.                                                    *)
StrongerParameters ==
    /\ renewals < MaxRenewals
    /\ renewals' = renewals + 1
    /\ password' = [password EXCEPT !.weak = TRUE]
    /\ call' = [t \in Worker |-> NoCall]
    /\ UNCHANGED <<active, session, ticket, offAge, device>>

Older(age) == IF age <= TokenTTL THEN age + 1 ELSE age

Pass ==
    /\ \A t \in Worker : call[t] = NoCall
    /\ ticket' = Older(ticket)
    /\ offAge' = IF active THEN 0 ELSE Older(offAge)
    /\ UNCHANGED <<active, password, session, device, call, renewals>>

-----------------------------------------------------------------------------
CredentialsInit ==
    /\ active = TRUE
    /\ password = [secret |-> 1, weak |-> FALSE]
    /\ session = FALSE
    /\ ticket = TokenTTL + 1
    /\ offAge = 0
    /\ device = "none"
    /\ call = [t \in Worker |-> NoCall]
    /\ renewals = 0

CredentialsNext ==
    \/ \E t \in Worker :
          \/ \E kind \in {"login", "offline-login"}, typed \in 1..MaxSecret :
                AskLogin(t, kind, typed)
          \/ Login(t) \/ AskUpload(t) \/ Upload(t) \/ AskSync(t) \/ Sync(t)
    \/ DropSession
    \/ MintToken \/ RevokeToken
    \/ deactivate_user \/ reactivate_user \/ reset_password
    \/ StrongerParameters \/ Pass

CredentialsSpec == CredentialsInit /\ [][CredentialsNext]_credentialsVars

-----------------------------------------------------------------------------
(* Properties *)

CredentialsTypeOK ==
    /\ active \in BOOLEAN
    /\ password \in Hash
    /\ session \in BOOLEAN
    /\ ticket \in 0..TokenTTL + 1
    /\ offAge \in 0..TokenTTL + 1
    /\ active => offAge = 0
    /\ device \in {"none", "active", "revoked"}
    /\ call \in [Worker -> Call]
    /\ renewals \in 0..MaxRenewals

(* The variables have their types, and a file is let in only while the     *)
(* account of its uploader is on, or for the life of one token after it    *)
(* was switched off, although the gate of the upload looks at the token    *)
(* alone (OFFLINE_TOKEN_TTL, D-03).                                        *)
CutOff ==
    /\ []CredentialsTypeOK
    /\ [][(\E t \in Worker : AskUpload(t)) => active \/ offAge <= TokenTTL]_credentialsVars

(* No row that a request read before a decision of the administrator and   *)
(* writes afterwards takes that decision back: a revoked device stays      *)
(* revoked, an account is switched on by nobody else, and a login under    *)
(* way puts an old password back only if the hash it had read was made     *)
(* with older parameters.                                                  *)
DecisionsStand ==
    [][/\ device = "revoked" => device' = "revoked"
       /\ active # active' => UNCHANGED <<call, password, device>>
       /\ password'.secret < password.secret =>
             \E t \in Worker : /\ call[t].kind \in {"login", "offline-login"}
                               /\ call[t].read.weak]_credentialsVars

(* "Re-hash and store a new password for a user": the old one is gone.     *)
(* The rehash of a login under way breaks it.                              *)
ResetKept == [][password'.secret >= password.secret]_credentialsVars
=============================================================================
