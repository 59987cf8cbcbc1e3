---------------------------- MODULE AuthSessions ----------------------------
(***************************************************************************)
(* Token sessions: AuthService, AccountSecurityService and the tables      *)
(* users and auth_sessions they share (src/service/auth_service.cpp,       *)
(* src/service/account_security_service.cpp,                               *)
(* src/repository/auth_session_repository.cpp).                            *)
(*                                                                         *)
(* A call runs on a worker thread and touches the database in several      *)
(* statements, each on a pooled connection of its own: every statement     *)
(* outside a transaction is one step, and so is every transaction, which   *)
(* begins IMMEDIATE and so excludes every other writer.  Calls interleave  *)
(* between those steps, and `now' is read in steps of its own.             *)
(*                                                                         *)
(* The access and the refresh token of a session are named by its row id;  *)
(* the random family id by the row of the login that opened the family.    *)
(* A caller may present any token that was ever issued.                    *)
(***************************************************************************)
EXTENDS Integers, Sequences, FiniteSets

CONSTANTS
    Users,              \* the accounts in table users
    Passwords,          \* the passwords anybody chooses
    Requests,           \* calls in progress at the same time
    AccessLifetime,     \* access_token_lifetime_seconds_
    RefreshLifetime,    \* refresh_token_lifetime_seconds_
    MaxSessions,        \* bound: rows of auth_sessions
    MaxTime,            \* bound: the clock
    None                \* no user, no password

ASSUME LifetimeAssumption ==
    /\ AccessLifetime \in Nat \ {0}
    /\ RefreshLifetime \in Nat
    /\ RefreshLifetime > AccessLifetime

ASSUME BoundAssumption == MaxSessions \in Nat /\ MaxTime \in Nat
ASSUME NoneAssumption == None \notin Users \cup Passwords

VARIABLES
    now,        \* the system clock
    account,    \* users: enabled, the password the hash is of, needs_rehash
    sessions,   \* auth_sessions, without the column revoked
    revoked,    \* the rows whose revoked column is 1
    call,       \* where each call is, its arguments and what it has read
    ended,      \* history: the families a caller was told are at an end
    cut         \* history: the last time all sessions of a user were revoked

vars == <<now, account, sessions, revoked, call, ended, cut>>

Tokens == 0 .. Len(sessions)       \* 0 names a token that nobody issued
Issued(t) == t \in DOMAIN sessions
Live(s) == s \in DOMAIN sessions \ revoked

Steps == {"idle", "rehash", "stamp", "issue", "refresh", "clock", "user",
          "session", "target", "revoke", "logout", "revoke_all", "change"}

Session == [user : Users, family : Nat, parent : Nat,
            accessExpires : Nat, refreshExpires : Nat]

(* The calls of authenticate_access_token that go on to change something.  *)
Operations == {"logout_all", "revoke_session", "change_password"}

Call == [op : Operations \cup {None}, at : Steps, token : Nat, user : Users \cup {None},
         password : Passwords \cup {None},
         target : Nat, stamp : Nat]

NoCall == [op |-> None, at |-> "idle", token |-> 0, user |-> None,
           password |-> None, target |-> 0, stamp |-> 0]

Init ==
    /\ now = 0
    /\ \E p \in Passwords, old \in BOOLEAN :
         account = [u \in Users |->
                      [enabled |-> TRUE, password |-> p, outdated |-> old]]
    /\ sessions = <<>>
    /\ revoked = {}
    /\ call = [r \in Requests |-> NoCall]
    /\ ended = {}
    /\ cut = [u \in Users |-> [after |-> 0, keep |-> 0]]

-----------------------------------------------------------------------------
(* The rows a statement of AuthSessionRepository selects.                  *)

RowsOfUser(u) == {s \in DOMAIN sessions : sessions[s].user = u}
RowsOfFamily(f) == {s \in DOMAIN sessions : sessions[s].family = f}
RowOfUser(s, u) == {s} \cap RowsOfUser(u)

(* UPDATE auth_sessions SET revoked = 1 ... WHERE ... AND revoked = 0      *)
Revoke(rows) == revoked' = revoked \cup rows

NewSession(u, family, parent, stamp) ==
    [user |-> u, family |-> family, parent |-> parent,
     accessExpires |-> stamp + AccessLifetime,
     refreshExpires |-> stamp + RefreshLifetime]

-----------------------------------------------------------------------------
(* Bookkeeping of a call.                                                  *)

Idle(r) == call[r].at = "idle"

Begin(r, c) == call' = [call EXCEPT ![r] = c]
Finish(r) == call' = [call EXCEPT ![r] = NoCall]
Continue(r, at) == call' = [call EXCEPT ![r].at = at]

(* A statement, a transaction or the wait for a connection throws: the     *)
(* transaction rolls back and the call ends where it is.                   *)
Throws(r) ==
    /\ ~Idle(r)
    /\ Finish(r)
    /\ UNCHANGED <<now, account, sessions, revoked, ended, cut>>

-----------------------------------------------------------------------------
(* AuthService::login                                                      *)

(* Empty credentials, a refusal of AuthAbuseProtector, no such user, the   *)
(* wrong password or a disabled account.                                   *)
LoginRejected(r) ==
    /\ Idle(r)
    /\ UNCHANGED vars

(* find_by_login; verify, enabled and needs_rehash all look at this row.   *)
LoginLookup(r, u, p) ==
    /\ Idle(r)
    /\ account[u].password = p
    /\ account[u].enabled
    /\ Begin(r, [NoCall EXCEPT
                   !.user = u, !.password = p,
                   !.at = IF account[u].outdated THEN "rehash" ELSE "stamp"])
    /\ UNCHANGED <<now, account, sessions, revoked, ended, cut>>

LoginRehash(r) ==
    /\ call[r].at = "rehash"
    /\ account' = [account EXCEPT ![call[r].user].password = call[r].password,
                                  ![call[r].user].outdated = FALSE]
    /\ Continue(r, "stamp")
    /\ UNCHANGED <<now, sessions, revoked, ended, cut>>

LoginStamp(r) ==
    /\ call[r].at = "stamp"
    /\ call' = [call EXCEPT ![r].at = "issue", ![r].stamp = now,
                            ![r].password = None]
    /\ UNCHANGED <<now, account, sessions, revoked, ended, cut>>

(* issue_tokens: the session opens a family of its own.                    *)
LoginIssue(r) ==
    /\ call[r].at = "issue"
    /\ Len(sessions) < MaxSessions
    /\ sessions' = Append(sessions, NewSession(call[r].user, Len(sessions) + 1,
                                               0, call[r].stamp))
    /\ Finish(r)
    /\ UNCHANGED <<now, account, revoked, ended, cut>>

-----------------------------------------------------------------------------
(* AuthService::refresh: `now' is read before the transaction begins.      *)

RefreshStamp(r, t) ==
    /\ Idle(r)
    /\ Begin(r, [NoCall EXCEPT !.at = "refresh", !.token = t, !.stamp = now])
    /\ UNCHANGED <<now, account, sessions, revoked, ended, cut>>

RefreshUnknown(r) ==
    /\ call[r].at = "refresh"
    /\ ~Issued(call[r].token)
    /\ Finish(r)
    /\ UNCHANGED <<now, account, sessions, revoked, ended, cut>>

(* Mutant: only the submitted token is revoked, not its family.            *)
RefreshReusedAlone(r) ==
    LET t == call[r].token IN
    /\ call[r].at = "refresh"
    /\ Issued(t) /\ t \in revoked
    /\ Revoke({t})
    /\ Finish(r)
    /\ ended' = ended \cup {sessions[t].family}
    /\ UNCHANGED <<now, account, sessions, cut>>

RefreshReused(r) ==
    LET t == call[r].token IN
    /\ call[r].at = "refresh"
    /\ Issued(t) /\ t \in revoked
    /\ Revoke(RowsOfFamily(sessions[t].family))
    /\ Finish(r)
    /\ ended' = ended \cup {sessions[t].family}
    /\ UNCHANGED <<now, account, sessions, cut>>

RefreshExpired(r) ==
    LET t == call[r].token IN
    /\ call[r].at = "refresh"
    /\ Live(t)
    /\ sessions[t].refreshExpires <= call[r].stamp
    /\ Revoke({t})
    /\ Finish(r)
    /\ ended' = ended \cup {sessions[t].family}
    /\ UNCHANGED <<now, account, sessions, cut>>

RefreshDisabled(r) ==
    LET t == call[r].token IN
    /\ call[r].at = "refresh"
    /\ Live(t)
    /\ sessions[t].refreshExpires > call[r].stamp
    /\ ~account[sessions[t].user].enabled
    /\ Revoke({t})
    /\ Finish(r)
    /\ ended' = ended \cup {sessions[t].family}
    /\ UNCHANGED <<now, account, sessions, cut>>

(* Mutant: the parent is not revoked.                                      *)
RefreshKeepsParent(r) ==
    LET t == call[r].token IN
    /\ call[r].at = "refresh"
    /\ Live(t)
    /\ sessions[t].refreshExpires > call[r].stamp
    /\ account[sessions[t].user].enabled
    /\ Len(sessions) < MaxSessions
    /\ sessions' = Append(sessions, NewSession(sessions[t].user,
                            sessions[t].family, t, call[r].stamp))
    /\ Finish(r)
    /\ UNCHANGED <<now, account, revoked, ended, cut>>

(* Mutant: whether the session is revoked is not tested in the transaction *)
(* (it may have been tested before).                                       *)
RefreshRotatesRevoked(r) ==
    LET t == call[r].token IN
    /\ call[r].at = "refresh"
    /\ Issued(t)
    /\ sessions[t].refreshExpires > call[r].stamp
    /\ account[sessions[t].user].enabled
    /\ Len(sessions) < MaxSessions
    /\ Revoke({t})
    /\ sessions' = Append(sessions, NewSession(sessions[t].user,
                            sessions[t].family, t, call[r].stamp))
    /\ Finish(r)
    /\ UNCHANGED <<now, account, ended, cut>>

RefreshRotate(r) ==
    LET t == call[r].token IN
    /\ call[r].at = "refresh"
    /\ Live(t)
    /\ sessions[t].refreshExpires > call[r].stamp
    /\ account[sessions[t].user].enabled
    /\ Len(sessions) < MaxSessions
    /\ Revoke({t})
    /\ sessions' = Append(sessions, NewSession(sessions[t].user,
                            sessions[t].family, t, call[r].stamp))
    /\ Finish(r)
    /\ UNCHANGED <<now, account, ended, cut>>

-----------------------------------------------------------------------------
(* authenticate_access_token: the session row, the clock, the user row.    *)

ReadSession(r, op, t) ==
    /\ Idle(r)
    /\ Live(t)
    /\ Begin(r, [NoCall EXCEPT !.op = op, !.at = "clock", !.token = t])
    /\ UNCHANGED <<now, account, sessions, revoked, ended, cut>>

(* The token is empty or unknown, or its session is revoked.               *)
ReadSessionFails(r, t) ==
    /\ Idle(r)
    /\ ~Live(t)
    /\ UNCHANGED vars

ReadClock(r) ==
    /\ call[r].at = "clock"
    /\ IF sessions[call[r].token].accessExpires <= now
       THEN Finish(r)
       ELSE Continue(r, "user")
    /\ UNCHANGED <<now, account, sessions, revoked, ended, cut>>

ReadUser(r) ==
    LET u == sessions[call[r].token].user IN
    /\ call[r].at = "user"
    /\ IF ~account[u].enabled THEN Finish(r)
       ELSE call' = [call EXCEPT
              ![r].user = u,
              ![r].at = IF call[r].op = "logout_all" THEN "revoke_all" ELSE "session",
              ![r].password = IF call[r].op = "change_password"
                              THEN account[u].password ELSE None]
    /\ UNCHANGED <<now, account, sessions, revoked, ended, cut>>

-----------------------------------------------------------------------------
(* AuthService::logout_access_token and logout_all_access_token            *)

LogoutRead(r, t) ==
    /\ Idle(r)
    /\ Live(t)
    /\ Begin(r, [NoCall EXCEPT !.at = "logout", !.token = t])
    /\ UNCHANGED <<now, account, sessions, revoked, ended, cut>>

(* revoke_by_id tells whether the row was still unrevoked.                 *)
LogoutRevoke(r) ==
    LET t == call[r].token IN
    /\ call[r].at = "logout"
    /\ Revoke({t})
    /\ ended' = IF Live(t) THEN ended \cup {sessions[t].family} ELSE ended
    /\ Finish(r)
    /\ UNCHANGED <<now, account, sessions, cut>>

(* Mutant: the statement has no WHERE user_id.                             *)
LogoutEverybody(r) ==
    LET u == call[r].user IN
    /\ call[r].at = "revoke_all"
    /\ Revoke(DOMAIN sessions)
    /\ cut' = [cut EXCEPT ![u] = [after |-> Len(sessions), keep |-> 0]]
    /\ Finish(r)
    /\ UNCHANGED <<now, account, sessions, ended>>

LogoutAll(r) ==
    LET u == call[r].user IN
    /\ call[r].at = "revoke_all"
    /\ Revoke(RowsOfUser(u))
    /\ cut' = [cut EXCEPT ![u] = [after |-> Len(sessions), keep |-> 0]]
    /\ Finish(r)
    /\ UNCHANGED <<now, account, sessions, ended>>

-----------------------------------------------------------------------------
(* AccountSecurityService                                                  *)

(* The second read of authenticate_current_session.                        *)
CurrentSession(r) ==
    /\ call[r].at = "session"
    /\ IF Live(call[r].token) /\ sessions[call[r].token].user = call[r].user
       THEN Continue(r, IF call[r].op = "revoke_session" THEN "target"
                        ELSE "change")
       ELSE Finish(r)
    /\ UNCHANGED <<now, account, sessions, revoked, ended, cut>>

(* find_by_id_for_user; the caller may name any session id.                *)
FindTarget(r, s) ==
    /\ call[r].at = "target"
    /\ IF RowOfUser(s, call[r].user) \ revoked = {}
       THEN Finish(r)
       ELSE call' = [call EXCEPT ![r].at = "revoke", ![r].target = s]
    /\ UNCHANGED <<now, account, sessions, revoked, ended, cut>>

(* revoke_by_id_for_user                                                   *)
RevokeTarget(r) ==
    LET s == call[r].target IN
    /\ call[r].at = "revoke"
    /\ Revoke(RowOfUser(s, call[r].user))
    /\ ended' = IF RowOfUser(s, call[r].user) \ revoked # {}
                THEN ended \cup {sessions[s].family} ELSE ended
    /\ Finish(r)
    /\ UNCHANGED <<now, account, sessions, cut>>

(* The current password, verified against the hash that was read with the  *)
(* user row, is wrong, or the new one is too short or the same.            *)
ChangeRejected(r) ==
    /\ call[r].at = "change"
    /\ Finish(r)
    /\ UNCHANGED <<now, account, sessions, revoked, ended, cut>>

(* Mutant: only the password is changed.                                   *)
ChangePasswordOnly(r, p) ==
    LET u == call[r].user
        mine == call[r].token
    IN
    /\ call[r].at = "change"
    /\ p # call[r].password
    /\ account' = [account EXCEPT ![u].password = p, ![u].outdated = FALSE]
    /\ cut' = [cut EXCEPT ![u] = [after |-> Len(sessions),
                                  keep |-> sessions[mine].family]]
    /\ Finish(r)
    /\ UNCHANGED <<now, sessions, revoked, ended>>

(* The transaction of change_password: the new hash, then every session of *)
(* the user but the caller's.                                              *)
ChangePassword(r, p) ==
    LET u == call[r].user
        mine == call[r].token
    IN
    /\ call[r].at = "change"
    /\ p # call[r].password
    /\ account' = [account EXCEPT ![u].password = p,
                                  ![u].outdated = FALSE]
    /\ Revoke(RowsOfUser(u) \ {mine})
    /\ cut' = [cut EXCEPT ![u] = [after |-> Len(sessions),
                                  keep |-> sessions[mine].family]]
    /\ Finish(r)
    /\ UNCHANGED <<now, sessions, ended>>

-----------------------------------------------------------------------------
(* The committed transactions of AdminService::set_user_enabled and of     *)
(* secure-admin enable and disable; who may run them is in module Rbac.    *)

Enable(u) ==
    /\ account' = [account EXCEPT ![u].enabled = TRUE]
    /\ UNCHANGED <<now, sessions, revoked, call, ended, cut>>

(* The HTTP handler revokes even when the account was disabled already;    *)
(* the command line tool then does nothing at all.                         *)
Disable(u) ==
    /\ account' = [account EXCEPT ![u].enabled = FALSE]
    /\ Revoke(RowsOfUser(u))
    /\ cut' = [cut EXCEPT ![u] = [after |-> Len(sessions), keep |-> 0]]
    /\ UNCHANGED <<now, sessions, call, ended>>

Tick ==
    /\ now < MaxTime
    /\ now' = now + 1
    /\ UNCHANGED <<account, sessions, revoked, call, ended, cut>>
-----------------------------------------------------------------------------
LoginStep(r) ==
    \/ LoginRejected(r)
    \/ \E u \in Users, p \in Passwords : LoginLookup(r, u, p)
    \/ LoginRehash(r) \/ LoginStamp(r) \/ LoginIssue(r)

RefreshStep(r) ==
    \/ \E t \in Tokens : RefreshStamp(r, t)
    \/ RefreshUnknown(r) \/ RefreshReused(r) \/ RefreshExpired(r)
    \/ RefreshDisabled(r) \/ RefreshRotate(r)

AuthenticateStep(r) ==
    \/ \E t \in Tokens :
         \/ \E op \in Operations : ReadSession(r, op, t)
         \/ ReadSessionFails(r, t)
    \/ ReadClock(r) \/ ReadUser(r)

LogoutStep(r) ==
    \/ \E t \in Tokens : LogoutRead(r, t)
    \/ LogoutRevoke(r) \/ LogoutAll(r)

AccountStep(r) ==
    \/ CurrentSession(r)
    \/ \E s \in Tokens : FindTarget(r, s)
    \/ RevokeTarget(r)
    \/ ChangeRejected(r)
    \/ \E p \in Passwords : ChangePassword(r, p)

Next ==
    \/ \E r \in Requests :
         \/ LoginStep(r) \/ RefreshStep(r) \/ AuthenticateStep(r)
         \/ LogoutStep(r) \/ AccountStep(r) \/ Throws(r)
    \/ \E u \in Users : Enable(u) \/ Disable(u)
    \/ Tick

Spec == Init /\ [][Next]_vars

-----------------------------------------------------------------------------
Families == {sessions[s].family : s \in DOMAIN sessions}

(* Every variable has its type; and a call that is past the lookup of its  *)
(* session works on a row that exists.                                     *)
TypeOK ==
    /\ now \in Nat
    /\ account \in [Users -> [enabled : BOOLEAN, password : Passwords,
                             outdated : BOOLEAN]]
    /\ sessions \in Seq(Session)
    /\ revoked \subseteq DOMAIN sessions
    /\ call \in [Requests -> Call]
    /\ ended \subseteq Families
    /\ cut \in [Users -> [after : Nat, keep : Nat]]
    /\ \A r \in Requests :
         /\ call[r].at \in {"rehash", "stamp", "issue"} => call[r].user \in Users
         /\ call[r].at = "rehash" => call[r].password \in Passwords
         /\ call[r].at \in {"clock", "user", "session", "target", "revoke",
                           "logout", "revoke_all", "change"} =>
              Issued(call[r].token)
         /\ call[r].at \in {"session", "target", "revoke", "revoke_all",
                           "change"} => call[r].user \in Users

Dead(f) == RowsOfFamily(f) \subseteq revoked

(* At most one session of a token family can be used at any time, however  *)
(* many calls of refresh, logout and login race: the rotation revokes the  *)
(* parent and creates the child in one transaction.                        *)
OneLiveSession ==
    \A s, t \in DOMAIN sessions :
        Live(s) /\ Live(t) /\ sessions[s].family = sessions[t].family => s = t

(* Rotation is a chain: a session is rotated at most once, and then it is  *)
(* revoked; the child belongs to the same user and family and never        *)
(* expires before its parent, although `now' is read before the            *)
(* transaction.                                                            *)
RotationIsChain ==
    \A s \in DOMAIN sessions :
        LET p == sessions[s].parent IN
        p # 0 =>
          /\ p < s /\ p \in revoked
          /\ sessions[p].family = sessions[s].family
          /\ sessions[p].user = sessions[s].user
          /\ sessions[p].refreshExpires <= sessions[s].refreshExpires
          /\ \A t \in DOMAIN sessions : sessions[t].parent = p => t = s

(* A family is a chain of rotations with at most one usable session, its   *)
(* last.                                                                   *)
FamilyIsChain == OneLiveSession /\ RotationIsChain

(* No refresh brings back a family that was ended: by the reuse of an old  *)
(* token, by logout, by expiry, or with the account.  A client must log in *)
(* again.                                                                  *)
DeadFamilyStaysDead ==
    [][\A f \in Families : Dead(f) => Dead(f)']_vars

(* What a caller was told holds: when refresh has answered that the token  *)
(* was reused or expired or the account disabled, or when logout or        *)
(* revoke_session has answered that it revoked the session, no session of  *)
(* that login is usable any more, in spite of a refresh that ran between   *)
(* the read of the session and its revocation.                             *)
EndedMeansDead == \A f \in ended : Dead(f)

(* After logout_all, change_password or the disabling of the account, the  *)
(* only sessions of the user that are usable descend from logins that were *)
(* issued afterwards or from the session that changed the password.        *)
CutHolds ==
    \A s \in DOMAIN sessions :
        Live(s) =>
          LET c == cut[sessions[s].user] IN
          sessions[s].family > c.after \/ sessions[s].family = c.keep

(* A request revokes only sessions of the user whose token it presented.   *)
OnlyOwnerRevokes ==
    [][\A s \in revoked' \ revoked :
         \/ UNCHANGED call          \* an administrator disabled the account
         \/ \E r \in Requests :
              /\ call'[r] # call[r]
              /\ Issued(call[r].token)
              /\ sessions[call[r].token].user = sessions[s].user]_vars
=============================================================================
