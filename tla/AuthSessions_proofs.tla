------------------------- MODULE AuthSessions_proofs -------------------------
(***************************************************************************)
(* Proofs about AuthSessions for every number of users, calls, sessions    *)
(* and for every lifetime of the tokens.                                   *)
(***************************************************************************)
EXTENDS AuthSessions, TLAPS

Accounts == [enabled : BOOLEAN, password : Passwords, outdated : BOOLEAN]

(* The steps in which a call holds the row of its user, or of its session. *)
LoginSteps == {"rehash", "stamp", "issue"}
SessionSteps == {"session", "target", "revoke", "revoke_all", "change"}
TokenSteps == {"clock", "user", "logout"} \cup SessionSteps

(* What TypeOK says of one call, given the rows of auth_sessions.          *)
CallOK(c, rows) ==
    /\ c.at \in LoginSteps => c.user \in Users
    /\ c.at = "rehash" => c.password \in Passwords
    /\ c.at \in TokenSteps => c.token \in rows
    /\ c.at \in SessionSteps => c.user \in Users

(* The type of a call is kept when its fields get values of their types.   *)
LEMMA CallFields ==
    ASSUME NEW c \in Call
    PROVE  /\ NoCall \in Call
           /\ \A a \in Steps : [c EXCEPT !.at = a] \in Call
           /\ \A a \in Steps, n \in Nat :
                /\ [c EXCEPT !.at = a, !.target = n] \in Call
                /\ [c EXCEPT !.at = a, !.stamp = n, !.password = None] \in Call
                /\ [NoCall EXCEPT !.at = a, !.token = n] \in Call
           /\ \A a \in Steps, t \in Nat, n \in Nat :
                [NoCall EXCEPT !.at = a, !.token = t, !.stamp = n] \in Call
           /\ \A op \in Operations, t \in Nat :
                [NoCall EXCEPT !.op = op, !.at = "clock", !.token = t] \in Call
           /\ \A u \in Users, p \in Passwords, a \in Steps :
                [NoCall EXCEPT !.user = u, !.password = p, !.at = a] \in Call
           /\ \A u \in Users, p \in Passwords \cup {None}, a \in Steps :
                [c EXCEPT !.user = u, !.at = a, !.password = p] \in Call
<1>1. NoCall \in Call
    BY DEF Call, NoCall, Steps
<1>2. \A a \in Steps : [c EXCEPT !.at = a] \in Call
    BY DEF Call, NoCall, Steps
<1>3. \A a \in Steps, n \in Nat : [c EXCEPT !.at = a, !.target = n] \in Call
    BY DEF Call, NoCall, Steps
<1>4. \A a \in Steps, n \in Nat :
        [c EXCEPT !.at = a, !.stamp = n, !.password = None] \in Call
    BY DEF Call, NoCall, Steps
<1>5. \A a \in Steps, n \in Nat : [NoCall EXCEPT !.at = a, !.token = n] \in Call
    BY DEF Call, NoCall, Steps
<1>6. \A a \in Steps, t \in Nat, n \in Nat :
        [NoCall EXCEPT !.at = a, !.token = t, !.stamp = n] \in Call
    BY DEF Call, NoCall, Steps
<1>7. \A op \in Operations, t \in Nat :
        [NoCall EXCEPT !.op = op, !.at = "clock", !.token = t] \in Call
    BY DEF Call, NoCall, Steps
<1>8. \A u \in Users, p \in Passwords, a \in Steps :
        [NoCall EXCEPT !.user = u, !.password = p, !.at = a] \in Call
    BY DEF Call, NoCall, Steps
<1>9. \A u \in Users, p \in Passwords \cup {None}, a \in Steps :
        [c EXCEPT !.user = u, !.at = a, !.password = p] \in Call
    BY DEF Call, NoCall, Steps
<1> QED BY <1>1, <1>2, <1>3, <1>4, <1>5, <1>6, <1>7, <1>8, <1>9, Zenon

(* Whatever a step of one call does, the type of the others is kept.       *)
LEMMA OneCall ==
    ASSUME call \in [Requests -> Call], NEW r \in Requests, NEW c \in Call,
           call' = [call EXCEPT ![r] = c],
           \A q \in Requests : CallOK(call[q], DOMAIN sessions),
           CallOK(c, DOMAIN sessions'),
           DOMAIN sessions \subseteq DOMAIN sessions'
    PROVE  call' \in [Requests -> Call] /\ \A q \in Requests : CallOK(call'[q], DOMAIN sessions')
<1>1. \A q \in Requests : call'[q] = c \/ call'[q] = call[q]
    OBVIOUS
<1>2. ASSUME NEW q \in Requests, call'[q] = call[q] PROVE CallOK(call'[q], DOMAIN sessions')
    BY <1>2 DEF CallOK, Issued
<1>3. ASSUME NEW q \in Requests, call'[q] = c PROVE CallOK(call'[q], DOMAIN sessions')
    BY <1>3 DEF CallOK, Issued
<1> QED BY <1>1, <1>2, <1>3

(* Types of the tables, without the calls.                                 *)
DataOK ==
    /\ now \in Nat
    /\ account \in [Users -> Accounts]
    /\ sessions \in Seq(Session)
    /\ revoked \subseteq DOMAIN sessions
    /\ ended \subseteq Families
    /\ cut \in [Users -> [after : Nat, keep : Nat]]

CallsOK ==
    /\ call \in [Requests -> Call]
    /\ \A r \in Requests : CallOK(call[r], DOMAIN sessions)

(* TypeOK is the two together.                                             *)
LEMMA TypeParts == TypeOK <=> DataOK /\ CallsOK
    BY DEF TypeOK, DataOK, CallsOK, CallOK, Accounts, LoginSteps, TokenSteps,
           SessionSteps, Issued

(* What inserting a row does to auth_sessions.                             *)
LEMMA InsertRow ==
    ASSUME sessions \in Seq(Session), NEW row \in Session,
           sessions' = Append(sessions, row)
    PROVE  /\ sessions' \in Seq(Session)
           /\ Len(sessions) \in Nat
           /\ Len(sessions') = Len(sessions) + 1
           /\ DOMAIN sessions = 1 .. Len(sessions)
           /\ DOMAIN sessions' = 1 .. Len(sessions) + 1
           /\ DOMAIN sessions' = DOMAIN sessions \cup {Len(sessions) + 1}
           /\ Len(sessions) + 1 \notin DOMAIN sessions
           /\ sessions'[Len(sessions) + 1] = row
           /\ \A s \in DOMAIN sessions : sessions'[s] = sessions[s]
           /\ Families \subseteq Families'
<1>1. /\ sessions' \in Seq(Session)
      /\ Len(sessions) \in Nat
      /\ Len(sessions') = Len(sessions) + 1
      /\ DOMAIN sessions = 1 .. Len(sessions)
      /\ DOMAIN sessions' = 1 .. Len(sessions) + 1
      /\ sessions'[Len(sessions) + 1] = row
      /\ \A s \in DOMAIN sessions : sessions'[s] = sessions[s]
    OBVIOUS
<1>2. /\ DOMAIN sessions' = DOMAIN sessions \cup {Len(sessions) + 1}
      /\ Len(sessions) + 1 \notin DOMAIN sessions
    BY <1>1
<1>3. Families \subseteq Families'
    BY <1>1, <1>2, Zenon DEF Families
<1> QED BY <1>1, <1>2, <1>3

(* A row made from well-typed values is well typed.                        *)
LEMMA RowType ==
    ASSUME NEW u \in Users, NEW f \in Nat, NEW p \in Nat, NEW st \in Nat
    PROVE  /\ NewSession(u, f, p, st) \in Session
           /\ NewSession(u, f, p, st).user = u
           /\ NewSession(u, f, p, st).family = f
           /\ NewSession(u, f, p, st).parent = p
           /\ NewSession(u, f, p, st).refreshExpires = st + RefreshLifetime
    BY LifetimeAssumption DEF NewSession, Session

(* The tables keep their types.                                            *)
LEMMA StepData ==
    ASSUME DataOK, CallsOK, Next
    PROVE  DataOK' /\ DOMAIN sessions \subseteq DOMAIN sessions'
<1> USE DEF DataOK
<1>0. [after |-> Len(sessions), keep |-> 0] \in [after : Nat, keep : Nat]
    <2>1. Len(sessions) \in Nat
        OBVIOUS
    <2> QED BY <2>1
<1>1. ASSUME NEW r \in Requests, LoginStep(r)
      PROVE  DataOK' /\ DOMAIN sessions \subseteq DOMAIN sessions'
    <2>1. CASE LoginIssue(r)
        <3>1. call[r].user \in Users /\ call[r].stamp \in Nat
            BY <2>1 DEF LoginIssue, CallsOK, CallOK, LoginSteps, Call
        <3>2. NewSession(call[r].user, Len(sessions) + 1, 0, call[r].stamp)
                 \in Session
            <4>1. Len(sessions) + 1 \in Nat
                OBVIOUS
            <4> QED BY <3>1, <4>1, RowType
        <3>3. sessions' = Append(sessions, NewSession(call[r].user,
                                   Len(sessions) + 1, 0, call[r].stamp))
            BY <2>1 DEF LoginIssue
        <3> QED BY <2>1, <3>2, <3>3, InsertRow DEF LoginIssue
    <2>2. CASE LoginRehash(r)
        BY <2>2 DEF LoginRehash, CallsOK, CallOK, LoginSteps, Accounts, Families
    <2>3. CASE LoginRejected(r) \/ LoginStamp(r)
               \/ \E u \in Users, p \in Passwords : LoginLookup(r, u, p)
        BY <2>3 DEF LoginRejected, LoginStamp, LoginLookup, vars, Families
    <2> QED BY <1>1, <2>1, <2>2, <2>3 DEF LoginStep
<1>2. ASSUME NEW r \in Requests, RefreshStep(r)
      PROVE  DataOK' /\ DOMAIN sessions \subseteq DOMAIN sessions'
    <2>1. CASE RefreshRotate(r)
        <3> DEFINE t == call[r].token
        <3>1. t \in DOMAIN sessions /\ call[r].stamp \in Nat
            BY <2>1 DEF RefreshRotate, Live, CallsOK, Call
        <3>2. sessions[t] \in Session /\ t \in Nat
            BY <3>1
        <3>3. NewSession(sessions[t].user, sessions[t].family, t, call[r].stamp)
                 \in Session
            BY <3>1, <3>2, RowType DEF Session
        <3>4. /\ sessions' = Append(sessions, NewSession(sessions[t].user,
                                sessions[t].family, t, call[r].stamp))
              /\ revoked' = revoked \cup {t}
              /\ UNCHANGED <<now, account, ended, cut>>
            BY <2>1 DEF RefreshRotate, Revoke
        <3> QED BY <3>1, <3>3, <3>4, InsertRow
    <2>2. CASE RefreshReused(r) \/ RefreshExpired(r) \/ RefreshDisabled(r)
        <3> DEFINE t == call[r].token
        <3>1. /\ t \in DOMAIN sessions
              /\ UNCHANGED <<now, account, sessions, cut>>
              /\ ended' = ended \cup {sessions[t].family}
              /\ revoked' = revoked \cup {t}
                 \/ revoked' = revoked \cup RowsOfFamily(sessions[t].family)
            BY <2>2 DEF RefreshReused, RefreshExpired, RefreshDisabled, Live,
                        Issued, Revoke
        <3>2. sessions[t].family \in Families /\ Families' = Families
            BY <3>1 DEF Families
        <3>3. revoked' \subseteq DOMAIN sessions'
            BY <3>1 DEF RowsOfFamily
        <3> QED BY <3>1, <3>2, <3>3
    <2>3. CASE RefreshUnknown(r) \/ \E t \in Tokens : RefreshStamp(r, t)
        <3>1. UNCHANGED <<now, account, sessions, revoked, ended, cut>>
            BY <2>3 DEF RefreshUnknown, RefreshStamp
        <3> QED BY <3>1 DEF Families
    <2> QED BY <1>2, <2>1, <2>2, <2>3 DEF RefreshStep
<1>3. ASSUME NEW r \in Requests, AuthenticateStep(r) \/ Throws(r)
      PROVE  DataOK' /\ DOMAIN sessions \subseteq DOMAIN sessions'
    <2>1. UNCHANGED <<now, account, sessions, revoked, ended, cut>>
        BY <1>3 DEF AuthenticateStep, Throws, ReadSession, ReadSessionFails,
                    ReadClock, ReadUser, vars
    <2> QED BY <2>1 DEF Families
<1>4. ASSUME NEW r \in Requests, LogoutStep(r)
      PROVE  DataOK' /\ DOMAIN sessions \subseteq DOMAIN sessions'
    <2>1. CASE LogoutRevoke(r)
        <3> DEFINE t == call[r].token
        <3>1. t \in DOMAIN sessions
            BY <2>1 DEF LogoutRevoke, CallsOK, CallOK, TokenSteps, Issued
        <3>2. sessions[t].family \in Families
            BY <3>1 DEF Families
        <3>3. /\ UNCHANGED <<now, account, sessions, cut>>
              /\ revoked' = revoked \cup {t}
              /\ ended' = ended \cup {sessions[t].family} \/ ended' = ended
            BY <2>1 DEF LogoutRevoke, Revoke
        <3> QED BY <3>1, <3>2, <3>3 DEF Families
    <2>2. CASE LogoutAll(r)
        <3>1. /\ UNCHANGED <<now, account, sessions, ended>>
              /\ revoked' \subseteq DOMAIN sessions'
              /\ cut' = [cut EXCEPT ![call[r].user] =
                            [after |-> Len(sessions), keep |-> 0]]
            BY <2>2 DEF LogoutAll, Revoke, RowsOfUser
        <3>2. cut' \in [Users -> [after : Nat, keep : Nat]]
            BY <1>0, <3>1
        <3> QED BY <3>1, <3>2 DEF Families
    <2>3. CASE \E t \in Tokens : LogoutRead(r, t)
        <3>1. UNCHANGED <<now, account, sessions, revoked, ended, cut>>
            BY <2>3 DEF LogoutRead
        <3> QED BY <3>1 DEF Families
    <2> QED BY <1>4, <2>1, <2>2, <2>3 DEF LogoutStep
<1>5. ASSUME NEW r \in Requests, AccountStep(r)
      PROVE  DataOK' /\ DOMAIN sessions \subseteq DOMAIN sessions'
    <2>1. CASE RevokeTarget(r)
        <3> DEFINE s == call[r].target
        <3>1. /\ UNCHANGED <<now, account, sessions, cut>>
              /\ revoked' \subseteq DOMAIN sessions'
              /\ \/ ended' = ended
                 \/ s \in DOMAIN sessions /\ ended' = ended \cup {sessions[s].family}
            BY <2>1 DEF RevokeTarget, Revoke, RowOfUser, RowsOfUser
        <3>2. s \in DOMAIN sessions => sessions[s].family \in Families
            BY DEF Families
        <3> QED BY <3>1, <3>2 DEF Families
    <2>2. ASSUME NEW p \in Passwords, ChangePassword(r, p)
          PROVE  DataOK' /\ DOMAIN sessions \subseteq DOMAIN sessions'
        <3> DEFINE u == call[r].user
                   mine == call[r].token
        <3>1. u \in Users /\ mine \in DOMAIN sessions
            BY <2>2 DEF ChangePassword, CallsOK, CallOK, SessionSteps,
                        TokenSteps, Issued
        <3>2. sessions[mine].family \in Nat
            <4>1. sessions[mine] \in Session
                BY <3>1
            <4> QED BY <4>1 DEF Session
        <3>3. /\ UNCHANGED <<now, sessions, ended>>
              /\ revoked' \subseteq DOMAIN sessions'
              /\ cut' = [cut EXCEPT ![u] = [after |-> Len(sessions),
                                           keep |-> sessions[mine].family]]
              /\ account' = [account EXCEPT ![u].password = p,
                                            ![u].outdated = FALSE]
            BY <2>2 DEF ChangePassword, Revoke, RowsOfUser
        <3>4. account' \in [Users -> Accounts]
            BY <3>1, <3>3 DEF Accounts
        <3>5. cut' \in [Users -> [after : Nat, keep : Nat]]
            BY <3>1, <3>2, <3>3
        <3> QED BY <3>3, <3>4, <3>5 DEF Families
    <2>3. CASE CurrentSession(r) \/ ChangeRejected(r)
               \/ \E s \in Tokens : FindTarget(r, s)
        <3>1. UNCHANGED <<now, account, sessions, revoked, ended, cut>>
            BY <2>3 DEF CurrentSession, ChangeRejected, FindTarget
        <3> QED BY <3>1 DEF Families
    <2> QED BY <1>5, <2>1, <2>2, <2>3 DEF AccountStep
<1>6. ASSUME NEW u \in Users, Enable(u) \/ Disable(u)
      PROVE  DataOK' /\ DOMAIN sessions \subseteq DOMAIN sessions'
    <2>1. /\ UNCHANGED <<now, sessions, ended>>
          /\ revoked' \subseteq DOMAIN sessions'
          /\ cut' = cut \/ cut' = [cut EXCEPT ![u] = [after |-> Len(sessions),
                                                    keep |-> 0]]
          /\ \E b \in BOOLEAN : account' = [account EXCEPT ![u].enabled = b]
        BY <1>6 DEF Enable, Disable, Revoke, RowsOfUser
    <2>2. account' \in [Users -> Accounts]
        BY <2>1 DEF Accounts
    <2>3. cut' \in [Users -> [after : Nat, keep : Nat]]
        BY <1>0, <2>1
    <2> QED BY <2>1, <2>2, <2>3 DEF Families
<1>7. CASE Tick
    BY <1>7 DEF Tick, Families
<1> QED BY <1>1, <1>2, <1>3, <1>4, <1>5, <1>6, <1>7 DEF Next

(* The calls keep their types: a step replaces one call by a typed one.    *)
LEMMA StepCalls ==
    ASSUME DataOK, CallsOK, Next, DOMAIN sessions \subseteq DOMAIN sessions'
    PROVE  CallsOK'
<1> DEFINE Becomes(r, c) == call' = [call EXCEPT ![r] = c]
<1>0. ASSUME NEW r \in Requests, NEW c \in Call, Becomes(r, c), CallOK(c, DOMAIN sessions')
      PROVE  CallsOK'
    BY <1>0, OneCall DEF CallsOK
<1>1. ASSUME NEW r \in Requests, Finish(r) PROVE CallsOK'
    <2>1. NoCall \in Call /\ NoCall.at = "idle"
        BY CallFields DEF CallsOK, NoCall
    <2>2. CallOK(NoCall, DOMAIN sessions')
        BY <2>1 DEF CallOK, LoginSteps, TokenSteps, SessionSteps
    <2> QED BY <1>0, <1>1, <2>1, <2>2 DEF Finish
<1>2. ASSUME NEW r \in Requests, NEW a \in Steps, Continue(r, a),
             a = "stamp" => call[r].at \in LoginSteps,
             a # "stamp" => a \notin LoginSteps /\ call[r].at \in TokenSteps,
             a \in SessionSteps => call[r].at \in SessionSteps
      PROVE  CallsOK'
    <2> DEFINE c == [call[r] EXCEPT !.at = a]
    <2>1. c \in Call
        BY CallFields DEF CallsOK
    <2>2. /\ c.at = a /\ c.user = call[r].user /\ c.token = call[r].token
          /\ c.password = call[r].password
        BY DEF CallsOK, Call
    <2>3. CallOK(call[r], DOMAIN sessions)
        BY DEF CallsOK
    <2>4. CallOK(c, DOMAIN sessions')
        BY <1>2, <2>2, <2>3 DEF CallOK, Issued, LoginSteps, TokenSteps,
                                SessionSteps
    <2> QED BY <1>0, <1>2, <2>1, <2>4 DEF Continue
<1>3. ASSUME NEW r \in Requests, LoginStep(r) PROVE CallsOK'
    <2>1. CASE LoginRejected(r)
        BY <2>1 DEF LoginRejected, vars, CallsOK, CallOK, Issued
    <2>2. ASSUME NEW u \in Users, NEW p \in Passwords, LoginLookup(r, u, p)
          PROVE  CallsOK'
        <3> DEFINE a == IF account[u].outdated THEN "rehash" ELSE "stamp"
                   c == [NoCall EXCEPT !.user = u, !.password = p, !.at = a]
        <3>1. a \in Steps /\ a \in {"rehash", "stamp"}
            BY DEF Steps
        <3>2. c \in Call
            BY <3>1, CallFields DEF CallsOK
        <3>3. c.at \in {"rehash", "stamp"} /\ c.user = u /\ c.password = p
            BY <3>1 DEF NoCall
        <3>4. CallOK(c, DOMAIN sessions')
            BY <3>3 DEF CallOK, LoginSteps, TokenSteps, SessionSteps
        <3> QED BY <1>0, <2>2, <3>2, <3>4 DEF LoginLookup, Begin
    <2>3. CASE LoginRehash(r)
        BY <1>2, <2>3 DEF LoginRehash, Steps, LoginSteps, SessionSteps
    <2>4. CASE LoginStamp(r)
        <3> DEFINE c == [call[r] EXCEPT !.at = "issue", !.stamp = now,
                                        !.password = None]
        <3>1. c \in Call
            BY CallFields DEF CallsOK, DataOK, Steps
        <3>2. c.at = "issue" /\ c.user \in Users
            BY <2>4 DEF LoginStamp, CallsOK, CallOK, LoginSteps, Call
        <3>3. CallOK(c, DOMAIN sessions')
            BY <3>2 DEF CallOK, LoginSteps, TokenSteps, SessionSteps
        <3>4. Becomes(r, c)
            BY <2>4 DEF LoginStamp, CallsOK
        <3> QED BY <1>0, <3>1, <3>3, <3>4
    <2>5. CASE LoginIssue(r)
        BY <1>1, <2>5 DEF LoginIssue
    <2> QED BY <1>3, <2>1, <2>2, <2>3, <2>4, <2>5 DEF LoginStep
<1>4. ASSUME NEW r \in Requests, RefreshStep(r) PROVE CallsOK'
    <2>1. ASSUME NEW t \in Tokens, RefreshStamp(r, t) PROVE CallsOK'
        <3> DEFINE c == [NoCall EXCEPT !.at = "refresh", !.token = t,
                                       !.stamp = now]
        <3>1. t \in Nat /\ now \in Nat
            BY DEF Tokens, DataOK
        <3>2. c \in Call
            BY <3>1, CallFields DEF CallsOK, Steps
        <3>3. c.at = "refresh"
            BY DEF NoCall
        <3>4. CallOK(c, DOMAIN sessions')
            BY <3>3 DEF CallOK, LoginSteps, TokenSteps, SessionSteps
        <3> QED BY <1>0, <2>1, <3>2, <3>4 DEF RefreshStamp, Begin
    <2>2. CASE \/ RefreshUnknown(r) \/ RefreshReused(r) \/ RefreshExpired(r)
               \/ RefreshDisabled(r) \/ RefreshRotate(r)
        BY <1>1, <2>2 DEF RefreshUnknown, RefreshReused, RefreshExpired,
                          RefreshDisabled, RefreshRotate
    <2> QED BY <1>4, <2>1, <2>2 DEF RefreshStep
<1>5. ASSUME NEW r \in Requests, AuthenticateStep(r) PROVE CallsOK'
    <2>1. ASSUME NEW t \in Tokens, NEW op \in Operations, ReadSession(r, op, t)
          PROVE  CallsOK'
        <3> DEFINE c == [NoCall EXCEPT !.op = op, !.at = "clock", !.token = t]
        <3>1. t \in Nat /\ t \in DOMAIN sessions'
            BY <2>1 DEF Tokens, DataOK, ReadSession, Live
        <3>2. c \in Call
            BY <3>1, CallFields DEF CallsOK
        <3>3. c.at = "clock" /\ c.token = t
            BY DEF NoCall
        <3>4. CallOK(c, DOMAIN sessions')
            BY <3>1, <3>3 DEF CallOK, Issued, LoginSteps, TokenSteps, SessionSteps
        <3> QED BY <1>0, <2>1, <3>2, <3>4 DEF ReadSession, Begin
    <2>2. ASSUME NEW t \in Tokens, ReadSessionFails(r, t) PROVE CallsOK'
        BY <2>2 DEF ReadSessionFails, vars, CallsOK, CallOK, Issued
    <2>3. CASE ReadClock(r)
        BY <1>1, <1>2, <2>3 DEF ReadClock, Steps, LoginSteps, TokenSteps,
                                SessionSteps
    <2>4. CASE ReadUser(r) /\ ~Finish(r)
        <3> DEFINE t == call[r].token
                   u == sessions[t].user
                   a == IF call[r].op = "logout_all" THEN "revoke_all"
                        ELSE "session"
                   p == IF call[r].op = "change_password"
                        THEN account[u].password ELSE None
                   c == [call[r] EXCEPT !.user = u, !.at = a, !.password = p]
        <3>1. t \in DOMAIN sessions
            BY <2>4 DEF ReadUser, CallsOK, CallOK, TokenSteps, Issued
        <3>2. sessions[t] \in Session
            BY <3>1 DEF DataOK
        <3>3. u \in Users
            BY <3>2 DEF Session
        <3>4. p \in Passwords \cup {None} /\ a \in Steps /\ a \in SessionSteps
            BY <3>3 DEF DataOK, Accounts, Steps, SessionSteps
        <3>5. c \in Call
            BY <3>3, <3>4, CallFields DEF CallsOK
        <3>6. c.at = a /\ c.token = t /\ c.user = u
            BY DEF CallsOK, Call
        <3>7. CallOK(c, DOMAIN sessions')
            BY <3>1, <3>3, <3>4, <3>6 DEF CallOK, Issued, LoginSteps, TokenSteps,
                                          SessionSteps
        <3>8. Becomes(r, c)
            BY <2>4 DEF ReadUser, CallsOK
        <3> QED BY <1>0, <3>5, <3>7, <3>8
    <2> QED BY <1>1, <1>5, <2>1, <2>2, <2>3, <2>4 DEF AuthenticateStep
<1>6. ASSUME NEW r \in Requests, LogoutStep(r) PROVE CallsOK'
    <2>1. ASSUME NEW t \in Tokens, LogoutRead(r, t) PROVE CallsOK'
        <3> DEFINE c == [NoCall EXCEPT !.at = "logout", !.token = t]
        <3>1. t \in Nat /\ t \in DOMAIN sessions'
            BY <2>1 DEF Tokens, DataOK, LogoutRead, Live
        <3>2. c \in Call
            BY <3>1, CallFields DEF CallsOK, Steps
        <3>3. c.at = "logout" /\ c.token = t
            BY DEF NoCall
        <3>4. CallOK(c, DOMAIN sessions')
            BY <3>1, <3>3 DEF CallOK, Issued, LoginSteps, TokenSteps, SessionSteps
        <3> QED BY <1>0, <2>1, <3>2, <3>4 DEF LogoutRead, Begin
    <2> QED BY <1>1, <1>6, <2>1 DEF LogoutStep, LogoutRevoke, LogoutAll
<1>7. ASSUME NEW r \in Requests, AccountStep(r) PROVE CallsOK'
    <2>1. CASE CurrentSession(r)
        BY <1>1, <1>2, <2>1 DEF CurrentSession, Steps, LoginSteps, TokenSteps,
                                SessionSteps
    <2>2. ASSUME NEW s \in Tokens, FindTarget(r, s), ~Finish(r) PROVE CallsOK'
        <3> DEFINE c == [call[r] EXCEPT !.at = "revoke", !.target = s]
        <3>1. s \in Nat
            BY DEF Tokens, DataOK
        <3>2. c \in Call
            BY <3>1, CallFields DEF CallsOK, Steps
        <3>3. c.at = "revoke" /\ c.token = call[r].token /\ c.user = call[r].user
            BY DEF CallsOK, Call
        <3>4. CallOK(call[r], DOMAIN sessions) /\ call[r].at = "target"
            BY <2>2 DEF CallsOK, FindTarget
        <3>5. CallOK(c, DOMAIN sessions')
            BY <3>3, <3>4 DEF CallOK, Issued, LoginSteps, TokenSteps, SessionSteps
        <3>6. Becomes(r, c)
            BY <2>2 DEF FindTarget, CallsOK
        <3> QED BY <1>0, <3>2, <3>5, <3>6
    <2> QED BY <1>1, <1>7, <2>1, <2>2 DEF AccountStep, RevokeTarget,
            ChangeRejected, ChangePassword
<1>8. CASE UNCHANGED call
    BY <1>8 DEF CallsOK, CallOK, Issued
<1> QED BY <1>1, <1>3, <1>4, <1>5, <1>6, <1>7, <1>8
    DEF Next, Throws, Enable, Disable, Tick

-----------------------------------------------------------------------------
(* What a step can do to auth_sessions.                                    *)

OnlyRevokes == sessions' = sessions /\ revoked \subseteq revoked'

OpensFamily(row) ==
    /\ row \in Session
    /\ row.family = Len(sessions) + 1 /\ row.parent = 0
    /\ \E r \in Requests : row.refreshExpires = call[r].stamp + RefreshLifetime
    /\ now' = now
    /\ sessions' = Append(sessions, row)
    /\ revoked' = revoked
    /\ ended' = ended /\ cut' = cut

Rotates(t, row) ==
    /\ t \in DOMAIN sessions \ revoked
    /\ row \in Session
    /\ row.family = sessions[t].family /\ row.user = sessions[t].user
    /\ row.parent = t
    /\ \E r \in Requests :
         /\ call[r].at = "refresh" /\ call[r].token = t
         /\ row.refreshExpires = call[r].stamp + RefreshLifetime
    /\ now' = now
    /\ sessions' = Append(sessions, row)
    /\ revoked' = revoked \cup {t}
    /\ ended' = ended /\ cut' = cut

(* Every step revokes, opens a family or rotates a live session.           *)
LEMMA Effects ==
    ASSUME DataOK, CallsOK, [Next]_vars
    PROVE  \/ OnlyRevokes
           \/ \E row : OpensFamily(row)
           \/ \E t, row : Rotates(t, row)
<1>1. ASSUME NEW r \in Requests, LoginIssue(r) PROVE \E row : OpensFamily(row)
    <2> DEFINE row == NewSession(call[r].user, Len(sessions) + 1, 0, call[r].stamp)
    <2>1. call[r].user \in Users /\ call[r].stamp \in Nat
        BY <1>1 DEF LoginIssue, CallsOK, CallOK, LoginSteps, Call
    <2>2. Len(sessions) + 1 \in Nat
        BY DEF DataOK
    <2>3. /\ row \in Session /\ row.family = Len(sessions) + 1 /\ row.parent = 0
          /\ row.refreshExpires = call[r].stamp + RefreshLifetime
        BY <2>1, <2>2, RowType
    <2> HIDE DEF row
    <2>4. OpensFamily(row)
        BY <1>1, <2>3 DEF LoginIssue, OpensFamily, row
    <2> QED BY <2>4
<1>2. ASSUME NEW r \in Requests, RefreshRotate(r)
      PROVE  \E t, row : Rotates(t, row)
    <2> DEFINE t == call[r].token
               row == NewSession(sessions[t].user, sessions[t].family, t,
                                 call[r].stamp)
    <2>1. t \in DOMAIN sessions \ revoked /\ call[r].stamp \in Nat
        BY <1>2 DEF RefreshRotate, Live, CallsOK, Call
    <2>2. t \in Nat /\ sessions[t] \in Session
        BY <2>1 DEF DataOK
    <2>3. sessions[t].user \in Users /\ sessions[t].family \in Nat
        BY <2>2 DEF Session
    <2>4. /\ row \in Session /\ row.user = sessions[t].user
          /\ row.family = sessions[t].family /\ row.parent = t
          /\ row.refreshExpires = call[r].stamp + RefreshLifetime
        <3> DEFINE u == sessions[t].user
                   f == sessions[t].family
                   st == call[r].stamp
        <3>1. u \in Users /\ f \in Nat /\ t \in Nat /\ st \in Nat
            BY <2>1, <2>2, <2>3
        <3> HIDE DEF u, f, st, t
        <3>2. /\ NewSession(u, f, t, st) \in Session
              /\ NewSession(u, f, t, st).user = u
              /\ NewSession(u, f, t, st).family = f
              /\ NewSession(u, f, t, st).parent = t
              /\ NewSession(u, f, t, st).refreshExpires = st + RefreshLifetime
            BY <3>1, RowType
        <3> QED BY <3>2 DEF u, f, st
    <2>5. /\ sessions' = Append(sessions, row) /\ revoked' = revoked \cup {t}
          /\ ended' = ended /\ cut' = cut /\ now' = now
          /\ call[r].at = "refresh" /\ call[r].token = t
        BY <1>2 DEF RefreshRotate, Revoke
    <2> HIDE DEF row, t
    <2>6. Rotates(t, row)
        BY <2>1, <2>4, <2>5 DEF Rotates
    <2> QED BY <2>6
<1>3. ASSUME NEW r \in Requests, LoginStep(r), ~LoginIssue(r) PROVE OnlyRevokes
    BY <1>3 DEF LoginStep, LoginRejected, LoginLookup, LoginRehash, LoginStamp,
                OnlyRevokes, vars
<1>4. ASSUME NEW r \in Requests, RefreshStep(r), ~RefreshRotate(r)
      PROVE  OnlyRevokes
    BY <1>4 DEF RefreshStep, RefreshStamp, RefreshUnknown, RefreshReused,
                RefreshExpired, RefreshDisabled, Revoke, OnlyRevokes
<1>5. ASSUME NEW r \in Requests,
             AuthenticateStep(r) \/ LogoutStep(r) \/ Throws(r)
      PROVE  OnlyRevokes
    BY <1>5 DEF AuthenticateStep, ReadSession, ReadSessionFails, ReadClock,
                ReadUser, LogoutStep, LogoutRead, LogoutRevoke, LogoutAll,
                Throws, Revoke, OnlyRevokes, vars
<1>6. ASSUME NEW r \in Requests, AccountStep(r) PROVE OnlyRevokes
    BY <1>6 DEF AccountStep, CurrentSession, FindTarget, RevokeTarget,
                ChangeRejected, ChangePassword, Revoke, OnlyRevokes
<1>7. ASSUME Tick \/ UNCHANGED vars \/ \E u \in Users : Enable(u) \/ Disable(u)
      PROVE  OnlyRevokes
    BY <1>7 DEF Tick, Enable, Disable, Revoke, OnlyRevokes, vars
<1> QED BY <1>1, <1>2, <1>3, <1>4, <1>5, <1>6, <1>7 DEF Next

(* A family is named by the row that opened it.                            *)
FamilyOpened == \A s \in DOMAIN sessions : sessions[s].family \in 1 .. s

(* All sessions of a family belong to one user.                            *)
FamilyOneUser ==
    \A s, t \in DOMAIN sessions :
        sessions[s].family = sessions[t].family => sessions[s].user = sessions[t].user

(* A live session has no child, and no session two.                        *)
Chain ==
    \A s \in DOMAIN sessions :
        sessions[s].parent # 0 =>
          /\ sessions[s].parent \in DOMAIN sessions
          /\ sessions[s].parent < s
          /\ sessions[s].parent \in revoked
          /\ sessions[sessions[s].parent].family = sessions[s].family
          /\ sessions[sessions[s].parent].user = sessions[s].user
          /\ \A t \in DOMAIN sessions :
               sessions[t].parent = sessions[s].parent => t = s

FamilyInv == FamilyOpened /\ FamilyOneUser /\ OneLiveSession /\ Chain

(* Revoking, opening a family and rotating preserve it.                    *)
LEMMA StepFamilies ==
    ASSUME DataOK, CallsOK, FamilyInv, [Next]_vars
    PROVE  FamilyInv'
<1> USE DEF DataOK
<1>1. CASE OnlyRevokes
    BY <1>1 DEF OnlyRevokes, FamilyInv, FamilyOpened, FamilyOneUser,
                OneLiveSession, Chain, Live
<1>2. ASSUME NEW row, OpensFamily(row) PROVE FamilyInv'
    <2> DEFINE n == Len(sessions) + 1
    <2>1. /\ DOMAIN sessions' = DOMAIN sessions \cup {n}
          /\ DOMAIN sessions = 1 .. Len(sessions) /\ Len(sessions) \in Nat
          /\ n \notin DOMAIN sessions
          /\ sessions'[n] = row
          /\ row.family = n /\ row.parent = 0
          /\ \A s \in DOMAIN sessions : sessions'[s] = sessions[s]
          /\ revoked' = revoked
        BY <1>2, InsertRow DEF OpensFamily
    <2>2. \A s \in DOMAIN sessions : sessions[s].family # n
        BY <2>1 DEF FamilyInv, FamilyOpened
    <2>3. FamilyOpened'
        BY <2>1 DEF FamilyInv, FamilyOpened
    <2>4. FamilyOneUser'
        BY <2>1, <2>2 DEF FamilyInv, FamilyOneUser
    <2>5. OneLiveSession'
        BY <2>1, <2>2 DEF FamilyInv, OneLiveSession, Live
    <2>6. Chain'
        BY <2>1 DEF FamilyInv, Chain
    <2> QED BY <2>3, <2>4, <2>5, <2>6 DEF FamilyInv
<1>3. ASSUME NEW t, NEW row, Rotates(t, row) PROVE FamilyInv'
    <2> DEFINE n == Len(sessions) + 1
    <2>1. /\ DOMAIN sessions' = DOMAIN sessions \cup {n}
          /\ DOMAIN sessions = 1 .. Len(sessions) /\ Len(sessions) \in Nat
          /\ n \notin DOMAIN sessions
          /\ sessions'[n] = row
          /\ \A s \in DOMAIN sessions : sessions'[s] = sessions[s]
        BY <1>3, InsertRow DEF Rotates
    <2>2. /\ row.family = sessions[t].family /\ row.user = sessions[t].user
          /\ row.parent = t /\ t \in DOMAIN sessions /\ t \notin revoked
          /\ revoked' = revoked \cup {t}
        BY <1>3 DEF Rotates
    <2>3. FamilyOpened'
        BY <2>1, <2>2 DEF FamilyInv, FamilyOpened
    <2>4. FamilyOneUser'
        <3> SUFFICES ASSUME NEW x \in DOMAIN sessions', NEW y \in DOMAIN sessions',
                            sessions'[x].family = sessions'[y].family
                     PROVE  sessions'[x].user = sessions'[y].user
            BY DEF FamilyOneUser
        <3>1. CASE x \in DOMAIN sessions /\ y \in DOMAIN sessions
            BY <2>1, <3>1 DEF FamilyInv, FamilyOneUser
        <3>2. CASE x = n /\ y \in DOMAIN sessions
            BY <2>1, <2>2, <3>2 DEF FamilyInv, FamilyOneUser
        <3>3. CASE x \in DOMAIN sessions /\ y = n
            BY <2>1, <2>2, <3>3 DEF FamilyInv, FamilyOneUser
        <3> QED BY <2>1, <3>1, <3>2, <3>3
    <2>5. OneLiveSession'
        BY <2>1, <2>2 DEF FamilyInv, OneLiveSession, Live
    <2>6. \A s \in DOMAIN sessions : sessions[s].parent # t
        BY <2>1, <2>2 DEF FamilyInv, Chain
    <2>7. Chain'
        BY <2>1, <2>2, <2>6 DEF FamilyInv, Chain
    <2> QED BY <2>3, <2>4, <2>5, <2>7 DEF FamilyInv
<1> QED BY <1>1, <1>2, <1>3, Effects

-----------------------------------------------------------------------------
(* Families that ended.                                                    *)

(* A step never revives a family without a live session.                   *)
LEMMA DeadStays ==
    ASSUME DataOK, CallsOK, FamilyInv, [Next]_vars,
           NEW f \in Families, Dead(f)
    PROVE  Dead(f)'
<1> USE DEF DataOK
<1>1. CASE OnlyRevokes
    BY <1>1 DEF OnlyRevokes, Dead, RowsOfFamily
<1>2. ASSUME NEW row, OpensFamily(row) PROVE Dead(f)'
    <2>1. f # Len(sessions) + 1
        BY DEF FamilyInv, FamilyOpened, Families
    <2> QED BY <1>2, <2>1, InsertRow DEF OpensFamily, Dead, RowsOfFamily
<1>3. ASSUME NEW t, NEW row, Rotates(t, row) PROVE Dead(f)'
    <2>1. row.family # f
        BY <1>3 DEF Rotates, Dead, RowsOfFamily
    <2> QED BY <1>3, <2>1, InsertRow DEF Rotates, Dead, RowsOfFamily
<1> QED BY <1>1, <1>2, <1>3, Effects

(* Revoking the live session of a family, or all of it, ends the family.   *)
LEMMA RevokeEnds ==
    ASSUME DataOK, FamilyInv, sessions' = sessions,
           NEW t \in DOMAIN sessions,
           \/ t \notin revoked /\ revoked' = revoked \cup {t}
           \/ revoked' = revoked \cup RowsOfFamily(sessions[t].family)
    PROVE  Dead(sessions[t].family)'
    BY DEF FamilyInv, OneLiveSession, Live, Dead, RowsOfFamily

(* What callers are told stays true.                                       *)
LEMMA StepEnded ==
    ASSUME DataOK, CallsOK, FamilyInv, EndedMeansDead, [Next]_vars
    PROVE  EndedMeansDead'
<1>1. CASE ended' = ended
    BY <1>1, DeadStays DEF EndedMeansDead, DataOK
<1>2. ASSUME NEW t \in DOMAIN sessions,
             sessions' = sessions, ended' = ended \cup {sessions[t].family},
             \/ t \notin revoked /\ revoked' = revoked \cup {t}
             \/ revoked' = revoked \cup RowsOfFamily(sessions[t].family)
      PROVE  EndedMeansDead'
    <2>1. Dead(sessions[t].family)'
        BY <1>2, RevokeEnds
    <2>2. \A f \in ended : Dead(f)'
        BY DeadStays DEF EndedMeansDead, DataOK
    <2>3. sessions'[t] = sessions[t]
        BY <1>2
    <2>4. ASSUME NEW f \in ended' PROVE Dead(f)'
        <3>1. CASE f \in ended
            BY <2>2, <3>1
        <3>2. CASE f = sessions'[t].family
            BY <2>1, <3>2 DEF Dead, RowsOfFamily
        <3> QED BY <1>2, <2>3, <2>4, <3>1, <3>2
    <2> QED BY <2>4 DEF EndedMeansDead
<1>3. ASSUME NEW r \in Requests,
             RefreshReused(r) \/ RefreshExpired(r) \/ RefreshDisabled(r)
      PROVE  EndedMeansDead'
    <2> DEFINE t == call[r].token
    <2>1. /\ t \in DOMAIN sessions
          /\ sessions' = sessions /\ ended' = ended \cup {sessions[t].family}
          /\ \/ t \notin revoked /\ revoked' = revoked \cup {t}
             \/ revoked' = revoked \cup RowsOfFamily(sessions[t].family)
        BY <1>3 DEF RefreshReused, RefreshExpired, RefreshDisabled, Live,
                    Issued, Revoke
    <2> QED BY <1>2, <2>1
<1>4. ASSUME NEW r \in Requests, LogoutRevoke(r), ended' # ended
      PROVE  EndedMeansDead'
    <2> DEFINE t == call[r].token
    <2>1. /\ t \in DOMAIN sessions /\ t \notin revoked
          /\ sessions' = sessions /\ ended' = ended \cup {sessions[t].family}
          /\ revoked' = revoked \cup {t}
        BY <1>4 DEF LogoutRevoke, Live, Revoke
    <2> QED BY <1>2, <2>1
<1>5. ASSUME NEW r \in Requests, RevokeTarget(r), ended' # ended
      PROVE  EndedMeansDead'
    <2> DEFINE t == call[r].target
    <2>1. /\ t \in DOMAIN sessions /\ t \notin revoked
          /\ sessions' = sessions /\ ended' = ended \cup {sessions[t].family}
          /\ revoked' = revoked \cup {t}
        BY <1>5 DEF RevokeTarget, RowOfUser, RowsOfUser, Revoke
    <2> QED BY <1>2, <2>1
<1>6. ASSUME NEW r \in Requests, LoginStep(r) \/ AuthenticateStep(r) \/ Throws(r)
      PROVE  ended' = ended
    BY <1>6 DEF LoginStep, LoginRejected, LoginLookup, LoginRehash, LoginStamp,
                LoginIssue, AuthenticateStep, ReadSession, ReadSessionFails,
                ReadClock, ReadUser, Throws, vars
<1>7. ASSUME NEW r \in Requests,
             RefreshUnknown(r) \/ RefreshRotate(r) \/ LogoutAll(r)
             \/ \E t \in Tokens : RefreshStamp(r, t) \/ LogoutRead(r, t)
      PROVE  ended' = ended
    BY <1>7 DEF RefreshUnknown, RefreshRotate, RefreshStamp, LogoutAll, LogoutRead
<1>8. ASSUME NEW r \in Requests,
             CurrentSession(r) \/ ChangeRejected(r)
             \/ (\E s \in Tokens : FindTarget(r, s))
             \/ (\E p \in Passwords : ChangePassword(r, p))
      PROVE  ended' = ended
    BY <1>8 DEF CurrentSession, ChangeRejected, FindTarget, ChangePassword
<1>9. ASSUME Tick \/ UNCHANGED vars \/ \E u \in Users : Enable(u) \/ Disable(u)
      PROVE  ended' = ended
    BY <1>9 DEF Tick, Enable, Disable, vars
<1> QED BY <1>1, <1>3, <1>4, <1>5, <1>6, <1>7, <1>8, <1>9
    DEF Next, RefreshStep, LogoutStep, AccountStep

-----------------------------------------------------------------------------
(* Cuts: logout_all, change_password, disabling an account.                *)

CutBound == \A u \in Users : cut[u].after <= Len(sessions)

(* A cut of user u revokes all of the user's sessions but one family.      *)
Cuts(u, keep) ==
    /\ sessions' = sessions /\ revoked \subseteq revoked'
    /\ u \in Users /\ keep \in Nat
    /\ cut' = [cut EXCEPT ![u] = [after |-> Len(sessions), keep |-> keep]]
    /\ \A s \in RowsOfUser(u) : s \in revoked' \/ sessions[s].family = keep

(* A step leaves the cuts alone or makes one.                              *)
LEMMA CutEffects ==
    ASSUME DataOK, CallsOK, [Next]_vars
    PROVE  cut' = cut \/ \E u, keep : Cuts(u, keep)
<1>1. ASSUME NEW r \in Requests, LogoutAll(r) PROVE \E u, keep : Cuts(u, keep)
    <2>1. call[r].user \in Users
        BY <1>1 DEF LogoutAll, CallsOK, CallOK, SessionSteps
    <2>2. Cuts(call[r].user, 0)
        BY <1>1, <2>1 DEF LogoutAll, Cuts, Revoke
    <2> QED BY <2>2
<1>2. ASSUME NEW r \in Requests, NEW p \in Passwords, ChangePassword(r, p)
      PROVE  \E u, keep : Cuts(u, keep)
    <2> DEFINE mine == call[r].token
    <2>1. call[r].user \in Users /\ mine \in DOMAIN sessions
        BY <1>2 DEF ChangePassword, CallsOK, CallOK, SessionSteps, TokenSteps
    <2>2. sessions[mine] \in Session
        BY <2>1 DEF DataOK
    <2>3. sessions[mine].family \in Nat
        BY <2>2 DEF Session
    <2>4. Cuts(call[r].user, sessions[mine].family)
        BY <1>2, <2>1, <2>3 DEF ChangePassword, Cuts, Revoke
    <2> QED BY <2>4
<1>3. ASSUME NEW u \in Users, Disable(u) PROVE \E v, keep : Cuts(v, keep)
    <2>1. Cuts(u, 0)
        BY <1>3 DEF Disable, Cuts, Revoke
    <2> QED BY <2>1
<1>4. ASSUME NEW r \in Requests, LoginStep(r) \/ RefreshStep(r)
      PROVE  cut' = cut
    BY <1>4 DEF LoginStep, LoginRejected, LoginLookup, LoginRehash, LoginStamp,
                LoginIssue, RefreshStep, RefreshStamp, RefreshUnknown,
                RefreshReused, RefreshExpired, RefreshDisabled, RefreshRotate,
                vars
<1>5. ASSUME NEW r \in Requests,
             AuthenticateStep(r) \/ Throws(r) \/ LogoutRevoke(r)
             \/ \E t \in Tokens : LogoutRead(r, t)
      PROVE  cut' = cut
    BY <1>5 DEF AuthenticateStep, ReadSession, ReadSessionFails, ReadClock,
                ReadUser, Throws, LogoutRevoke, LogoutRead, vars
<1>6. ASSUME NEW r \in Requests,
             CurrentSession(r) \/ RevokeTarget(r) \/ ChangeRejected(r)
             \/ \E s \in Tokens : FindTarget(r, s)
      PROVE  cut' = cut
    BY <1>6 DEF CurrentSession, RevokeTarget, ChangeRejected, FindTarget
<1>7. ASSUME Tick \/ UNCHANGED vars \/ \E u \in Users : Enable(u)
      PROVE  cut' = cut
    BY <1>7 DEF Tick, Enable, vars
<1> QED BY <1>1, <1>2, <1>3, <1>4, <1>5, <1>6, <1>7
    DEF Next, LogoutStep, AccountStep

(* The property of the cuts is preserved.                                  *)
LEMMA StepCut ==
    ASSUME DataOK, CallsOK, FamilyInv, CutBound, CutHolds, [Next]_vars
    PROVE  CutBound' /\ CutHolds'
<1>0. /\ Len(sessions) \in Nat
      /\ \A u \in Users : cut[u].after \in Nat /\ cut[u].keep \in Nat
      /\ \A s \in DOMAIN sessions : sessions[s] \in Session
    BY DEF DataOK
<1>1. \A s \in DOMAIN sessions : sessions[s].user \in Users
                                /\ sessions[s].family \in Nat
    BY <1>0 DEF Session
<1>2. CASE OnlyRevokes /\ cut' = cut
    BY <1>2 DEF OnlyRevokes, CutBound, CutHolds, Live
<1>3. ASSUME NEW u, NEW keep, Cuts(u, keep) PROVE CutBound' /\ CutHolds'
    <2>1. /\ cut'[u].after = Len(sessions) /\ cut'[u].keep = keep
          /\ \A v \in Users : v # u => cut'[v] = cut[v]
        BY <1>3 DEF Cuts, DataOK
    <2>2. CutBound'
        BY <1>0, <1>3, <2>1 DEF Cuts, CutBound
    <2>3. CutHolds'
        BY <1>1, <1>3, <2>1 DEF Cuts, CutHolds, Live, RowsOfUser
    <2> QED BY <2>2, <2>3
<1>4. ASSUME NEW row, OpensFamily(row) PROVE CutBound' /\ CutHolds'
    <2> DEFINE n == Len(sessions) + 1
    <2>1. /\ DOMAIN sessions' = DOMAIN sessions \cup {n}
          /\ Len(sessions') = n
          /\ sessions'[n] = row
          /\ row.family = n /\ row \in Session
          /\ \A s \in DOMAIN sessions : sessions'[s] = sessions[s]
          /\ revoked' = revoked /\ cut' = cut
        BY <1>4, InsertRow DEF OpensFamily, DataOK
    <2>2. row.user \in Users
        BY <2>1 DEF Session
    <2>3. CutBound'
        BY <1>0, <2>1 DEF CutBound
    <2>4. CutHolds'
        BY <1>0, <2>1, <2>2 DEF CutBound, CutHolds, Live
    <2> QED BY <2>3, <2>4
<1>5. ASSUME NEW t, NEW row, Rotates(t, row) PROVE CutBound' /\ CutHolds'
    <2> DEFINE n == Len(sessions) + 1
    <2>1. /\ DOMAIN sessions' = DOMAIN sessions \cup {n}
          /\ Len(sessions') = n
          /\ sessions'[n] = row
          /\ row.family = sessions[t].family /\ row.user = sessions[t].user
          /\ t \in DOMAIN sessions /\ t \notin revoked
          /\ \A s \in DOMAIN sessions : sessions'[s] = sessions[s]
          /\ revoked' = revoked \cup {t} /\ cut' = cut
        BY <1>5, InsertRow DEF Rotates, DataOK
    <2>2. CutBound'
        BY <1>0, <2>1 DEF CutBound
    <2>3. CutHolds'
        BY <2>1 DEF CutHolds, Live
    <2> QED BY <2>2, <2>3
<1>6. (\E row : OpensFamily(row)) \/ (\E t, row : Rotates(t, row)) \/ OnlyRevokes
    BY Effects
<1>7. cut' = cut \/ \E u, keep : Cuts(u, keep)
    BY CutEffects
<1> QED BY <1>2, <1>3, <1>4, <1>5, <1>6, <1>7

-----------------------------------------------------------------------------
(* What the calls have read.                                               *)

(* Clock values are not from the future, and the clock value of a refresh  *)
(* was read when the session it is about existed already.                  *)
StampInv ==
    /\ \A s \in DOMAIN sessions :
         sessions[s].refreshExpires <= now + RefreshLifetime
    /\ \A r \in Requests :
         /\ call[r].stamp <= now
         /\ call[r].token <= Len(sessions)
         /\ call[r].at = "refresh" /\ Issued(call[r].token) =>
              sessions[call[r].token].refreshExpires
                <= call[r].stamp + RefreshLifetime

(* A call works for the user whose token it presented.                     *)
CallUser ==
    \A r \in Requests :
        call[r].at \in SessionSteps => call[r].user = sessions[call[r].token].user

ChainExpires ==
    \A s \in DOMAIN sessions :
        sessions[s].parent # 0 =>
          sessions[sessions[s].parent].refreshExpires <= sessions[s].refreshExpires

(* How a step changes one call, as far as these invariants care.           *)
Moves(c, d) ==
    /\ d.stamp = 0 \/ d.stamp = c.stamp \/ d.stamp = now
    /\ d.token \in Tokens \/ d.token = c.token
    /\ d.at = "refresh" => d.stamp = now /\ d.token \in Tokens
    /\ d.at \in SessionSteps =>
         /\ d.token = c.token /\ c.at \in TokenSteps
         /\ \/ d.user = sessions[c.token].user
            \/ c.at \in SessionSteps /\ d.user = c.user

(* Every step moves each call or leaves it alone.                          *)
LEMMA CallMoves ==
    ASSUME DataOK, CallsOK, [Next]_vars, NEW q \in Requests
    PROVE  call'[q] = call[q] \/ Moves(call[q], call'[q])
<1> USE DEF SessionSteps, TokenSteps
<1>0. call \in [Requests -> Call] /\ now \in Nat /\ 0 \in Tokens
    BY DEF CallsOK, DataOK, Tokens
<1>1. ASSUME NEW r \in Requests, Finish(r)
      PROVE  call'[q] = call[q] \/ Moves(call[q], call'[q])
    BY <1>0, <1>1 DEF Finish, NoCall, Moves
<1>2. ASSUME NEW r \in Requests, NEW a \in Steps, Continue(r, a), a # "refresh",
             a \in SessionSteps => call[r].at \in SessionSteps
      PROVE  call'[q] = call[q] \/ Moves(call[q], call'[q])
    <2>1. CASE q = r
        <3>1. /\ call'[q].at = a /\ call'[q].token = call[q].token
              /\ call'[q].user = call[q].user /\ call'[q].stamp = call[q].stamp
            BY <1>0, <1>2, <2>1 DEF Continue, Call
        <3> QED BY <1>2, <2>1, <3>1 DEF Moves
    <2> QED BY <1>0, <1>2, <2>1 DEF Continue
<1>3. ASSUME NEW r \in Requests, LoginStep(r)
      PROVE  call'[q] = call[q] \/ Moves(call[q], call'[q])
    <2>1. ASSUME NEW u \in Users, NEW p \in Passwords, LoginLookup(r, u, p)
          PROVE  call'[q] = call[q] \/ Moves(call[q], call'[q])
        BY <1>0, <2>1 DEF LoginLookup, Begin, NoCall, Moves
    <2>2. CASE LoginRehash(r)
        BY <1>2, <2>2 DEF LoginRehash, Steps
    <2>3. CASE LoginStamp(r)
        <3>1. CASE q = r
            <4>1. /\ call'[q].at = "issue" /\ call'[q].token = call[q].token
                  /\ call'[q].stamp = now
                BY <1>0, <2>3, <3>1 DEF LoginStamp, Call
            <4> QED BY <4>1 DEF Moves
        <3> QED BY <1>0, <2>3, <3>1 DEF LoginStamp
    <2> QED BY <1>1, <1>3, <2>1, <2>2, <2>3 DEF LoginStep, LoginIssue,
                                                LoginRejected, vars
<1>4. ASSUME NEW r \in Requests, RefreshStep(r)
      PROVE  call'[q] = call[q] \/ Moves(call[q], call'[q])
    <2>1. ASSUME NEW t \in Tokens, RefreshStamp(r, t)
          PROVE  call'[q] = call[q] \/ Moves(call[q], call'[q])
        BY <1>0, <2>1 DEF RefreshStamp, Begin, NoCall, Moves
    <2> QED BY <1>1, <1>4, <2>1 DEF RefreshStep, RefreshUnknown, RefreshReused,
                RefreshExpired, RefreshDisabled, RefreshRotate
<1>5. ASSUME NEW r \in Requests, AuthenticateStep(r)
      PROVE  call'[q] = call[q] \/ Moves(call[q], call'[q])
    <2>1. ASSUME NEW t \in Tokens, NEW op \in Operations, ReadSession(r, op, t)
          PROVE  call'[q] = call[q] \/ Moves(call[q], call'[q])
        BY <1>0, <2>1 DEF ReadSession, Begin, NoCall, Moves
    <2>2. CASE ReadClock(r)
        BY <1>1, <1>2, <2>2 DEF ReadClock, Steps
    <2>3. CASE ReadUser(r) /\ ~Finish(r)
        <3>1. CASE q = r
            <4>1. /\ call'[q].at \in {"revoke_all", "session"}
                  /\ call'[q].token = call[q].token
                  /\ call'[q].stamp = call[q].stamp
                  /\ call'[q].user = sessions[call[q].token].user
                  /\ call[q].at = "user"
                BY <1>0, <2>3, <3>1 DEF ReadUser, Call
            <4> QED BY <4>1 DEF Moves
        <3> QED BY <1>0, <2>3, <3>1 DEF ReadUser
    <2> QED BY <1>1, <1>5, <2>1, <2>2, <2>3 DEF AuthenticateStep,
                ReadSessionFails, vars
<1>6. ASSUME NEW r \in Requests, LogoutStep(r)
      PROVE  call'[q] = call[q] \/ Moves(call[q], call'[q])
    <2>1. ASSUME NEW t \in Tokens, LogoutRead(r, t)
          PROVE  call'[q] = call[q] \/ Moves(call[q], call'[q])
        BY <1>0, <2>1 DEF LogoutRead, Begin, NoCall, Moves
    <2> QED BY <1>1, <1>6, <2>1 DEF LogoutStep, LogoutRevoke, LogoutAll
<1>7. ASSUME NEW r \in Requests, AccountStep(r)
      PROVE  call'[q] = call[q] \/ Moves(call[q], call'[q])
    <2>1. CASE CurrentSession(r)
        BY <1>1, <1>2, <2>1 DEF CurrentSession, Steps
    <2>2. ASSUME NEW s \in Tokens, FindTarget(r, s), ~Finish(r)
          PROVE  call'[q] = call[q] \/ Moves(call[q], call'[q])
        <3>1. CASE q = r
            <4>1. /\ call'[q].at = "revoke" /\ call'[q].token = call[q].token
                  /\ call'[q].stamp = call[q].stamp
                  /\ call'[q].user = call[q].user /\ call[q].at = "target"
                BY <1>0, <2>2, <3>1 DEF FindTarget, Call
            <4> QED BY <4>1 DEF Moves
        <3> QED BY <1>0, <2>2, <3>1 DEF FindTarget
    <2> QED BY <1>1, <1>7, <2>1, <2>2 DEF AccountStep, RevokeTarget,
            ChangeRejected, ChangePassword
<1> QED BY <1>1, <1>3, <1>4, <1>5, <1>6, <1>7
    DEF Next, Throws, Enable, Disable, Tick, vars

(* The clock values stay in order, and rotation does not shorten a login.  *)
LEMMA StepStamps ==
    ASSUME DataOK, CallsOK, FamilyInv, StampInv, ChainExpires, [Next]_vars
    PROVE  StampInv' /\ ChainExpires'
<1>0. /\ now \in Nat /\ RefreshLifetime \in Nat /\ Len(sessions) \in Nat
      /\ \A s \in DOMAIN sessions : sessions[s] \in Session
      /\ \A r \in Requests : call[r] \in Call
    BY LifetimeAssumption DEF DataOK, CallsOK
<1>1. /\ \A s \in DOMAIN sessions : sessions[s].refreshExpires \in Nat
      /\ \A r \in Requests : call[r].stamp \in Nat /\ call[r].token \in Nat
    BY <1>0 DEF Session, Call
<1>2. /\ now' \in Nat /\ now <= now'
      /\ DOMAIN sessions = 1 .. Len(sessions)
      /\ Len(sessions') \in Nat /\ Len(sessions) <= Len(sessions')
      /\ \A s \in DOMAIN sessions : s \in DOMAIN sessions' /\ sessions'[s] = sessions[s]
      /\ \A s \in DOMAIN sessions' \ DOMAIN sessions :
           /\ s = Len(sessions) + 1
           /\ \E r \in Requests :
                sessions'[s].refreshExpires = call[r].stamp + RefreshLifetime
    <2>1. now' \in Nat /\ now <= now'
        <3>1. now' = now \/ now' = now + 1
            BY DEF Next, LoginStep, LoginRejected, LoginLookup, LoginRehash,
                LoginStamp, LoginIssue, RefreshStep, RefreshStamp, RefreshUnknown,
                RefreshReused, RefreshExpired, RefreshDisabled, RefreshRotate,
                AuthenticateStep, ReadSession, ReadSessionFails, ReadClock,
                ReadUser, LogoutStep, LogoutRead, LogoutRevoke, LogoutAll,
                AccountStep, CurrentSession, FindTarget, RevokeTarget,
                ChangeRejected, ChangePassword, Throws, Enable, Disable, Tick, vars
        <3> QED BY <1>0, <3>1
    <2>2. CASE OnlyRevokes
        BY <1>0, <2>1, <2>2 DEF OnlyRevokes, DataOK
    <2>3. ASSUME NEW row, OpensFamily(row) \/ \E t : Rotates(t, row)
          PROVE  <1>2!2 /\ <1>2!3 /\ <1>2!4 /\ <1>2!5
        <3>1. /\ row \in Session /\ sessions' = Append(sessions, row)
              /\ \E r \in Requests :
                   row.refreshExpires = call[r].stamp + RefreshLifetime
            BY <2>3 DEF OpensFamily, Rotates
        <3> QED BY <1>0, <3>1, InsertRow DEF DataOK
    <2> QED BY <2>1, <2>2, <2>3, Effects
<1>3. \A s \in DOMAIN sessions' :
        sessions'[s].refreshExpires <= now' + RefreshLifetime
    <2>1. ASSUME NEW s \in DOMAIN sessions
          PROVE  sessions'[s].refreshExpires <= now' + RefreshLifetime
        BY <1>0, <1>1, <1>2 DEF StampInv
    <2>2. ASSUME NEW s \in DOMAIN sessions' \ DOMAIN sessions
          PROVE  sessions'[s].refreshExpires <= now' + RefreshLifetime
        BY <1>0, <1>1, <1>2 DEF StampInv
    <2> QED BY <2>1, <2>2
<1>4. ASSUME NEW r \in Requests
      PROVE  /\ call'[r].stamp <= now'
             /\ call'[r].token <= Len(sessions')
             /\ call'[r].at = "refresh" /\ call'[r].token \in DOMAIN sessions' =>
                  sessions'[call'[r].token].refreshExpires
                    <= call'[r].stamp + RefreshLifetime
    <2>1. CASE call'[r] = call[r]
        BY <1>0, <1>1, <1>2, <2>1 DEF StampInv, Issued
    <2>2. CASE Moves(call[r], call'[r])
        <3>1. call'[r].stamp <= now'
            BY <1>0, <1>1, <1>2, <2>2 DEF StampInv, Moves
        <3>2. call'[r].token <= Len(sessions')
            BY <1>0, <1>1, <1>2, <2>2 DEF StampInv, Moves, Tokens
        <3>3. ASSUME call'[r].at = "refresh", call'[r].token \in DOMAIN sessions'
              PROVE  sessions'[call'[r].token].refreshExpires
                       <= call'[r].stamp + RefreshLifetime
            <4>1. call'[r].stamp = now /\ call'[r].token \in DOMAIN sessions
                BY <1>0, <1>2, <2>2, <3>3 DEF Moves, Tokens
            <4> QED BY <1>2, <4>1 DEF StampInv
        <3> QED BY <3>1, <3>2, <3>3
    <2> QED BY <2>1, <2>2, CallMoves
<1>5. StampInv'
    BY <1>3, <1>4 DEF StampInv, Issued
<1>6. ChainExpires'
    <2>1. CASE OnlyRevokes
        BY <2>1 DEF OnlyRevokes, ChainExpires
    <2>2. ASSUME NEW row, OpensFamily(row) PROVE ChainExpires'
        <3>1. sessions'[Len(sessions) + 1].parent = 0
            BY <2>2, InsertRow DEF OpensFamily, DataOK
        <3> QED BY <1>2, <3>1 DEF ChainExpires, FamilyInv, Chain
    <2>3. ASSUME NEW t, NEW row, Rotates(t, row) PROVE ChainExpires'
        <3>1. /\ sessions'[Len(sessions) + 1] = row
              /\ row.parent = t /\ t \in DOMAIN sessions
              /\ sessions[t].refreshExpires <= row.refreshExpires
            BY <2>3, InsertRow DEF Rotates, DataOK, StampInv, Issued
        <3> QED BY <1>2, <3>1 DEF ChainExpires, FamilyInv, Chain
    <2> QED BY <2>1, <2>2, <2>3, Effects
<1> QED BY <1>5, <1>6

(* Calls keep working for the user they started for.                       *)
LEMMA StepCallUser ==
    ASSUME DataOK, CallsOK, CallUser, [Next]_vars, CallsOK',
           \A s \in DOMAIN sessions : sessions'[s] = sessions[s]
    PROVE  CallUser'
<1> SUFFICES ASSUME NEW r \in Requests, call'[r].at \in SessionSteps
             PROVE  call'[r].user = sessions'[call'[r].token].user
    BY DEF CallUser
<1>1. CASE call'[r] = call[r]
    <2>1. call[r].token \in DOMAIN sessions
        BY <1>1 DEF CallsOK, CallOK, TokenSteps
    <2> QED BY <1>1, <2>1 DEF CallUser
<1>2. CASE Moves(call[r], call'[r])
    <2>1. call[r].token \in DOMAIN sessions /\ call'[r].token = call[r].token
        BY <1>2 DEF Moves, CallsOK, CallOK
    <2> QED BY <1>2, <2>1 DEF Moves, CallUser
<1> QED BY <1>1, <1>2, CallMoves

-----------------------------------------------------------------------------
(* The inductive invariant.                                                *)
IInv ==
    /\ DataOK /\ CallsOK
    /\ FamilyInv
    /\ EndedMeansDead
    /\ CutBound /\ CutHolds
    /\ StampInv /\ ChainExpires
    /\ CallUser

(* It holds of an empty table.                                             *)
LEMMA InitIInv == Init => IInv
<1> SUFFICES ASSUME Init PROVE IInv
    OBVIOUS
<1>1. DOMAIN sessions = {} /\ Len(sessions) = 0 /\ sessions \in Seq(Session)
    BY DEF Init
<1>2. call \in [Requests -> Call] /\ \A r \in Requests : call[r] = NoCall
    BY DEF Init, Call, NoCall, Steps
<1>3. NoCall.at = "idle" /\ NoCall.stamp = 0 /\ NoCall.token = 0
    BY DEF NoCall
<1>4. CallsOK
    BY <1>2, <1>3 DEF CallsOK, CallOK, LoginSteps, SessionSteps, TokenSteps
<1>5. account \in [Users -> Accounts]
    BY DEF Init, Accounts
<1>6. DataOK
    BY <1>1, <1>5 DEF Init, DataOK
<1>7. FamilyInv /\ EndedMeansDead /\ ChainExpires /\ CutHolds
    BY <1>1 DEF Init, FamilyInv, FamilyOpened, FamilyOneUser, OneLiveSession,
                Chain, EndedMeansDead, ChainExpires, CutHolds
<1>8. CutBound
    BY <1>1 DEF Init, CutBound
<1>9. StampInv
    BY <1>1, <1>2, <1>3, LifetimeAssumption DEF Init, StampInv, Issued
<1>10. CallUser
    BY <1>2, <1>3 DEF CallUser, SessionSteps
<1> QED BY <1>4, <1>6, <1>7, <1>8, <1>9, <1>10 DEF IInv

(* Every step preserves it.                                                *)
LEMMA StepIInv == IInv /\ [Next]_vars => IInv'
<1> SUFFICES ASSUME IInv, [Next]_vars PROVE IInv'
    OBVIOUS
<1> USE DEF IInv
<1>1. DataOK' /\ CallsOK'
    <2>1. CASE UNCHANGED vars
        BY <2>1 DEF vars, DataOK, CallsOK, CallOK, Families
    <2> QED BY <2>1, StepData, StepCalls
<1>2. FamilyInv'
    BY StepFamilies
<1>3. EndedMeansDead'
    BY StepEnded
<1>4. CutBound' /\ CutHolds'
    BY StepCut
<1>5. StampInv' /\ ChainExpires'
    BY StepStamps
<1>6. \A s \in DOMAIN sessions : sessions'[s] = sessions[s]
    <2>1. OnlyRevokes \/ \E row : row \in Session /\ sessions' = Append(sessions, row)
        BY Effects DEF OpensFamily, Rotates
    <2> QED BY <2>1, InsertRow DEF OnlyRevokes, DataOK
<1>7. CallUser'
    BY <1>1, <1>6, StepCallUser
<1> QED BY <1>1, <1>2, <1>3, <1>4, <1>5, <1>7

(* The invariant holds in every reachable state.                           *)
THEOREM Invariance == Spec => []IInv
<1>1. Init => IInv
    BY InitIInv
<1>2. IInv /\ [Next]_vars => IInv'
    BY StepIInv
<1> QED BY <1>1, <1>2, PTL DEF Spec

(* The tables and the calls keep their types, and a call works on rows     *)
(* that exist.                                                             *)
THEOREM TypeCorrect == Spec => []TypeOK
<1>1. IInv => TypeOK
    BY TypeParts DEF IInv
<1> QED BY <1>1, Invariance, PTL

(* However many refreshes, logouts and logins race, a login has at most    *)
(* one usable session.                                                     *)
THEOREM OneLive == Spec => []OneLiveSession
<1>1. IInv => OneLiveSession
    BY DEF IInv, FamilyInv
<1> QED BY <1>1, Invariance, PTL

(* Rotation is a chain without branches that never shortens a login.       *)
THEOREM RotationChain == Spec => []RotationIsChain
<1>1. IInv => RotationIsChain
    BY DEF IInv, FamilyInv, Chain, ChainExpires, RotationIsChain
<1> QED BY <1>1, Invariance, PTL

(* For every number of users, calls and sessions, whatever they race: a    *)
(* token family is a chain of rotations with one usable session at most.   *)
THEOREM FamilyChain == Spec => []FamilyIsChain
<1>1. OneLiveSession /\ RotationIsChain => FamilyIsChain
    BY DEF FamilyIsChain
<1> QED BY <1>1, OneLive, RotationChain, PTL

(* A family that ended never has a usable session again.                   *)
THEOREM NoRevival == Spec => DeadFamilyStaysDead
<1>1. IInv /\ [Next]_vars => [\A f \in Families : Dead(f) => Dead(f)']_vars
    BY DeadStays DEF IInv
<1> QED BY <1>1, Invariance, PTL DEF Spec, DeadFamilyStaysDead

(* What refresh, logout and revoke_session told their callers stays true.  *)
THEOREM EndedDead == Spec => []EndedMeansDead
<1>1. IInv => EndedMeansDead
    BY DEF IInv
<1> QED BY <1>1, Invariance, PTL

(* After a cut only later logins and the kept chain are usable.            *)
THEOREM CutsHold == Spec => []CutHolds
<1>1. IInv => CutHolds
    BY DEF IInv
<1> QED BY <1>1, Invariance, PTL

(* The step of a call revokes only rows of the user it works for.          *)
LEMMA RevokesOwn ==
    ASSUME IInv, [Next]_vars, NEW s \in revoked' \ revoked
    PROVE  \/ UNCHANGED call
           \/ \E r \in Requests :
                /\ call'[r] # call[r]
                /\ Issued(call[r].token)
                /\ sessions[call[r].token].user = sessions[s].user
<1> DEFINE Own(r) == /\ call'[r] # call[r]
                     /\ Issued(call[r].token)
                     /\ sessions[call[r].token].user = sessions[s].user
<1>0. /\ call \in [Requests -> Call] /\ NoCall.at = "idle"
      /\ \A r \in Requests : CallOK(call[r], DOMAIN sessions)
    BY DEF IInv, CallsOK, NoCall
<1>1. ASSUME NEW r \in Requests, Finish(r), ~Idle(r) PROVE call'[r] # call[r]
    BY <1>0, <1>1 DEF Finish, Idle
<1>2. ASSUME NEW r \in Requests, RefreshStep(r) PROVE Own(r) \/ s \notin revoked'
    <2> DEFINE t == call[r].token
    <2>1. CASE RefreshReused(r)
        <3>1. t \in DOMAIN sessions /\ s \in RowsOfFamily(sessions[t].family)
            BY <2>1 DEF RefreshReused, Revoke, Issued
        <3>2. sessions[t].user = sessions[s].user
            BY <3>1 DEF IInv, FamilyInv, FamilyOneUser, RowsOfFamily
        <3> QED BY <1>1, <2>1, <3>1, <3>2 DEF RefreshReused, Idle, Issued
    <2>2. CASE RefreshExpired(r) \/ RefreshDisabled(r) \/ RefreshRotate(r)
        <3>1. t \in DOMAIN sessions /\ s = t
            BY <2>2 DEF RefreshExpired, RefreshDisabled, RefreshRotate, Revoke,
                        Live
        <3> QED BY <1>1, <2>2, <3>1 DEF RefreshExpired, RefreshDisabled,
                        RefreshRotate, Idle, Issued
    <2>3. CASE RefreshUnknown(r) \/ \E x \in Tokens : RefreshStamp(r, x)
        BY <2>3 DEF RefreshUnknown, RefreshStamp
    <2> QED BY <1>2, <2>1, <2>2, <2>3 DEF RefreshStep
<1>3. ASSUME NEW r \in Requests, LogoutStep(r) PROVE Own(r) \/ s \notin revoked'
    <2> DEFINE t == call[r].token
    <2>1. CASE LogoutRevoke(r)
        <3>1. t \in DOMAIN sessions /\ s = t
            BY <1>0, <2>1 DEF LogoutRevoke, Revoke, CallOK, TokenSteps
        <3> QED BY <1>1, <2>1, <3>1 DEF LogoutRevoke, Idle, Issued
    <2>2. CASE LogoutAll(r)
        <3>1. t \in DOMAIN sessions /\ sessions[s].user = call[r].user
            BY <1>0, <2>2 DEF LogoutAll, Revoke, CallOK, TokenSteps, SessionSteps,
                              RowsOfUser
        <3>2. sessions[t].user = call[r].user
            BY <2>2 DEF LogoutAll, IInv, CallUser, SessionSteps
        <3> QED BY <1>1, <2>2, <3>1, <3>2 DEF LogoutAll, Idle, Issued
    <2>3. CASE \E x \in Tokens : LogoutRead(r, x)
        BY <2>3 DEF LogoutRead
    <2> QED BY <1>3, <2>1, <2>2, <2>3 DEF LogoutStep
<1>4. ASSUME NEW r \in Requests, AccountStep(r) PROVE Own(r) \/ s \notin revoked'
    <2> DEFINE t == call[r].token
    <2>1. CASE RevokeTarget(r) \/ \E p \in Passwords : ChangePassword(r, p)
        <3>1. /\ call[r].at \in {"revoke", "change"} /\ Finish(r)
              /\ sessions[s].user = call[r].user
            BY <2>1 DEF RevokeTarget, ChangePassword, Revoke, RowOfUser, RowsOfUser
        <3>2. t \in DOMAIN sessions /\ sessions[t].user = call[r].user
            BY <1>0, <3>1 DEF CallOK, TokenSteps, SessionSteps, IInv, CallUser
        <3> QED BY <1>1, <3>1, <3>2 DEF Idle, Issued
    <2>2. CASE CurrentSession(r) \/ ChangeRejected(r)
               \/ \E x \in Tokens : FindTarget(r, x)
        BY <2>2 DEF CurrentSession, ChangeRejected, FindTarget
    <2> QED BY <1>4, <2>1, <2>2 DEF AccountStep
<1>5. ASSUME NEW r \in Requests, LoginStep(r) \/ AuthenticateStep(r) \/ Throws(r)
      PROVE  s \notin revoked'
    BY <1>5 DEF LoginStep, LoginRejected, LoginLookup, LoginRehash, LoginStamp,
                LoginIssue, AuthenticateStep, ReadSession, ReadSessionFails,
                ReadClock, ReadUser, Throws, vars
<1>6. ASSUME Tick \/ UNCHANGED vars \/ \E u \in Users : Enable(u) \/ Disable(u)
      PROVE  UNCHANGED call
    BY <1>6 DEF Tick, Enable, Disable, vars
<1> QED BY <1>2, <1>3, <1>4, <1>5, <1>6 DEF Next

(* No request revokes the sessions of another user.                        *)
THEOREM OwnerOnly == Spec => OnlyOwnerRevokes
<1>1. IInv /\ [Next]_vars =>
        [\A s \in revoked' \ revoked :
           \/ UNCHANGED call
           \/ \E r \in Requests :
                /\ call'[r] # call[r]
                /\ Issued(call[r].token)
                /\ sessions[call[r].token].user = sessions[s].user]_vars
    BY RevokesOwn
<1> QED BY <1>1, Invariance, PTL DEF Spec, OnlyOwnerRevokes
=============================================================================
