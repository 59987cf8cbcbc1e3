----------------------------- MODULE LoginGuard -----------------------------
(***************************************************************************)
(* AuthAbuseProtector and the login calls that run through it              *)
(* (src/src/security/auth_abuse_protector.cpp, AuthService::login).        *)
(*                                                                         *)
(* Failed logins are counted under the normalised login and under the      *)
(* client address; at its limit a counter starts a lock whose length       *)
(* doubles from one lock to the next.  A login call is four steps of one   *)
(* worker thread that others interleave with: check, the Argon2            *)
(* verification, then record_failure or record_success.  Each of the three *)
(* runs under one mutex, but `now` is a default argument: the caller reads *)
(* the clock before it waits for the mutex, so a body may run with a time  *)
(* that is older than one a body before it used.                           *)
(*                                                                         *)
(* Time is counted in ticks, the clock's nanoseconds.  The configuration   *)
(* and Retry-After are written in seconds; in between a wait is cut to     *)
(* whole milliseconds.  Time 0 stands for the default constructed          *)
(* time_point.                                                             *)
(***************************************************************************)
EXTENDS Integers, FiniteSets, Functions

CONSTANTS
    Logins,          \* logins as they are typed
    Accounts,        \* normalised logins, the keys of account_states_
    NormalLogin,     \* normalize_login: case and blanks do not matter
    Ips,             \* client addresses, the keys of ip_states_
    Calls,           \* worker threads that run a login
    AccountLimit,    \* config_.account_failure_limit
    IpLimit,         \* config_.ip_failure_limit
    Window,          \* config_.failure_window, in seconds
    BaseLockout,     \* config_.base_lockout, in seconds
    MaxLockout,      \* config_.maximum_lockout, in seconds
    MaxAccounts,     \* config_.maximum_tracked_accounts
    MaxIps,          \* config_.maximum_tracked_ips
    PruneEvery,      \* every 256th operation prunes the tables
    TicksPerMilli,   \* 1000000
    MillisPerSecond, \* 1000
    MaxRetry,        \* the largest uint32_t
    Instants         \* bound of the model: the times the clock shows

(* The constructor refuses every other configuration; config validation    *)
(* keeps the longest lock below a week, which a Retry-After can say.       *)
ASSUME ConfigAssumption ==
    /\ AccountLimit \in Nat \ {0} /\ IpLimit \in Nat \ {0}
    /\ Window \in Nat \ {0} /\ BaseLockout \in Nat \ {0}
    /\ MaxLockout \in Nat /\ MaxLockout >= BaseLockout
    /\ MaxRetry \in Nat /\ MaxRetry >= MaxLockout
    /\ MaxAccounts \in Nat \ {0} /\ MaxIps \in Nat \ {0}

ASSUME KeyAssumption == NormalLogin \in [Logins -> Accounts]

ASSUME BoundAssumption ==
    /\ PruneEvery \in Nat \ {0}
    /\ TicksPerMilli \in Nat \ {0} /\ MillisPerSecond \in Nat \ {0}
    /\ Instants \subseteq Nat \ {0} /\ 1 \in Instants

VARIABLES
    now,       \* Clock::now()
    accounts,  \* account_states_: tracked account -> FailureState
    ips,       \* ip_states_: tracked address -> FailureState
    operations,\* operation_count_ modulo PruneEvery
    call       \* the login call of every thread

vars == <<now, accounts, ips, operations, call>>

FailureState ==
    [failures : Nat, lockout_level : Nat, window_started : Nat,
     locked_until : Nat, last_seen : Nat]

NoFailures ==
    [failures |-> 0, lockout_level |-> 0, window_started |-> 0,
     locked_until |-> 0, last_seen |-> 0]

TicksPerSecond == MillisPerSecond * TicksPerMilli
WindowTicks == Window * TicksPerSecond
LockTicks(seconds) == seconds * TicksPerSecond

-----------------------------------------------------------------------------
(* The decisions.                                                          *)

(* Cut to whole milliseconds, rounded up to whole seconds, one at least.   *)
Rounded(ticks, perMilli, perSecond) ==
    LET millis  == ticks \div perMilli
        seconds == (millis + perSecond - 1) \div perSecond
    IN  IF seconds > 1 THEN seconds ELSE 1

Saturated(seconds) == IF seconds > MaxRetry THEN MaxRetry ELSE seconds

ceil_seconds(ticks) ==
    IF ticks <= 0 THEN 0
    ELSE Saturated(Rounded(ticks, TicksPerMilli, MillisPerSecond))

(* The multiplier of lockout_duration after that many rounds of its loop,  *)
(* which stops doubling once the multiplier has reached the maximum.       *)
multiplier[rounds \in Nat] ==
    IF rounds = 0 THEN 1
    ELSE IF multiplier[rounds - 1] >= MaxLockout THEN multiplier[rounds - 1]
    ELSE 2 * multiplier[rounds - 1]

(* Mutant: the loop runs level times, one doubling too many.               *)
LockoutDoubledTwice(level) ==
    LET factor == multiplier[level]
    IN  IF BaseLockout > MaxLockout \div factor THEN MaxLockout
        ELSE BaseLockout * factor

lockout_duration(level) ==
    LET factor == multiplier[level - 1]
    IN  IF BaseLockout > MaxLockout \div factor THEN MaxLockout
        ELSE BaseLockout * factor

Allowed(state) == [state |-> state, allowed |-> TRUE, retry |-> 0, locks |-> FALSE]
Refused(state, retry) ==
    [state |-> state, allowed |-> FALSE, retry |-> retry, locks |-> FALSE]

(* Has the state been left alone for so long that it starts afresh?        *)
QuietAfterLock(state, at) ==
    state.locked_until # 0 /\ at - state.locked_until > WindowTicks
QuietWithoutLock(state, at) ==
    /\ state.locked_until = 0 /\ state.last_seen # 0
    /\ at - state.last_seen > WindowTicks

check_state(state, at) ==
    LET seen == [state EXCEPT !.last_seen = at]
    IN  IF state.locked_until > at
        THEN Refused(seen, ceil_seconds(state.locked_until - at))
        ELSE IF QuietAfterLock(state, at) \/ QuietWithoutLock(state, at)
        THEN Allowed([seen EXCEPT !.failures = 0, !.lockout_level = 0,
                                  !.window_started = at, !.locked_until = 0])
        ELSE IF state.window_started # 0 /\ at - state.window_started > WindowTicks
        THEN Allowed([seen EXCEPT !.failures = 0, !.window_started = at])
        ELSE Allowed(seen)

(* The first failure of a new state starts its window.                     *)
OpenWindow(state, at) ==
    IF state.window_started = 0 \/ at - state.window_started > WindowTicks
    THEN [state EXCEPT !.failures = 0, !.lockout_level = 0, !.window_started = at]
    ELSE state

record_failure_state(state, limit, at) ==
    LET current == check_state(state, at)
        opened  == OpenWindow(current.state, at)
        level   == opened.lockout_level + 1
        length  == lockout_duration(level)
    IN  IF ~current.allowed THEN current
        ELSE IF opened.failures + 1 < limit
        THEN Allowed([opened EXCEPT !.failures = @ + 1])
        ELSE [state |-> [opened EXCEPT !.failures = 0, !.lockout_level = level,
                                       !.locked_until = at + LockTicks(length)],
              allowed |-> FALSE, retry |-> length, locks |-> TRUE]

(* Mutant: only the wait of the account is reported.                       *)
FirstWait(a, b) == a.retry

(* The longer of the two waits.                                            *)
LongerWait(a, b) == IF a.retry > b.retry THEN a.retry ELSE b.retry

(* Mutant: one dimension that allows the call is enough.                   *)
EitherAllows(a, b) ==
    [allowed |-> a.allowed \/ b.allowed,
     retry   |-> IF a.allowed \/ b.allowed THEN 0 ELSE LongerWait(a, b)]

(* Both dimensions must allow the call.                                    *)
Combined(a, b) ==
    [allowed |-> a.allowed /\ b.allowed,
     retry   |-> IF a.allowed /\ b.allowed THEN 0 ELSE LongerWait(a, b)]

-----------------------------------------------------------------------------
(* The tables.                                                             *)

Without(table, keys) == Restrict(table, DOMAIN table \ keys)
With(table, key, state) ==
    [k \in DOMAIN table \cup {key} |-> IF k = key THEN state ELSE table[k]]
Entry(table, key) == IF key \in DOMAIN table THEN table[key] ELSE NoFailures

StaleTicks == WindowTicks + LockTicks(MaxLockout)
Stale(table, at) ==
    {k \in DOMAIN table :
        table[k].last_seen # 0 /\ at - table[k].last_seen > StaleTicks}

(* prune_if_needed: the operation that completes a round prunes.           *)
PruneIsDue == (operations + 1) % PruneEvery = 0
Pruned(table, at) == IF PruneIsDue THEN Without(table, Stale(table, at)) ELSE table
CountOperation == operations' = (operations + 1) % PruneEvery

(* ensure_capacity: erase(begin()) of a hash table takes any entry.        *)
ensure_capacity(table, key, maximum) ==
    IF key \in DOMAIN table \/ Cardinality(DOMAIN table) < maximum
    THEN {table}
    ELSE {Without(table, {victim}) : victim \in DOMAIN table}

-----------------------------------------------------------------------------
(* The login call.  A call holds its login, its address and, while it is   *)
(* in the protector, the time it came with.  `overtaken` is history: the   *)
(* dimensions in which a lock began after the call was let in (or refused).*)

Phases == {"idle", "arrived", "verifying", "wrong", "right", "refused"}
Dimensions == {"account", "ip"}

Idle == [phase |-> "idle"]
CallState ==
    [phase : Phases \ {"idle"}, login : Logins, ip : Ips, at : Nat,
     retry : Nat, overtaken : SUBSET Dimensions]

Key(c) == NormalLogin[call[c].login]
Address(c) == call[c].ip

(* A lock began for this account and this address, in these dimensions:    *)
(* the calls about them that are under way are overtaken by it.            *)
Overtake(calls, key, ip, dims) ==
    [d \in Calls |->
        IF calls[d].phase = "idle" THEN calls[d]
        ELSE [calls[d] EXCEPT !.overtaken = @ \cup
                {x \in dims : \/ x = "account" /\ NormalLogin[calls[d].login] = key
                              \/ x = "ip" /\ calls[d].ip = ip}]]

(* The arguments are evaluated, the clock among them.  A login that is     *)
(* blank is refused before this point and changes nothing.                 *)
Arrive(c, login, ip) ==
    /\ call[c].phase = "idle"
    /\ call' = [call EXCEPT ![c] =
                   [phase |-> "arrived", login |-> login, ip |-> ip, at |-> now,
                    retry |-> 0, overtaken |-> {}]]
    /\ UNCHANGED <<now, accounts, ips, operations>>

(* What check leaves in a table: the state it looked at was seen.          *)
Looked(table, key, decision) ==
    IF key \in DOMAIN table THEN With(table, key, decision.state) ELSE table

check(c) ==
    LET at == call[c].at
        A  == Pruned(accounts, at)
        I  == Pruned(ips, at)
        byAccount == check_state(Entry(A, Key(c)), at)
        byIp      == check_state(Entry(I, Address(c)), at)
        decision  == Combined(byAccount, byIp)
    IN  /\ call[c].phase = "arrived"
        /\ CountOperation
        /\ accounts' = Looked(A, Key(c), byAccount)
        /\ ips' = Looked(I, Address(c), byIp)
        /\ call' = [call EXCEPT
              ![c].phase = IF decision.allowed THEN "verifying" ELSE "refused",
              ![c].at = IF decision.allowed THEN 0 ELSE @,
              ![c].retry = decision.retry,
              ![c].overtaken = {}]
        /\ UNCHANGED now

(* The password is wrong or the user unknown: record_failure is called     *)
(* with the time of this moment.                                           *)
VerifyFails(c) ==
    /\ call[c].phase = "verifying"
    /\ call' = [call EXCEPT ![c].phase = "wrong", ![c].at = now]
    /\ UNCHANGED <<now, accounts, ips, operations>>

(* The password is right, the account enabled and its hash up to date.     *)
VerifySucceeds(c) ==
    /\ call[c].phase = "verifying"
    /\ call' = [call EXCEPT ![c].phase = "right"]
    /\ UNCHANGED <<now, accounts, ips, operations>>

(* The password is right but the account is disabled, or its hash cannot   *)
(* be upgraded: the call fails without telling the protector.              *)
VerifyUnrecorded(c) ==
    /\ call[c].phase = "verifying"
    /\ call' = [call EXCEPT ![c] = Idle]
    /\ UNCHANGED <<now, accounts, ips, operations>>

record_failure(c) ==
    LET at == call[c].at
    IN  /\ call[c].phase = "wrong"
        /\ CountOperation
        /\ \E A \in ensure_capacity(Pruned(accounts, at), Key(c), MaxAccounts),
              I \in ensure_capacity(Pruned(ips, at), Address(c), MaxIps) :
              LET byAccount == record_failure_state(Entry(A, Key(c)), AccountLimit, at)
                  byIp      == record_failure_state(Entry(I, Address(c)), IpLimit, at)
                  decision  == Combined(byAccount, byIp)
                  begun     == {x \in Dimensions : \/ x = "account" /\ byAccount.locks
                                                   \/ x = "ip" /\ byIp.locks}
                  calls     == Overtake(call, Key(c), Address(c), begun)
              IN  /\ accounts' = With(A, Key(c), byAccount.state)
                  /\ ips' = With(I, Address(c), byIp.state)
                  /\ call' = [calls EXCEPT ![c] =
                        IF decision.allowed THEN Idle
                        ELSE [calls[c] EXCEPT !.phase = "refused",
                                              !.retry = decision.retry,
                                              !.overtaken = {}]]
        /\ UNCHANGED now

(* Mutant: a successful login clears its address as well.                  *)
SuccessClearsAddress(c) ==
    /\ call[c].phase = "right"
    /\ accounts' = Without(accounts, {Key(c)})
    /\ ips' = Without(ips, {Address(c)})
    /\ call' = [call EXCEPT ![c] = Idle]
    /\ UNCHANGED <<now, operations>>

(* Only the account is forgiven: the address keeps its failures, or a      *)
(* valid account could clear the count of its whole address.               *)
record_success(c) ==
    /\ call[c].phase = "right"
    /\ accounts' = Without(accounts, {Key(c)})
    /\ call' = [call EXCEPT ![c] = Idle]
    /\ UNCHANGED <<now, ips, operations>>

(* The client has its 429 with Retry-After.                                *)
Leave(c) ==
    /\ call[c].phase = "refused"
    /\ call' = [call EXCEPT ![c] = Idle]
    /\ UNCHANGED <<now, accounts, ips, operations>>

(* Time passes, any amount of it between two steps.                        *)
Tick ==
    /\ \E t \in Instants : t > now /\ now' = t
    /\ UNCHANGED <<accounts, ips, operations, call>>

Step(c) ==
    \/ \E login \in Logins, ip \in Ips : Arrive(c, login, ip)
    \/ check(c)
    \/ VerifyFails(c)
    \/ VerifySucceeds(c)
    \/ VerifyUnrecorded(c)
    \/ record_failure(c)
    \/ record_success(c)
    \/ Leave(c)

Init ==
    /\ now = 1
    /\ accounts = [k \in {} |-> NoFailures]
    /\ ips = [k \in {} |-> NoFailures]
    /\ operations = 0
    /\ call = [c \in Calls |-> Idle]

Next == Tick \/ \E c \in Calls : Step(c)

Spec == Init /\ [][Next]_vars

-----------------------------------------------------------------------------
(* Properties.                                                             *)

Tables(keys) == UNION {[S -> FailureState] : S \in SUBSET keys}

(* The variables keep their types and the tables their capacities.         *)
TypeOK ==
    /\ now \in Nat \ {0}
    /\ accounts \in Tables(Accounts)
    /\ ips \in Tables(Ips)
    /\ Cardinality(DOMAIN accounts) <= MaxAccounts
    /\ Cardinality(DOMAIN ips) <= MaxIps
    /\ operations \in 0 .. PruneEvery - 1
    /\ call \in [Calls -> CallState \cup {Idle}]

LockedOut(table, key) == key \in DOMAIN table /\ table[key].locked_until > now

(* A password is verified for a locked account, or from a locked address,  *)
(* only by a call that check let in before the lock began, whatever the    *)
(* age of the times that check and record_failure were given: during a     *)
(* lock no new guess starts.                                               *)
NoGuessDuringLock ==
    \A c \in Calls : call[c].phase \in {"verifying", "wrong", "right"} =>
        /\ LockedOut(accounts, Key(c)) => "account" \in call[c].overtaken
        /\ LockedOut(ips, Address(c)) => "ip" \in call[c].overtaken

(* A lock ends less than a millisecond after this wait, or the wait is the *)
(* longest that can be told.                                               *)
Outlasts(retry, at, until) ==
    until < at + LockTicks(retry) + TicksPerMilli \/ retry = MaxRetry

(* Retry-After is honest to the millisecond: a client that waits for the   *)
(* time it was told finds no lock, in either dimension, that existed when  *)
(* it was told and lasts for a millisecond more.                           *)
RetryIsEnough ==
    \A c \in Calls : call[c].phase = "refused" =>
        LET Enough(until) == Outlasts(call[c].retry, call[c].at, until)
        IN  /\ call[c].retry > 0
            /\ "account" \notin call[c].overtaken =>
                   Enough(Entry(accounts, Key(c)).locked_until)
            /\ "ip" \notin call[c].overtaken =>
                   Enough(Entry(ips, Address(c)).locked_until)

(* An entry leaves a table in these ways only.                             *)
EvictedFor(table, tableAfter, maximum) ==
    /\ Cardinality(DOMAIN table) >= maximum
    /\ \E k \in DOMAIN tableAfter : k \notin DOMAIN table
PrunedNow(table, key) ==
    /\ PruneIsDue
    /\ now - table[key].last_seen > StaleTicks

(* A lock in force is neither shortened nor lengthened, by late failures   *)
(* or by checks with an old time.  The lock of an address ends early only  *)
(* when the full table evicts it for another address or a prune finds it   *)
(* untouched for longer than a window and the longest lock; the lock of an *)
(* account also when a call that was let in before logs in to it.          *)
LockHolds ==
    [][/\ \A k \in DOMAIN ips : LockedOut(ips, k) =>
             \/ k \in DOMAIN ips' /\ ips'[k].locked_until = ips[k].locked_until
             \/ EvictedFor(ips, ips', MaxIps)
             \/ PrunedNow(ips, k)
       /\ \A k \in DOMAIN accounts : LockedOut(accounts, k) =>
             \/ k \in DOMAIN accounts' /\ accounts'[k].locked_until = accounts[k].locked_until
             \/ EvictedFor(accounts, accounts', MaxAccounts)
             \/ PrunedNow(accounts, k)
             \/ \E c \in Calls : record_success(c) /\ Key(c) = k]_vars

PowerOfTwo[n \in Nat] == IF n = 0 THEN 1 ELSE 2 * PowerOfTwo[n - 1]
LockoutSeconds(level) ==
    LET full == BaseLockout * PowerOfTwo[level - 1]
    IN  IF full < MaxLockout THEN full ELSE MaxLockout

(* Quiet for a window, forgotten by a prune, or never failed before.       *)
StartsOver(state, at) ==
    \/ QuietAfterLock(state, at) \/ QuietWithoutLock(state, at)
    \/ at - state.last_seen > StaleTicks
    \/ state.window_started = 0

(* A lock that a failure makes longer is one level above the lock before   *)
(* it, or the first after a quiet time, and lasts from the time of the     *)
(* failure for the length of its level.                                    *)
NextLock(before, after, at) ==
    after.locked_until > before.locked_until =>
        /\ \/ after.lockout_level = before.lockout_level + 1
           \/ after.lockout_level = 1 /\ StartsOver(before, at)
        /\ after.locked_until - at = LockTicks(LockoutSeconds(after.lockout_level))

(* Lock after lock of a key lasts twice as long, up to the maximum, unless *)
(* a whole window was quiet in between: neither the length, nor the level  *)
(* it is computed from, skips a lock or forgets one.                       *)
LockoutDoubles ==
    [][\A c \in Calls : call[c].phase = "wrong" /\ call'[c].phase # "wrong" =>
          /\ NextLock(Entry(accounts, Key(c)), Entry(accounts', Key(c)), call[c].at)
          /\ NextLock(Entry(ips, Address(c)), Entry(ips', Address(c)), call[c].at)]_vars

(* check_state says that the level is kept across a lock and reset only    *)
(* after a whole quiet window after its end: a reset never drops a failure *)
(* that was counted less than a window ago.                                *)
ResetNeedsQuiet ==
    [][\A k \in DOMAIN accounts \cap DOMAIN accounts' :
          accounts[k].lockout_level > 0 /\ accounts'[k].lockout_level = 0 =>
              \/ accounts[k].failures = 0
              \/ accounts'[k].window_started - accounts[k].window_started > WindowTicks]_vars
=============================================================================
