------------------------ MODULE DatabasePool_proofs -------------------------
(***************************************************************************)
(* The safety of the connection pool, for every number of threads and of   *)
(* connections.                                                            *)
(***************************************************************************)
EXTENDS DatabasePool, FiniteSetTheorems, TLAPS

USE DEF sqlite

(* The types, with counters that might be negative.                        *)
DataOK ==
    /\ available \in Seq(Connections)
    /\ shuttingDown \in BOOLEAN
    /\ active \in Int
    /\ waiting \in Int
    /\ at \in [Threads -> ThreadStates]
    /\ use \in [Threads -> Uses]
    /\ held \in [Threads -> Connections \cup {None}]
    /\ inTransaction \subseteq Connections
    /\ destructor \in DestructorStates

(* A thread holds a connection in exactly these states.                    *)
LeaseStates == {"statement", "begin", "transaction", "unwind", "release"}
HeldWhileUsed == \A t \in Threads : held[t] # None <=> at[t] \in LeaseStates

(* shutting_down_ is set by the destructor, at once.                       *)
ShutdownByDestructor == shuttingDown <=> destructor # "not_called"

(* What was left open is open, and not by a transaction that is alive.     *)
Owned ==
    /\ TransactionHasOwner
    /\ leftOpen \subseteq inTransaction
    /\ \A t \in Threads : at[t] = "unwind" => held[t] \notin leftOpen

(* The inductive invariant.                                                *)
IInv ==
    /\ DataOK
    /\ HeldWhileUsed
    /\ ShutdownByDestructor
    /\ LeaseIsExclusive
    /\ Owned
    /\ CountersAgree
    /\ NoLostWakeup
    /\ ClosedAfterLastUse
    /\ DestructorIsWoken

(* What a thread does while it holds a lease, without the pool.            *)
UseStep(t) == StatementStep(t) \/ TransactionStep(t)

(* The steps of the pool, one disjunct per kind of effect.                 *)
PoolStep(t) ==
    \/ \E purpose \in Uses : AcquireNow(t, purpose) \/ AcquireWait(t, purpose)
    \/ SpuriousWakeup(t) \/ TimeoutExpires(t) \/ WaitStep(t)
    \/ ReleaseStep(t)

(* Every step is one of those, or of the destructor, or changes nothing.   *)
LEMMA NextSteps ==
    [Next]_vars => \/ \E t \in Threads : UseStep(t) \/ PoolStep(t)
                   \/ Destroy \/ DestructorWakes \/ DestructorChecks
                   \/ UNCHANGED vars
BY DEF Next, AcquireStep, AcquireStopping, Gone, UseStep, PoolStep

(* The free list after a lease and after a release.                        *)
LEMMA FreeList ==
    ASSUME NEW s \in Seq(Connections)
    PROVE  /\ s # <<>> => /\ Head(s) \in Connections
                          /\ Tail(s) \in Seq(Connections)
                          /\ Len(Tail(s)) = Len(s) - 1
                          /\ Head(s) = s[1]
                          /\ \A i \in DOMAIN Tail(s) : /\ i + 1 \in DOMAIN s
                                                       /\ Tail(s)[i] = s[i + 1]
                          /\ \A i \in DOMAIN s : i # 1 =>
                               /\ i - 1 \in DOMAIN Tail(s)
                               /\ Tail(s)[i - 1] = s[i]
           /\ s = <<>> <=> Len(s) = 0
           /\ Len(s) \in Nat
OBVIOUS

-----------------------------------------------------------------------------
(* Every step keeps the types.                                             *)
LEMMA TypesKept == IInv /\ [Next]_vars => DataOK'
<1> SUFFICES ASSUME IInv, [Next]_vars PROVE DataOK'
  OBVIOUS
<1> USE DEF IInv, DataOK
<1>1. ASSUME NEW t \in Threads, UseStep(t) PROVE DataOK'
  BY <1>1 DEF UseStep, StatementStep, Statement, StatementRollsBack,
     TransactionStep, Begin, BeginFails, Commit,
     Abandon, AutomaticRollback, Finish, FinishFails, Go, ThreadStates, LeaseStates,
     HeldWhileUsed
<1>2. ASSUME NEW t \in Threads, PoolStep(t) PROVE DataOK'
  <2>1. ASSUME NEW p \in Uses, AcquireNow(t, p) PROVE DataOK'
    BY <2>1, FreeList DEF AcquireNow, Lease, Go, ThreadStates
  <2>2. ASSUME NEW p \in Uses, AcquireWait(t, p) PROVE DataOK'
    BY <2>2 DEF AcquireWait, Go, ThreadStates
  <2>3. CASE SpuriousWakeup(t) \/ TimeoutExpires(t) \/ WaiterSleepsAgain(t)
             \/ WaiterTimesOut(t)
    BY <2>3 DEF SpuriousWakeup, TimeoutExpires, WaiterSleepsAgain,
                WaiterTimesOut, Go, ThreadStates
  <2>4. CASE WaiterLeases(t)
    BY <2>4, FreeList DEF WaiterLeases, Lease, Go, ThreadStates
  <2>5. CASE WaiterStopping(t) \/ ReleaseNotifyAll(t)
    BY <2>5 DEF WaiterStopping, ReleaseNotifyAll, NotifyEverybody, Woken,
                ThreadStates, DestructorStates
  <2>6. CASE Release(t)
    BY <2>6 DEF Release, Go, ThreadStates, HeldWhileUsed, LeaseStates
  <2>7. CASE ReleaseNotifyOne(t)
    BY <2>7 DEF ReleaseNotifyOne, NotifySomeone, Go, ThreadStates,
                DestructorStates
  <2> QED
    BY <1>2, <2>1, <2>2, <2>3, <2>4, <2>5, <2>6, <2>7
    DEF PoolStep, WaitStep, ReleaseStep
<1>3. CASE Destroy \/ DestructorWakes \/ DestructorChecks
  BY <1>3 DEF Destroy, DestructorWakes, DestructorChecks, CloseOrSleep, CloseHandles, Sleep,
              Woken, ThreadStates, DestructorStates
<1>4. CASE UNCHANGED vars
  BY <1>4 DEF vars
<1> QED
  BY <1>1, <1>2, <1>3, <1>4, NextSteps

(* Every step keeps the lease in step with the place of its thread, and    *)
(* the flag with the destructor.                                           *)
LEMMA PlacesKept ==
    IInv /\ [Next]_vars => HeldWhileUsed' /\ ShutdownByDestructor'
<1> SUFFICES ASSUME IInv, [Next]_vars
             PROVE  HeldWhileUsed' /\ ShutdownByDestructor'
  OBVIOUS
<1> USE DEF IInv, DataOK, HeldWhileUsed, ShutdownByDestructor, LeaseStates
<1> None \notin Connections
  BY NoneAssumption, PoolSizeAssumption DEF Connections
<1>1. ASSUME NEW t \in Threads, UseStep(t)
      PROVE  HeldWhileUsed' /\ ShutdownByDestructor'
  BY <1>1 DEF UseStep, StatementStep, Statement, StatementRollsBack,
     TransactionStep, Begin, BeginFails, Commit,
     Abandon, AutomaticRollback, Finish, FinishFails, Go
<1>2. ASSUME NEW t \in Threads, PoolStep(t)
      PROVE  HeldWhileUsed' /\ ShutdownByDestructor'
  <2>1. ASSUME NEW p \in Uses, AcquireNow(t, p)
        PROVE  HeldWhileUsed' /\ ShutdownByDestructor'
    BY <2>1, FreeList DEF AcquireNow, Lease, Go, Uses
  <2>2. ASSUME NEW p \in Uses, AcquireWait(t, p)
        PROVE  HeldWhileUsed' /\ ShutdownByDestructor'
    BY <2>2 DEF AcquireWait, Go
  <2>3. CASE SpuriousWakeup(t) \/ TimeoutExpires(t) \/ WaiterSleepsAgain(t)
             \/ WaiterTimesOut(t)
    BY <2>3 DEF SpuriousWakeup, TimeoutExpires, WaiterSleepsAgain,
                WaiterTimesOut, Go
  <2>4. CASE WaiterLeases(t)
    BY <2>4, FreeList DEF WaiterLeases, Lease, Go, Uses
  <2>5. CASE WaiterStopping(t) \/ ReleaseNotifyAll(t)
    BY <2>5 DEF WaiterStopping, ReleaseNotifyAll, NotifyEverybody, Woken
  <2>6. CASE Release(t)
    BY <2>6 DEF Release, Go
  <2>7. CASE ReleaseNotifyOne(t)
    BY <2>7 DEF ReleaseNotifyOne, NotifySomeone, Go
  <2> QED
    BY <1>2, <2>1, <2>2, <2>3, <2>4, <2>5, <2>6, <2>7
    DEF PoolStep, WaitStep, ReleaseStep
<1>3. CASE Destroy \/ DestructorWakes \/ DestructorChecks
  BY <1>3 DEF Destroy, DestructorWakes, DestructorChecks, CloseOrSleep, CloseHandles, Sleep,
              Woken
<1>4. CASE UNCHANGED vars
  BY <1>4 DEF vars
<1> QED
  BY <1>1, <1>2, <1>3, <1>4, NextSteps

(* Connections and leases: a lease takes the front of a list without       *)
(* duplicates, a release appends a connection nobody else holds.           *)
LEMMA LeasesKept == IInv /\ [Next]_vars => LeaseIsExclusive'
<1> SUFFICES ASSUME IInv, [Next]_vars PROVE LeaseIsExclusive'
  OBVIOUS
<1> None \notin Connections
  BY NoneAssumption, PoolSizeAssumption DEF Connections
<1>1. CASE UNCHANGED <<available, held>>
  BY <1>1 DEF IInv, LeaseIsExclusive, Holders
<1>2. ASSUME NEW t \in Threads, available # <<>>, held[t] = None,
             held' = [held EXCEPT ![t] = Head(available)],
             available' = Tail(available)
      PROVE  LeaseIsExclusive'
  <2> DEFINE c == Head(available)
  <2>0. /\ available \in Seq(Connections)
        /\ held \in [Threads -> Connections \cup {None}]
        /\ LeaseIsExclusive
    BY DEF IInv, DataOK
  <2>1. \A u \in Threads : held[u] # c
    BY <1>2, <2>0, FreeList DEF LeaseIsExclusive
  <2>2. \A i, j \in DOMAIN available' : available'[i] = available'[j] => i = j
    BY <1>2, <2>0, FreeList DEF LeaseIsExclusive
  <2>3. \A u, v \in Holders' : held'[u] = held'[v] => u = v
    BY <1>2, <2>0, <2>1 DEF LeaseIsExclusive, Holders
  <2>4. ASSUME NEW d \in Connections
        PROVE  (\E i \in DOMAIN available' : available'[i] = d)
                 <=> ~ \E u \in Threads : held'[u] = d
    <3>1. CASE d = c
      <4>1. held'[t] = d
        BY <1>2, <2>0, <3>1
      <4>2. ~ \E i \in DOMAIN available' : available'[i] = d
        BY <1>2, <2>0, <3>1, FreeList DEF LeaseIsExclusive
      <4> QED
        BY <4>1, <4>2
    <3>2. CASE d # c
      <4>1. (\E u \in Threads : held'[u] = d) <=> \E u \in Threads : held[u] = d
        BY <1>2, <2>0, <3>2
      <4>2. (\E i \in DOMAIN available' : available'[i] = d)
              <=> \E i \in DOMAIN available : available[i] = d
        <5>1. ASSUME NEW i \in DOMAIN available', available'[i] = d
              PROVE  i + 1 \in DOMAIN available /\ available[i + 1] = d
          BY <1>2, <2>0, <5>1, FreeList
        <5>2. ASSUME NEW i \in DOMAIN available, available[i] = d
              PROVE  i - 1 \in DOMAIN available' /\ available'[i - 1] = d
          BY <1>2, <2>0, <3>2, <5>2, FreeList
        <5> QED
          BY <5>1, <5>2
      <4> QED
        BY <2>0, <4>1, <4>2 DEF LeaseIsExclusive
    <3> QED
      BY <3>1, <3>2
  <2> QED
    BY <2>2, <2>3, <2>4 DEF LeaseIsExclusive
<1>3. ASSUME NEW t \in Threads, Release(t) PROVE LeaseIsExclusive'
  <2> DEFINE n == Len(available)
  <2>0. /\ available \in Seq(Connections)
        /\ held \in [Threads -> Connections \cup {None}]
        /\ held[t] \in Connections
        /\ LeaseIsExclusive
    BY <1>3 DEF IInv, DataOK, Release, HeldWhileUsed, LeaseStates
  <2>1. /\ available' = Append(available, held[t])
        /\ held' = [held EXCEPT ![t] = None]
    BY <1>3 DEF Release
  <2>2. /\ \A i \in DOMAIN available : /\ i \in DOMAIN available'
                                       /\ available'[i] = available[i]
        /\ n + 1 \in DOMAIN available' /\ available'[n + 1] = held[t]
        /\ \A i \in DOMAIN available' : i = n + 1 \/ i \in DOMAIN available
    BY <2>0, <2>1
  <2>3. \A i \in DOMAIN available : available[i] # held[t]
    BY <2>0 DEF LeaseIsExclusive
  <2>4. \A i, j \in DOMAIN available' : available'[i] = available'[j] => i = j
    BY <2>0, <2>2, <2>3 DEF LeaseIsExclusive
  <2>5. \A u, v \in Holders' : held'[u] = held'[v] => u = v
    BY <2>0, <2>1 DEF LeaseIsExclusive, Holders
  <2>6. ASSUME NEW d \in Connections
        PROVE  (\E i \in DOMAIN available' : available'[i] = d)
                 <=> ~ \E u \in Threads : held'[u] = d
    <3>1. CASE d = held[t]
      <4>1. \A u \in Threads : held'[u] # d
        BY <2>0, <2>1, <3>1 DEF LeaseIsExclusive, Holders
      <4> QED
        BY <2>2, <3>1, <4>1
    <3>2. CASE d # held[t]
      <4>1. (\E u \in Threads : held'[u] = d) <=> \E u \in Threads : held[u] = d
        BY <2>0, <2>1, <3>2
      <4>2. (\E i \in DOMAIN available' : available'[i] = d)
              <=> \E i \in DOMAIN available : available[i] = d
        BY <2>0, <2>2, <3>2
      <4> QED
        BY <2>0, <4>1, <4>2 DEF LeaseIsExclusive
    <3> QED
      BY <3>1, <3>2
  <2> QED
    BY <2>4, <2>5, <2>6 DEF LeaseIsExclusive
<1>4. ASSUME NEW t \in Threads, UseStep(t) PROVE UNCHANGED <<available, held>>
  BY <1>4 DEF UseStep, StatementStep, Statement, StatementRollsBack,
     TransactionStep, Begin, BeginFails, Commit,
     Abandon, AutomaticRollback, Finish, FinishFails
<1>5. ASSUME NEW t \in Threads, PoolStep(t) PROVE LeaseIsExclusive'
  <2>1. ASSUME NEW p \in Uses, AcquireNow(t, p) PROVE LeaseIsExclusive'
    BY <1>2, <2>1 DEF AcquireNow, Lease, IInv, HeldWhileUsed, LeaseStates
  <2>2. CASE WaiterLeases(t)
    BY <1>2, <2>2 DEF WaiterLeases, Lease, IInv, HeldWhileUsed, LeaseStates
  <2>3. CASE Release(t)
    BY <1>3, <2>3
  <2>4. ASSUME NEW p \in Uses, AcquireWait(t, p) PROVE LeaseIsExclusive'
    BY <1>1, <2>4 DEF AcquireWait
  <2>5. CASE \/ SpuriousWakeup(t) \/ TimeoutExpires(t) \/ WaiterSleepsAgain(t)
             \/ WaiterTimesOut(t) \/ WaiterStopping(t) \/ ReleaseNotifyAll(t)
             \/ ReleaseNotifyOne(t)
    BY <1>1, <2>5 DEF SpuriousWakeup, TimeoutExpires, WaiterSleepsAgain,
       WaiterTimesOut, WaiterStopping, ReleaseNotifyAll, ReleaseNotifyOne
  <2> QED
    BY <1>5, <2>1, <2>2, <2>3, <2>4, <2>5 DEF PoolStep, WaitStep, ReleaseStep
<1>6. CASE Destroy \/ DestructorWakes \/ DestructorChecks \/ UNCHANGED vars
  BY <1>1, <1>6 DEF Destroy, DestructorWakes, DestructorChecks, vars
<1> QED
  BY <1>1, <1>4, <1>5, <1>6, NextSteps

-----------------------------------------------------------------------------
(* Sets of threads are finite, and one thread more or less counts as one.  *)
LEMMA CountThreads ==
    ASSUME NEW S \in SUBSET Threads, NEW t
    PROVE  /\ Cardinality(S) \in Nat
           /\ t \notin S => Cardinality(S \cup {t}) = Cardinality(S) + 1
           /\ t \in S => Cardinality(S \ {t}) = Cardinality(S) - 1
           /\ Cardinality(S) = 0 <=> S = {}
<1>1. IsFiniteSet(S)
  BY ThreadsAssumption, FS_Subset
<1>2. Cardinality(S) \in Nat
  BY <1>1, FS_CardinalityType
<1>3. t \notin S => Cardinality(S \cup {t}) = Cardinality(S) + 1
  BY <1>1, FS_AddElement
<1>4. t \in S => Cardinality(S \ {t}) = Cardinality(S) - 1
  BY <1>1, FS_RemoveElement
<1>5. Cardinality(S) = 0 <=> S = {}
  BY <1>1, FS_EmptySet
<1> QED
  BY <1>2, <1>3, <1>4, <1>5

(* What the steps do to the sets the counters count.  A thread that holds  *)
(* a lease does not change them until it releases it.                      *)
LEMMA HoldersChange ==
    ASSUME IInv, NEW t \in Threads, PoolStep(t)
    PROVE  \/ /\ Holders' = Holders /\ active' = active
           \/ /\ t \notin Holders /\ Holders' = Holders \cup {t}
              /\ active' = active + 1 /\ ~shuttingDown
           \/ /\ t \in Holders /\ Holders' = Holders \ {t}
              /\ active' = active - 1 /\ Release(t)
<1> USE DEF IInv, DataOK, HeldWhileUsed, LeaseStates, Holders
<1> None \notin Connections
  BY NoneAssumption, PoolSizeAssumption DEF Connections
<1>0. ASSUME held[t] = None, available # <<>>,
             held' = [held EXCEPT ![t] = Head(available)]
      PROVE  t \notin Holders /\ Holders' = Holders \cup {t}
  <2>1. Head(available) # None
    BY <1>0, FreeList
  <2> QED
    BY <1>0, <2>1
<1>1. CASE \E p \in Uses : AcquireNow(t, p)
  BY <1>0, <1>1 DEF AcquireNow, Lease
<1>2. CASE WaiterLeases(t)
  BY <1>0, <1>2 DEF WaiterLeases, Lease
<1>3. CASE Release(t)
  BY <1>3 DEF Release
<1>4. CASE \/ \E p \in Uses : AcquireWait(t, p)
           \/ SpuriousWakeup(t) \/ TimeoutExpires(t) \/ WaiterSleepsAgain(t)
           \/ WaiterTimesOut(t) \/ WaiterStopping(t) \/ ReleaseNotifyAll(t)
           \/ ReleaseNotifyOne(t)
  BY <1>4 DEF AcquireWait, SpuriousWakeup, TimeoutExpires, WaiterSleepsAgain,
     WaiterTimesOut, WaiterStopping, ReleaseNotifyAll, ReleaseNotifyOne
<1> HIDE DEF IInv, Holders
<1> QED
  BY <1>1, <1>2, <1>3, <1>4 DEF PoolStep, WaitStep, ReleaseStep

LEMMA WaitersChange ==
    ASSUME IInv, NEW t \in Threads, PoolStep(t)
    PROVE  \/ /\ Waiters' = Waiters /\ waiting' = waiting
           \/ /\ t \notin Waiters /\ Waiters' = Waiters \cup {t}
              /\ waiting' = waiting + 1 /\ ~shuttingDown
           \/ /\ t \in Waiters /\ Waiters' = Waiters \ {t}
              /\ waiting' = waiting - 1 /\ (~shuttingDown \/ WaiterStopping(t))
<1> USE DEF IInv, DataOK, Waiters, WaitStates
<1>1. CASE \E p \in Uses : AcquireNow(t, p)
  BY <1>1 DEF AcquireNow, Lease, Go, Uses
<1>2. CASE \E p \in Uses : AcquireWait(t, p)
  BY <1>2 DEF AcquireWait, Go
<1>3. CASE SpuriousWakeup(t) \/ TimeoutExpires(t) \/ WaiterSleepsAgain(t)
  BY <1>3 DEF SpuriousWakeup, TimeoutExpires, WaiterSleepsAgain, Go
<1>4. CASE WaiterLeases(t)
  BY <1>4 DEF WaiterLeases, Lease, Go, Uses
<1>5. CASE WaiterTimesOut(t)
  BY <1>5 DEF WaiterTimesOut, Go
<1>6. CASE WaiterStopping(t)
  BY <1>6 DEF WaiterStopping, NotifyEverybody, Woken
<1>7. CASE Release(t)
  BY <1>7 DEF Release, Go
<1>8. CASE ReleaseNotifyOne(t)
  BY <1>8 DEF ReleaseNotifyOne, NotifySomeone, Go
<1>9. CASE ReleaseNotifyAll(t)
  BY <1>9 DEF ReleaseNotifyAll, NotifyEverybody, Woken
<1> HIDE DEF IInv, Waiters
<1> QED
  BY <1>1, <1>2, <1>3, <1>4, <1>5, <1>6, <1>7, <1>8, <1>9
  DEF PoolStep, WaitStep, ReleaseStep

(* The other steps leave the sets and the counters alone.                  *)
LEMMA CountedStay ==
    ASSUME IInv,
           \/ \E t \in Threads : UseStep(t)
           \/ Destroy \/ DestructorWakes \/ DestructorChecks \/ UNCHANGED vars
    PROVE  /\ Holders' = Holders /\ active' = active
           /\ Waiters' = Waiters /\ waiting' = waiting
<1> USE DEF IInv, DataOK, Holders, Waiters, WaitStates
<1>1. CASE \E t \in Threads : UseStep(t)
  BY <1>1 DEF UseStep, StatementStep, Statement, StatementRollsBack,
     TransactionStep, Begin, BeginFails, Commit,
     Abandon, AutomaticRollback, Finish, FinishFails, Go
<1>2. CASE Destroy
  BY <1>2 DEF Destroy, Woken
<1>3. CASE DestructorWakes \/ DestructorChecks \/ UNCHANGED vars
  BY <1>3 DEF DestructorWakes, DestructorChecks, vars
<1> QED
  BY <1>1, <1>2, <1>3

(* Transactions: only the owner of the open transaction ends it, before it *)
(* gives the connection back, or leaves it open for its next users.        *)
LEMMA OwnersKept == IInv /\ [Next]_vars => Owned'
<1> SUFFICES ASSUME IInv, [Next]_vars PROVE Owned'
  OBVIOUS
<1>0. /\ Owned /\ LeaseIsExclusive /\ HeldWhileUsed /\ CountersAgree
      /\ at \in [Threads -> ThreadStates]
      /\ held \in [Threads -> Connections \cup {None}]
      /\ inTransaction \subseteq Connections
  BY DEF IInv, DataOK
<1>a. None \notin Connections
  BY NoneAssumption, PoolSizeAssumption DEF Connections
<1>b. ASSUME NEW t \in Threads, NEW u \in Threads,
             at[t] \in LeaseStates, held[t] = held[u]
      PROVE  t = u
  BY <1>0, <1>b DEF HeldWhileUsed, LeaseIsExclusive, Holders
<1> USE DEF Owned, TransactionHasOwner, LeaseStates
<1>1. ASSUME NEW t \in Threads, UseStep(t) PROVE Owned'
  <2>1. CASE Begin(t)
    <3>1. /\ inTransaction = {} /\ inTransaction' = {held[t]} /\ leftOpen' = leftOpen
          /\ at' = [at EXCEPT ![t] = "transaction"] /\ held' = held
      BY <2>1 DEF Begin, Go
    <3>2. leftOpen = {} /\ \A u \in Threads : at[u] # "transaction"
      BY <1>0, <3>1
    <3> QED
      BY <1>0, <3>1, <3>2
  <2>2. CASE Statement(t) \/ BeginFails(t) \/ Abandon(t)
    BY <1>0, <2>2 DEF Statement, BeginFails, Abandon, Go
  <2>3. CASE Commit(t) \/ AutomaticRollback(t) \/ Finish(t)
    <3>1. /\ inTransaction' = inTransaction \ {held[t]} /\ leftOpen' = leftOpen
          /\ at[t] \in {"transaction", "unwind"}
          /\ at' = [at EXCEPT ![t] = at'[t]] /\ at'[t] \in {"unwind", "release"}
          /\ held' = held
      BY <1>0, <2>3 DEF Commit, AutomaticRollback, Finish, Go
    <3>2. held[t] \notin leftOpen
      BY <1>0, <3>1
    <3>3. \A u \in Threads : at'[u] = "transaction" => u # t /\ held[u] # held[t]
      BY <1>0, <1>b, <3>1
    <3> QED
      BY <1>0, <3>1, <3>2, <3>3
  <2>4. CASE StatementRollsBack(t)
    <3>1. /\ inTransaction' = inTransaction \ {held[t]} /\ leftOpen' = leftOpen \ {held[t]}
          /\ at[t] = "statement" /\ at' = [at EXCEPT ![t] = "release"] /\ held' = held
      BY <2>4 DEF StatementRollsBack, Go
    <3>2. \A u \in Threads : at'[u] = "transaction" => held[u] # held[t]
      BY <1>0, <1>b, <3>1
    <3> QED
      BY <1>0, <3>1, <3>2
  <2>5. CASE FinishFails(t)
    <3>1. /\ leftOpen' = leftOpen \cup {held[t]} /\ inTransaction' = inTransaction
          /\ held[t] \in inTransaction
          /\ at[t] = "unwind" /\ at' = [at EXCEPT ![t] = "release"] /\ held' = held
      BY <2>5 DEF FinishFails, Go
    <3>2. \A u \in Threads : at'[u] \in {"transaction", "unwind"} => held[u] # held[t]
      BY <1>0, <1>b, <3>1
    <3> QED
      BY <1>0, <3>1, <3>2
  <2> QED
    BY <1>1, <2>1, <2>2, <2>3, <2>4, <2>5
    DEF UseStep, StatementStep, TransactionStep
<1>2. ASSUME NEW t \in Threads, at[t] \notin {"transaction", "unwind"},
             at'[t] \notin {"transaction", "unwind"}, UNCHANGED sqlite,
             \A u \in Threads \ {t} : held'[u] = held[u],
             \A u \in Threads \ {t} :
               at'[u] = at[u] \/ (at[u] = "asleep" /\ at'[u] = "awake")
      PROVE  Owned'
  BY <1>0, <1>2
<1>3. ASSUME NEW t \in Threads, PoolStep(t) PROVE Owned'
  <2>1. ASSUME NEW p \in Uses, AcquireNow(t, p) PROVE Owned'
    BY <1>0, <1>2, <2>1 DEF AcquireNow, Lease, Go
  <2>2. ASSUME NEW p \in Uses, AcquireWait(t, p) PROVE Owned'
    BY <1>0, <1>2, <2>2 DEF AcquireWait, Go
  <2>3. CASE SpuriousWakeup(t) \/ TimeoutExpires(t) \/ WaiterSleepsAgain(t)
             \/ WaiterTimesOut(t)
    BY <1>0, <1>2, <2>3 DEF SpuriousWakeup, TimeoutExpires, WaiterSleepsAgain,
                WaiterTimesOut, Go
  <2>4. CASE WaiterLeases(t)
    BY <1>0, <1>2, <2>4 DEF WaiterLeases, Lease, Go
  <2>5. CASE WaiterStopping(t) \/ ReleaseNotifyAll(t)
    BY <1>0, <1>2, <2>5 DEF WaiterStopping, ReleaseNotifyAll, NotifyEverybody, Woken
  <2>6. CASE Release(t)
    BY <1>0, <1>2, <2>6 DEF Release, Go
  <2>7. CASE ReleaseNotifyOne(t)
    BY <1>0, <1>2, <2>7 DEF ReleaseNotifyOne, NotifySomeone, Go
  <2> QED
    BY <1>3, <2>1, <2>2, <2>3, <2>4, <2>5, <2>6, <2>7
    DEF PoolStep, WaitStep, ReleaseStep
<1>4. ASSUME CloseOrSleep, held' = held,
             \A u \in Threads :
               at'[u] = at[u] \/ (at[u] = "asleep" /\ at'[u] = "awake")
      PROVE  Owned'
  <2>1. CASE CloseHandles
    <3>1. active = 0
      BY <1>4, <2>1 DEF CloseOrSleep, CloseHandles, Sleep
    <3>2. Holders = {}
      <4>1. Holders \in SUBSET Threads
        BY DEF Holders
      <4> QED
        BY <1>0, <3>1, <4>1, CountThreads DEF CountersAgree
    <3>3. \A u \in Threads : at[u] \notin {"transaction", "unwind"}
      BY <1>0, <3>2 DEF HeldWhileUsed, Holders
    <3> QED
      BY <1>4, <2>1, <3>3 DEF CloseHandles
  <2>2. CASE Sleep
    BY <1>0, <1>4, <2>2 DEF Sleep
  <2> QED
    BY <1>4, <2>1, <2>2 DEF CloseOrSleep
<1>5. CASE Destroy \/ DestructorChecks
  <2>1. /\ CloseOrSleep /\ held' = held
        /\ at' = at \/ at' = [u \in Threads |-> Woken(at[u])]
    BY <1>5 DEF Destroy, DestructorChecks
  <2>2. \A u \in Threads :
          at'[u] = at[u] \/ (at[u] = "asleep" /\ at'[u] = "awake")
    <3>1. CASE at' = at
      BY <3>1
    <3>2. CASE at' = [u \in Threads |-> Woken(at[u])]
      BY <3>2 DEF Woken
    <3> QED
      BY <2>1, <3>1, <3>2
  <2> QED
    BY <1>4, <2>1, <2>2
<1>6. CASE DestructorWakes \/ UNCHANGED vars
  BY <1>0, <1>6 DEF DestructorWakes, vars
<1> QED
  BY <1>1, <1>3, <1>5, <1>6, NextSteps

(* The counters count.                                                     *)
LEMMA CountersKept == IInv /\ [Next]_vars => CountersAgree'
<1> SUFFICES ASSUME IInv, [Next]_vars PROVE CountersAgree'
  OBVIOUS
<1>0. /\ CountersAgree
      /\ Holders \in SUBSET Threads /\ Waiters \in SUBSET Threads
  BY DEF IInv, Holders, Waiters
<1>1. ASSUME NEW t \in Threads, PoolStep(t) PROVE CountersAgree'
  <2>1. active' = Cardinality(Holders')
    BY <1>0, <1>1, HoldersChange, CountThreads DEF CountersAgree
  <2>2. waiting' = Cardinality(Waiters')
    BY <1>0, <1>1, WaitersChange, CountThreads DEF CountersAgree
  <2> QED
    BY <2>1, <2>2 DEF CountersAgree
<1>2. CASE \/ \E t \in Threads : UseStep(t)
           \/ Destroy \/ DestructorWakes \/ DestructorChecks \/ UNCHANGED vars
  BY <1>0, <1>2, CountedStay DEF CountersAgree
<1> QED
  BY <1>1, <1>2, NextSteps

-----------------------------------------------------------------------------
(* Wakeups: a release adds a notification for the connection it adds; a    *)
(* notification becomes an awake waiter; an awake waiter leaves with a     *)
(* connection, or when there is none.                                      *)
LEMMA WakeupsKept == IInv /\ [Next]_vars => NoLostWakeup'
<1> SUFFICES ASSUME IInv, [Next]_vars PROVE NoLostWakeup'
  OBVIOUS
<1>0. /\ NoLostWakeup
      /\ available \in Seq(Connections) /\ shuttingDown \in BOOLEAN
      /\ at \in [Threads -> ThreadStates]
      /\ shuttingDown <=> destructor # "not_called"
      /\ Alert \in SUBSET Threads /\ Cardinality(Alert) \in Nat
      /\ Alert' \in SUBSET Threads /\ Cardinality(Alert') \in Nat
      /\ Asleep \subseteq Threads
  <2>1. Alert \in SUBSET Threads /\ Alert' \in SUBSET Threads
    BY DEF Alert
  <2> QED
    BY <2>1, CountThreads
    DEF IInv, DataOK, ShutdownByDestructor, Asleep
<1>a. CASE Asleep' = {}
  BY <1>a DEF NoLostWakeup
<1>b. CASE available' = <<>> /\ ~shuttingDown'
  BY <1>0, <1>b, FreeList DEF NoLostWakeup
<1>c. CASE UNCHANGED <<available, shuttingDown>> /\ Asleep' = Asleep
           /\ Alert' = Alert
  BY <1>0, <1>c DEF NoLostWakeup
<1>1. ASSUME NEW t \in Threads, UseStep(t) PROVE NoLostWakeup'
  <2>1. UNCHANGED <<available, shuttingDown>>
    BY <1>1 DEF UseStep, StatementStep, Statement, StatementRollsBack, TransactionStep, Begin,
       BeginFails, Commit, Abandon, AutomaticRollback, Finish, FinishFails
  <2>2. Asleep' = Asleep /\ Alert' = Alert
    BY <1>0, <1>1 DEF UseStep, StatementStep, Statement, StatementRollsBack, TransactionStep, Begin,
       BeginFails, Commit, Abandon, AutomaticRollback, Finish, FinishFails, Go, Asleep, Alert
  <2> QED
    BY <1>c, <2>1, <2>2
<1>2. ASSUME NEW t \in Threads, PoolStep(t) PROVE NoLostWakeup'
  <2>1. ASSUME NEW p \in Uses, AcquireNow(t, p) PROVE NoLostWakeup'
    <3>1. Asleep' = Asleep /\ Alert' = Alert
      BY <1>0, <2>1 DEF AcquireNow, Lease, Go, Uses, Asleep, Alert
    <3>2. Len(available') = Len(available) - 1 /\ UNCHANGED shuttingDown
      BY <1>0, <2>1, FreeList DEF AcquireNow, Lease
    <3> QED
      BY <1>0, <3>1, <3>2, FreeList DEF NoLostWakeup
  <2>2. ASSUME NEW p \in Uses, AcquireWait(t, p) PROVE NoLostWakeup'
    BY <1>b, <2>2 DEF AcquireWait
  <2>3. CASE SpuriousWakeup(t) \/ TimeoutExpires(t)
    <3>0. UNCHANGED <<available, shuttingDown>>
      BY <2>3 DEF SpuriousWakeup, TimeoutExpires
    <3>1. CASE at[t] = "asleep"
      <4>1. /\ t \notin Alert /\ Alert' = Alert \cup {t}
            /\ t \in Asleep /\ Asleep' \subseteq Asleep
        BY <1>0, <2>3, <3>1 DEF SpuriousWakeup, TimeoutExpires, Go, Asleep,
           Alert
      <4>2. Cardinality(Alert') = Cardinality(Alert) + 1
        BY <1>0, <4>1, CountThreads
      <4> QED
        BY <1>0, <3>0, <4>1, <4>2, FreeList DEF NoLostWakeup
    <3>2. CASE at[t] = "awake"
      <4>1. Asleep' = Asleep /\ Alert' = Alert
        BY <1>0, <2>3, <3>2 DEF SpuriousWakeup, TimeoutExpires, Go, Asleep,
           Alert
      <4> QED
        BY <1>c, <3>0, <4>1
    <3> QED
      BY <2>3, <3>1, <3>2 DEF SpuriousWakeup, TimeoutExpires
  <2>4. CASE WaiterSleepsAgain(t) \/ WaiterTimesOut(t)
    BY <1>b, <2>4 DEF WaiterSleepsAgain, WaiterTimesOut
  <2>5. CASE WaiterLeases(t)
    <3>1. /\ t \in Alert /\ Alert' = Alert \ {t}
          /\ Asleep' = Asleep
      BY <1>0, <2>5 DEF WaiterLeases, Lease, Go, Uses, Asleep, Alert
    <3>2. Len(available') = Len(available) - 1 /\ UNCHANGED shuttingDown
      BY <1>0, <2>5, FreeList DEF WaiterLeases, Lease
    <3>3. Cardinality(Alert') = Cardinality(Alert) - 1
      BY <1>0, <3>1, CountThreads
    <3> QED
      BY <1>0, <3>1, <3>2, <3>3, FreeList DEF NoLostWakeup
  <2>6. CASE WaiterStopping(t) \/ ReleaseNotifyAll(t)
    BY <1>0, <1>a, <2>6 DEF WaiterStopping, ReleaseNotifyAll, NotifyEverybody,
       Woken, Asleep
  <2>7. CASE Release(t) /\ shuttingDown
    <3>1. Asleep' = {}
      BY <1>0, <2>7 DEF NoLostWakeup, Release, Go, Asleep
    <3> QED
      BY <1>a, <3>1
  <2>8. CASE Release(t) /\ ~shuttingDown
    <3>1. /\ t \notin Alert /\ Alert' = Alert \cup {t}
          /\ Asleep' = Asleep /\ UNCHANGED shuttingDown
      BY <1>0, <2>8 DEF Release, Go, Asleep, Alert
    <3>2. Len(available') = Len(available) + 1
      BY <1>0, <2>8 DEF Release
    <3>3. Cardinality(Alert') = Cardinality(Alert) + 1
      BY <1>0, <3>1, CountThreads
    <3> QED
      BY <1>0, <3>1, <3>2, <3>3, FreeList DEF NoLostWakeup
  <2>9. CASE ReleaseNotifyOne(t)
    <3>0. UNCHANGED <<available, shuttingDown>>
      BY <2>9 DEF ReleaseNotifyOne
    <3>1. ASSUME NEW w \in Threads, at[w] = "asleep",
                 at' = [at EXCEPT ![t] = "idle", ![w] = "awake"]
          PROVE  NoLostWakeup'
      <4>1. /\ t \in Alert /\ w \notin Alert \ {t}
            /\ Alert' = (Alert \ {t}) \cup {w}
            /\ w \in Asleep /\ Asleep' \subseteq Asleep
        BY <1>0, <2>9, <3>1 DEF ReleaseNotifyOne, Asleep, Alert
      <4>2. Cardinality(Alert \ {t}) = Cardinality(Alert) - 1
        BY <1>0, <4>1, CountThreads
      <4>3. Cardinality(Alert') = Cardinality(Alert \ {t}) + 1
        BY <1>0, <4>1, CountThreads
      <4> QED
        BY <1>0, <3>0, <4>1, <4>2, <4>3 DEF NoLostWakeup
    <3>2. CASE Asleep = {} /\ at' = [at EXCEPT ![t] = "idle"]
      <4>1. Asleep' = {}
        BY <1>0, <3>2 DEF Asleep
      <4> QED
        BY <1>a, <4>1
    <3>3. destructor = "asleep" => Asleep = {}
      BY <1>0 DEF NoLostWakeup
    <3> QED
      BY <2>9, <3>1, <3>2, <3>3 DEF ReleaseNotifyOne, NotifySomeone, Go, Asleep
  <2> QED
    BY <1>2, <2>1, <2>2, <2>3, <2>4, <2>5, <2>6, <2>7, <2>8, <2>9
    DEF PoolStep, WaitStep, ReleaseStep
<1>3. CASE Destroy
  BY <1>a, <1>3 DEF Destroy, Woken, Asleep
<1>4. CASE DestructorWakes \/ DestructorChecks \/ UNCHANGED vars
  BY <1>c, <1>4 DEF DestructorWakes, DestructorChecks, vars, Asleep, Alert
<1> QED
  BY <1>1, <1>2, <1>3, <1>4, NextSteps

(* The destructor closes when the counters, which are exact, are zero, and *)
(* otherwise somebody is left who will wake it.                            *)
LEMMA DestructorKept ==
    IInv /\ [Next]_vars => ClosedAfterLastUse' /\ DestructorIsWoken'
<1> SUFFICES ASSUME IInv, [Next]_vars
             PROVE  ClosedAfterLastUse' /\ DestructorIsWoken'
  OBVIOUS
<1>0. /\ ClosedAfterLastUse /\ DestructorIsWoken
      /\ shuttingDown <=> destructor # "not_called"
      /\ at \in [Threads -> ThreadStates]
      /\ active = 0 <=> Holders = {}
      /\ waiting = 0 <=> Waiters = {}
  <2>1. Holders \in SUBSET Threads /\ Waiters \in SUBSET Threads
    BY DEF Holders, Waiters
  <2> QED
    BY <2>1, CountThreads DEF IInv, DataOK, CountersAgree, ShutdownByDestructor
<1>1. ASSUME NEW t \in Threads, PoolStep(t)
      PROVE  ClosedAfterLastUse' /\ DestructorIsWoken'
  <2>1. /\ destructor' = "closed" => destructor = "closed"
        /\ destructor' = "asleep" =>
             /\ destructor = "asleep"
             /\ ~WaiterStopping(t) /\ ~ReleaseNotifyAll(t)
    BY <1>1 DEF PoolStep, WaitStep, ReleaseStep, AcquireNow, AcquireWait,
       SpuriousWakeup, TimeoutExpires, WaiterSleepsAgain, WaiterLeases,
       WaiterTimesOut, WaiterStopping, Release, ReleaseNotifyOne,
       ReleaseNotifyAll, NotifySomeone, NotifyEverybody, Woken
  <2>2. ClosedAfterLastUse'
    BY <1>0, <1>1, <2>1, HoldersChange, WaitersChange
    DEF ClosedAfterLastUse, WaiterStopping
  <2>3. ASSUME destructor' = "asleep"
        PROVE  \/ Holders' # {} \/ Waiters' # {}
               \/ \E u \in Threads : at'[u] = "notify_all"
    <3>1. CASE Release(t)
      BY <1>0, <2>1, <2>3, <3>1 DEF Release, Go
    <3>2. ASSUME NEW u \in Threads, at[u] = "notify_all", ~Release(t)
          PROVE  at'[u] = "notify_all"
      <4>1. CASE ReleaseNotifyAll(t) \/ WaiterStopping(t)
        BY <2>1, <2>3, <4>1
      <4>2. CASE ReleaseNotifyOne(t)
        BY <1>0, <3>2, <4>2 DEF ReleaseNotifyOne, NotifySomeone, Go
      <4>3. CASE \E p \in Uses : AcquireNow(t, p) \/ AcquireWait(t, p)
        BY <1>0, <3>2, <4>3 DEF AcquireNow, AcquireWait, Lease, Go
      <4>4. CASE SpuriousWakeup(t) \/ TimeoutExpires(t) \/ WaiterSleepsAgain(t)
                 \/ WaiterLeases(t) \/ WaiterTimesOut(t)
        BY <1>0, <3>2, <4>4 DEF SpuriousWakeup, TimeoutExpires,
           WaiterSleepsAgain, WaiterLeases, WaiterTimesOut, Lease, Go
      <4> QED
        BY <1>1, <3>2, <4>1, <4>2, <4>3, <4>4 DEF PoolStep, WaitStep, ReleaseStep
    <3>3. CASE ~Release(t)
      <4>1. Holders \subseteq Holders' /\ Waiters \subseteq Waiters'
        BY <1>0, <1>1, <2>1, <2>3, <3>3, HoldersChange, WaitersChange
      <4> QED
        BY <1>0, <2>1, <2>3, <3>2, <3>3, <4>1 DEF DestructorIsWoken
    <3> QED
      BY <3>1, <3>3
  <2> QED
    BY <2>2, <2>3 DEF DestructorIsWoken
<1>2. ASSUME NEW t \in Threads, UseStep(t)
      PROVE  ClosedAfterLastUse' /\ DestructorIsWoken'
  <2>1. Holders' = Holders /\ Waiters' = Waiters
    BY <1>2, CountedStay
  <2>2. /\ destructor' = destructor
        /\ \A u \in Threads : at[u] = "notify_all" => at'[u] = "notify_all"
    BY <1>0, <1>2 DEF UseStep, StatementStep, Statement, StatementRollsBack, TransactionStep, Begin,
       BeginFails, Commit, Abandon, AutomaticRollback, Finish, FinishFails, Go
  <2> QED
    BY <1>0, <2>1, <2>2 DEF ClosedAfterLastUse, DestructorIsWoken
<1>3. CASE Destroy \/ DestructorWakes \/ DestructorChecks \/ UNCHANGED vars
  <2>1. Holders' = Holders /\ Waiters' = Waiters
    BY <1>3, CountedStay
  <2>2. CASE Destroy \/ DestructorChecks
    BY <1>0, <2>1, <2>2 DEF Destroy, DestructorChecks, CloseOrSleep, CloseHandles, Sleep,
       ClosedAfterLastUse, DestructorIsWoken
  <2>3. CASE DestructorWakes \/ UNCHANGED vars
    BY <1>0, <2>1, <2>3 DEF DestructorWakes, vars, ClosedAfterLastUse,
       DestructorIsWoken
  <2> QED
    BY <1>3, <2>2, <2>3
<1> QED
  BY <1>1, <1>2, <1>3, NextSteps

-----------------------------------------------------------------------------
(* IInv is an invariant.                                                   *)
THEOREM Invariance == Spec => []IInv
<1>1. Init => IInv
  <2> SUFFICES ASSUME Init PROVE IInv
    OBVIOUS
  <2> None \notin Connections
    BY NoneAssumption, PoolSizeAssumption DEF Connections
  <2>0. Holders = {} /\ Waiters = {} /\ Asleep = {}
    BY DEF Init, Holders, Waiters, Asleep, WaitStates
  <2>1. DataOK
    <3>1. available \in [1..PoolSize -> Connections]
      BY PoolSizeAssumption DEF Init, Connections
    <3>2. available \in Seq(Connections)
      BY <3>1, PoolSizeAssumption
    <3>3. /\ at \in [Threads -> ThreadStates]
          /\ use \in [Threads -> Uses]
          /\ held \in [Threads -> Connections \cup {None}]
      BY DEF Init, ThreadStates, Uses
    <3>4. /\ active \in Int /\ waiting \in Int
          /\ destructor \in DestructorStates
      BY DEF Init, DestructorStates
    <3>5. shuttingDown \in BOOLEAN /\ inTransaction \subseteq Connections
      BY Zenon DEF Init
    <3> QED
      BY <3>2, <3>3, <3>4, <3>5 DEF DataOK
  <2>2. HeldWhileUsed /\ ShutdownByDestructor
    BY DEF Init, HeldWhileUsed, LeaseStates, ShutdownByDestructor
  <2>3. LeaseIsExclusive
    <3>1. \A i, j \in DOMAIN available : available[i] = available[j] => i = j
      BY PoolSizeAssumption DEF Init
    <3>2. ASSUME NEW c \in Connections
          PROVE  \E i \in DOMAIN available : available[i] = c
      <4>1. c + 1 \in DOMAIN available /\ available[c + 1] = c
        BY PoolSizeAssumption DEF Init, Connections
      <4> QED
        BY <4>1
    <3>3. \A c \in Connections : ~ \E t \in Threads : held[t] = c
      BY DEF Init
    <3> QED
      BY <2>0, <3>1, <3>2, <3>3 DEF LeaseIsExclusive
  <2>4. Owned
    BY DEF Init, Owned, TransactionHasOwner
  <2>5. CountersAgree
    BY <2>0, FS_EmptySet DEF Init, CountersAgree
  <2>6. NoLostWakeup
    BY <2>0 DEF NoLostWakeup
  <2>7. ClosedAfterLastUse /\ DestructorIsWoken
    BY DEF Init, ClosedAfterLastUse, DestructorIsWoken
  <2> QED
    BY <2>1, <2>2, <2>3, <2>4, <2>5, <2>6, <2>7 DEF IInv
<1>2. IInv /\ [Next]_vars => IInv'
  BY TypesKept, PlacesKept, LeasesKept, OwnersKept, CountersKept, WakeupsKept,
     DestructorKept DEF IInv
<1> QED
  BY <1>1, <1>2, PTL DEF Spec

(* Every variable keeps its type, and the unsigned counters never wrap.    *)
THEOREM TypeCorrect == Spec => []TypeOK
<1> IInv => TypeOK
  <2> SUFFICES ASSUME IInv PROVE TypeOK
    OBVIOUS
  <2>1. Holders \in SUBSET Threads /\ Waiters \in SUBSET Threads
    BY DEF Holders, Waiters
  <2>2. active \in Nat /\ waiting \in Nat
    BY <2>1, CountThreads DEF IInv, CountersAgree
  <2> QED
    BY <2>2 DEF IInv, DataOK, Owned, TypeOK
<1> QED
  BY Invariance, PTL

(* No connection is leased twice, lost, or free and leased.                *)
THEOREM Exclusive == Spec => []LeaseIsExclusive
<1> IInv => LeaseIsExclusive
  BY DEF IInv
<1> QED
  BY Invariance, PTL

(* An open transaction has a live owner, whose own it is, or was left open *)
(* by a ROLLBACK that failed.                                              *)
THEOREM TransactionsOwned == Spec => []TransactionHasOwner
<1> IInv => TransactionHasOwner
  BY DEF IInv, Owned
<1> QED
  BY Invariance, PTL

(* active_connections_ and waiting_threads_ are exact.                     *)
THEOREM Counted == Spec => []CountersAgree
<1> IInv => CountersAgree
  BY DEF IInv
<1> QED
  BY Invariance, PTL

(* No thread sleeps while a connection is free and nobody is on the way.   *)
THEOREM Wakeup == Spec => []NoLostWakeup
<1> IInv => NoLostWakeup
  BY DEF IInv
<1> QED
  BY Invariance, PTL

(* ~Database closes no connection that is in use or waited for.            *)
THEOREM ClosedSafely == Spec => []ClosedAfterLastUse
<1> IInv => ClosedAfterLastUse
  BY DEF IInv
<1> QED
  BY Invariance, PTL

(* While ~Database sleeps, somebody is there to notify everybody.          *)
THEOREM DestructorWoken == Spec => []DestructorIsWoken
<1> IInv => DestructorIsWoken
  BY DEF IInv
<1> QED
  BY Invariance, PTL

(* Whoever sleeps on the condition variable, a thread or the destructor,   *)
(* will be woken.                                                          *)
THEOREM NobodySleepsOn == Spec => []NobodyForgotten
<1> NoLostWakeup /\ DestructorIsWoken => NobodyForgotten
  BY DEF NobodyForgotten
<1> QED
  BY Wakeup, DestructorWoken, PTL
=============================================================================
