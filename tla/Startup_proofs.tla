--------------------------- MODULE Startup_proofs ---------------------------
(***************************************************************************)
(* Theorems about Startup: whatever processes migrate one database at      *)
(* once, and whenever they die or fail, the committed schema is that of    *)
(* the versions in the ledger.                                             *)
(*                                                                         *)
(* SchemaMatchesLedger is not inductive.  Three facts are missing: what    *)
(* the open transaction has made of the database, in terms of the          *)
(* committed one (PendingInv); that the versions before the next one of a  *)
(* process are in the ledger, although it was read long ago (NextInv); and *)
(* that only the holder of the write lock is inside a transaction          *)
(* (WriterInv).                                                            *)
(*                                                                         *)
(* The second part follows a configuration from the lines of its file to   *)
(* the constructors: what the parsers store is in range, by induction over *)
(* the lines, and what validation passes the constructors accept.          *)
(***************************************************************************)
EXTENDS Startup, FiniteSetTheorems, NaturalsInduction, TLAPS

Objects(versions) == UNION {Creates[v] : v \in versions}

DatabaseType ==
    [has_ledger : BOOLEAN, ledger : SUBSET Versions, objects : SUBSET Objects(Versions),
     users : UNION {[S -> {"user", "admin"}] : S \in SUBSET Accounts},
     sessions : SUBSET Accounts, families : SUBSET Accounts,
     user_roles : SUBSET (Accounts \X {"user", "super_admin"}), expired_events : BOOLEAN]

(* What SchemaMatchesLedger says of a database by itself.                  *)
Consistent(d) ==
    /\ \E n \in 0 .. 5 : d.ledger = 1 .. n
    /\ d.objects = Objects(d.ledger)
    /\ 4 \in d.ledger => d.families = d.sessions
    /\ 5 \in d.ledger => \A u \in DOMAIN d.users :
           /\ <<u, "user">> \in d.user_roles
           /\ d.users[u] = "admin" => <<u, "super_admin">> \in d.user_roles

InTransaction == {"begun", "executed", "recorded"}
Migrating == {"versioned", "serving", "commanding"} \cup InTransaction

(* A process that runs is a record of three fields.                        *)
IsRunning(r) == r = [phase |-> r.phase, config |-> r.config, next |-> r.next]

ProcessInv ==
    /\ process = [p \in Processes |-> process[p]]
    /\ \A p \in Processes : process[p] = Down \/ IsRunning(process[p])

TypeOK ==
    /\ db \in DatabaseType
    /\ pending \in DatabaseType
    /\ writer \in Processes \cup {None}
    /\ ProcessInv

WriterInv ==
    /\ \A p \in Processes : Phase(p) \in InTransaction <=> writer = p
    /\ writer = None => pending = db

Recorded(d, version) == [d EXCEPT !.ledger = @ \cup {version}]

PendingInv ==
    \A p \in Processes :
        /\ Phase(p) = "begun" => pending = db
        /\ Phase(p) = "executed" => pending = Migrate(db, process[p].next)
        /\ Phase(p) = "recorded" =>
              /\ pending = Recorded(Migrate(db, process[p].next), process[p].next)
              /\ process[p].next \notin db.ledger

(* The ledger only grows, so what was read of it stays true.               *)
NextInv ==
    \A p \in Processes :
        /\ Phase(p) \in Migrating =>
              /\ process[p].next \in 1 .. 6
              /\ 1 .. process[p].next - 1 \subseteq db.ledger
        /\ Phase(p) \in InTransaction => process[p].next \in Versions
        /\ Phase(p) \in {"serving", "commanding"} => db.ledger = Versions

IInv == TypeOK /\ WriterInv /\ PendingInv /\ NextInv /\ Consistent(db)

-----------------------------------------------------------------------------
(* Records.                                                                *)

(* A step that gives one process a new record.                             *)
LEMMA OneMoves ==
    ASSUME ProcessInv, NEW p \in Processes, NEW r,
           process' = [process EXCEPT ![p] = r],
           r = Down \/ IsRunning(r)
    PROVE  /\ ProcessInv'
           /\ process'[p] = r
           /\ \A q \in Processes : q # p => process'[q] = process[q]
<1>1. process'[p] = r
  BY DEF ProcessInv
<1>2. \A q \in Processes : q # p => process'[q] = process[q]
  BY DEF ProcessInv
<1>3. process' = [q \in Processes |-> process'[q]]
  BY DEF ProcessInv
<1>4. ProcessInv'
  BY <1>1, <1>2, <1>3 DEF ProcessInv
<1> QED
  BY <1>1, <1>2, <1>4

LEMMA TwoFields ==
    ASSUME NEW r, IsRunning(r), NEW phase, NEW v
    PROVE  [r EXCEPT !.phase = phase, !.next = v]
             = [phase |-> phase, config |-> r.config, next |-> v]
<1> DEFINE s == [phase |-> phase, config |-> r.config, next |-> r.next]
<1>1. [r EXCEPT !.phase = phase] = s
  BY DEF IsRunning
<1>2. [s EXCEPT !.next = v] = [phase |-> phase, config |-> r.config, next |-> v]
  OBVIOUS
<1>3. [r EXCEPT !.phase = phase, !.next = v] = [[r EXCEPT !.phase = phase] EXCEPT !.next = v]
  OBVIOUS
<1> HIDE DEF s
<1> QED
  BY <1>1, <1>2, <1>3

(* A process that is not down has a next version, which Goes keeps.        *)
LEMMA OneGoes ==
    ASSUME ProcessInv, NEW p \in Processes, NEW phase, Phase(p) # "down",
           Goes(p, phase)
    PROVE  /\ ProcessInv'
           /\ process'[p].phase = phase /\ process'[p].next = process[p].next
           /\ \A q \in Processes : q # p => process'[q] = process[q]
<1> DEFINE r == [phase |-> phase, config |-> process[p].config, next |-> process[p].next]
<1>1. IsRunning(process[p])
  BY DEF ProcessInv, Phase, Down
<1>2. [process[p] EXCEPT !.phase = phase] = r
  BY <1>1 DEF IsRunning
<1>3. process' = [process EXCEPT ![p] = r]
  BY <1>2 DEF Goes
<1>4. IsRunning(r) /\ r.phase = phase /\ r.next = process[p].next
  BY DEF IsRunning
<1> HIDE DEF r
<1> QED
  BY <1>3, <1>4, OneMoves

-----------------------------------------------------------------------------
(* The initial states.                                                     *)

LEMMA InvInit == Init => IInv
<1> SUFFICES ASSUME Init PROVE IInv
  OBVIOUS
<1> USE StartupAssumption
<1> DEFINE Users == UNION {[S -> {"user", "admin"}] : S \in SUBSET Accounts}
           Granted(users) ==
              {<<u, "user">> : u \in DOMAIN users}
              \cup {<<u, "super_admin">> : u \in {x \in DOMAIN users : users[x] = "admin"}}
           Left(version, users, sessions) ==
              [has_ledger |-> version > 0, ledger |-> 1 .. version,
               objects |-> UNION {Creates[v] : v \in 1 .. version},
               users |-> users, sessions |-> sessions,
               families |-> IF version >= 4 THEN sessions ELSE {},
               user_roles |-> IF version < 5 THEN {} ELSE Granted(users),
               expired_events |-> version >= 3]
<1>1. PICK version \in {0} \cup Versions,
           users \in Users, sessions \in SUBSET Accounts : db = Left(version, users, sessions)
  <2>1. PICK version \in {0} \cup Versions :
            \E users \in IF version = 0 THEN [{} -> {"user", "admin"}] ELSE Users,
               sessions \in IF version < 2 THEN {{}} ELSE SUBSET Accounts :
               db = Left(version, users, sessions)
    <3> DEFINE At(version) ==
            {Left(version, users, sessions) :
                users \in IF version = 0 THEN [{} -> {"user", "admin"}] ELSE Users,
                sessions \in IF version < 2 THEN {{}} ELSE SUBSET Accounts}
    <3>1. Databases = UNION {At(version) : version \in {0} \cup Versions}
      BY DEF Databases
    <3>2. PICK version \in {0} \cup Versions : db \in At(version)
      <4> HIDE DEF At
      <4> QED
        BY <3>1 DEF Init
    <3> HIDE DEF Left, Users
    <3> QED
      BY <3>2
  <2>2. [{} -> {"user", "admin"}] \subseteq Users /\ {{}} \subseteq SUBSET Accounts
    OBVIOUS
  <2> QED
    BY <2>1, <2>2
<1>2. Consistent(db)
  BY <1>1 DEF Consistent, Objects, Versions
<1>3. db \in DatabaseType
  <2>1. 1 .. version \subseteq Versions
    BY DEF Versions
  <2>3. UNION {Creates[v] : v \in 1 .. version} \subseteq Objects(Versions)
    BY <2>1 DEF Objects
  <2>4. DOMAIN users \subseteq Accounts
    OBVIOUS
  <2>5. Granted(users) \subseteq Accounts \X {"user", "super_admin"}
    <3>1. \A u \in DOMAIN users : <<u, "user">> \in Accounts \X {"user", "super_admin"}
      BY <2>4
    <3>2. \A u \in DOMAIN users : <<u, "super_admin">> \in Accounts \X {"user", "super_admin"}
      BY <2>4
    <3> QED
      BY <3>1, <3>2
  <2> HIDE DEF Users, Granted
  <2> QED
    BY <1>1, <2>1, <2>3, <2>5 DEF DatabaseType, Versions, Users
<1>4. ProcessInv /\ \A p \in Processes : Phase(p) = "down"
  BY DEF Init, ProcessInv, Down, Phase
<1> QED
  BY <1>2, <1>3, <1>4 DEF Init, IInv, TypeOK, WriterInv, PendingInv, NextInv,
     InTransaction, Migrating


-----------------------------------------------------------------------------
(* The steps that leave the committed database alone.                      *)

(* A process that fails or dies leaves its transaction.                    *)
LEMMA LeavesSafely ==
    ASSUME IInv, NEW p \in Processes,
           process' = [process EXCEPT ![p] = Down],
           IF writer = p THEN writer' = None /\ pending' = db
                         ELSE UNCHANGED <<writer, pending>>,
           db' = db
    PROVE  IInv'
<1> USE StartupAssumption
<1>0. /\ ProcessInv' /\ process'[p] = Down
      /\ \A q \in Processes : q # p => process'[q] = process[q]
  BY OneMoves DEF IInv, TypeOK
<1>1. /\ ProcessInv' /\ Phase(p)' = "down"
      /\ \A q \in Processes : q # p => process'[q] = process[q]
  BY <1>0 DEF Phase, Down
<1>2. TypeOK'
  BY <1>1 DEF IInv, TypeOK
<1>3. WriterInv'
  BY <1>1 DEF IInv, WriterInv, Phase, InTransaction
<1>4. PendingInv'
  BY <1>1 DEF IInv, PendingInv, WriterInv, Phase, InTransaction
<1>5. NextInv'
  BY <1>1 DEF IInv, NextInv, Phase, Migrating, InTransaction
<1> QED
  BY <1>2, <1>3, <1>4, <1>5 DEF IInv, Consistent

(* A process that is not migrating yet, or stops, touches nothing.         *)
LEMMA MovesOutside ==
    ASSUME IInv, NEW p \in Processes, NEW r,
           process' = [process EXCEPT ![p] = r], r = Down \/ IsRunning(r),
           Phase(p) \notin InTransaction, r.phase \notin Migrating,
           UNCHANGED <<db, writer, pending>>
    PROVE  IInv'
<1>1. /\ ProcessInv' /\ Phase(p)' = r.phase
      /\ \A q \in Processes : q # p => process'[q] = process[q]
  BY OneMoves DEF IInv, TypeOK, Phase
<1>2. TypeOK'
  BY <1>1 DEF IInv, TypeOK
<1>3. WriterInv'
  BY <1>1 DEF IInv, WriterInv, Phase, Migrating, InTransaction
<1>4. PendingInv'
  BY <1>1 DEF IInv, PendingInv, Phase, Migrating, InTransaction
<1>5. NextInv'
  BY <1>1 DEF IInv, NextInv, Phase, Migrating, InTransaction
<1> QED
  BY <1>2, <1>3, <1>4, <1>5 DEF IInv, Consistent

LEMMA FailInv == ASSUME IInv, NEW p \in Processes, Fail(p) PROVE IInv'
BY LeavesSafely DEF Fail

LEMMA LoadInv == ASSUME IInv, NEW p \in Processes, Load(p) PROVE IInv'
<1> PICK load \in Loads : process' = [process EXCEPT ![p] =
              IF load.ok THEN [phase |-> "loaded", config |-> load.config, next |-> 0]
              ELSE Down]
  BY DEF Load
<1> DEFINE r == IF load.ok THEN [phase |-> "loaded", config |-> load.config, next |-> 0]
                ELSE Down
<1>1. (r = Down \/ IsRunning(r)) /\ r.phase \in {"loaded", "down"}
  <2> DEFINE loaded == [phase |-> "loaded", config |-> load.config, next |-> 0]
  <2>1. IsRunning(loaded) /\ loaded.phase = "loaded"
    BY DEF IsRunning
  <2>2. Down.phase = "down"
    BY DEF Down
  <2>3. r = loaded \/ r = Down
    OBVIOUS
  <2> HIDE DEF loaded, r
  <2> QED
    BY <2>1, <2>2, <2>3
<1>2. Phase(p) \notin InTransaction /\ r.phase \notin Migrating
  BY <1>1 DEF Load, InTransaction, Migrating
<1>3. UNCHANGED <<db, writer, pending>>
  BY DEF Load, DatabaseUntouched
<1> HIDE DEF r
<1> QED
  BY <1>1, <1>2, <1>3, MovesOutside DEF r

LEMMA ValidateInv == ASSUME IInv, NEW p \in Processes, Validate(p) PROVE IInv'
<1>1. PICK r : /\ process' = [process EXCEPT ![p] = r]
               /\ \/ r = Down
                  \/ \E phase \in {"constructed", "refused"} :
                        \/ r = [process[p] EXCEPT !.phase = phase, !.config = @]
                        \/ r = [process[p] EXCEPT !.phase = phase, !.config = Defaults]
  BY DEF Validate
<1>2. IsRunning(process[p])
  BY DEF Validate, IInv, TypeOK, ProcessInv, Phase, Down
<1>3. (r = Down \/ IsRunning(r)) /\ r.phase \notin Migrating
  <2>1. CASE r = Down
    BY <2>1 DEF Down, Migrating, InTransaction
  <2>2. ASSUME NEW phase \in {"constructed", "refused"}, NEW config,
               r = [process[p] EXCEPT !.phase = phase, !.config = config]
        PROVE  IsRunning(r) /\ r.phase \notin Migrating
    <3>1. r = [phase |-> phase, config |-> config, next |-> process[p].next]
      BY <1>2, <2>2 DEF IsRunning
    <3>2. IsRunning(r) /\ r.phase = phase
      BY <3>1 DEF IsRunning
    <3> QED
      BY <3>2 DEF Migrating, InTransaction
  <2> QED
    BY <1>1, <2>1, <2>2
<1>4. Phase(p) \notin InTransaction /\ UNCHANGED <<db, writer, pending>>
  BY DEF Validate, InTransaction, DatabaseUntouched
<1> QED
  BY <1>1, <1>3, <1>4, MovesOutside

LEMMA StopInv == ASSUME IInv, NEW p \in Processes, Stop(p) PROVE IInv'
<1>1. Phase(p) \notin InTransaction /\ Down.phase \notin Migrating
  BY DEF Stop, InTransaction, Migrating, Down
<1>2. process' = [process EXCEPT ![p] = Down] /\ UNCHANGED <<db, writer, pending>>
  BY DEF Stop, DatabaseUntouched
<1> QED
  BY <1>1, <1>2, MovesOutside

LEMMA CrashInv == ASSUME IInv, NEW p \in Processes, Crash(p) PROVE IInv'
BY LeavesSafely DEF Crash


-----------------------------------------------------------------------------
(* The migration of a database.                                            *)

LEMMA LedgerNumber ==
    ASSUME NEW d, Consistent(d), NEW v \in Versions, v \notin d.ledger,
           1 .. v - 1 \subseteq d.ledger
    PROVE  d.ledger = 1 .. v - 1 /\ d.ledger \cup {v} = 1 .. v
<1>1. PICK n \in 0 .. 5 : d.ledger = 1 .. n
  BY DEF Consistent
<1>2. n = v - 1
  <2>1. ~(n >= v)
    BY <1>1 DEF Versions
  <2>2. CASE n < v - 1
    <3>1. v - 1 \in 1 .. v - 1
      BY <2>2 DEF Versions
    <3> QED
      BY <1>1, <2>2, <3>1 DEF Versions
  <2> QED
    BY <2>1, <2>2 DEF Versions
<1> QED
  BY <1>1, <1>2 DEF Versions

(* What Migrate and the INSERT make of the fields.                         *)
LEMMA MigrateFields ==
    ASSUME NEW d \in DatabaseType, NEW v \in Versions
    PROVE  LET e == Recorded(Migrate(d, v), v) IN
           /\ Migrate(d, v) \in DatabaseType /\ e \in DatabaseType
           /\ Migrate(d, v).ledger = d.ledger /\ e.ledger = d.ledger \cup {v}
           /\ e.objects = d.objects \cup Creates[v]
           /\ e.users = d.users /\ e.sessions = d.sessions
           /\ e.families = IF v = 4 THEN d.sessions ELSE d.families
           /\ d.user_roles \subseteq e.user_roles
           /\ v = 5 => \A u \in DOMAIN d.users :
                  /\ <<u, "user">> \in e.user_roles
                  /\ d.users[u] = "admin" => <<u, "super_admin">> \in e.user_roles
<1> DEFINE objects == d.objects \cup Creates[v]
           families == IF v = 4 THEN d.sessions ELSE d.families
           roles == IF v = 5
              THEN d.user_roles \cup {<<u, "user">> : u \in DOMAIN d.users}
                   \cup {<<u, "super_admin">> : u \in {x \in DOMAIN d.users : d.users[x] = "admin"}}
              ELSE d.user_roles
           m == [d EXCEPT !.objects = objects, !.families = families, !.user_roles = roles]
<1>1. Migrate(d, v) = m
  BY DEF Migrate, DatabaseType
<1>2. objects \subseteq Objects(Versions)
  BY DEF Objects, DatabaseType
<1>3. families \subseteq Accounts
  BY DEF DatabaseType
<1>4. DOMAIN d.users \subseteq Accounts
  BY DEF DatabaseType
<1>5. roles \subseteq Accounts \X {"user", "super_admin"}
  <2>1. d.user_roles \subseteq Accounts \X {"user", "super_admin"}
    BY DEF DatabaseType
  <2>2. \A u \in DOMAIN d.users : /\ <<u, "user">> \in Accounts \X {"user", "super_admin"}
                                  /\ <<u, "super_admin">> \in Accounts \X {"user", "super_admin"}
    BY <1>4
  <2> QED
    BY <2>1, <2>2
<1>6. d.user_roles \subseteq roles
  OBVIOUS
<1>7. v = 5 => \A u \in DOMAIN d.users :
          /\ <<u, "user">> \in roles
          /\ d.users[u] = "admin" => <<u, "super_admin">> \in roles
  OBVIOUS
<1> HIDE DEF objects, families, roles
<1>8. /\ m \in DatabaseType /\ m.ledger = d.ledger /\ m.objects = objects
      /\ m.users = d.users /\ m.sessions = d.sessions
      /\ m.families = families /\ m.user_roles = roles
  BY <1>2, <1>3, <1>5 DEF DatabaseType
<1> HIDE DEF m
<1> DEFINE e == Recorded(m, v)
<1>9. /\ e \in DatabaseType /\ e.ledger = d.ledger \cup {v} /\ e.objects = objects
      /\ e.users = d.users /\ e.sessions = d.sessions
      /\ e.families = families /\ e.user_roles = roles
  BY <1>8 DEF DatabaseType, Recorded
<1> HIDE DEF e
<1>10. Recorded(Migrate(d, v), v) = e
  BY <1>1 DEF e
<1> QED
  BY <1>1, <1>6, <1>7, <1>8, <1>9, <1>10 DEF objects, families

LEMMA MigrateConsistent ==
    ASSUME NEW d \in DatabaseType, Consistent(d), NEW v \in Versions,
           v \notin d.ledger, 1 .. v - 1 \subseteq d.ledger
    PROVE  Consistent(Recorded(Migrate(d, v), v))
<1> DEFINE e == Recorded(Migrate(d, v), v)
<1>1. /\ e.ledger = d.ledger \cup {v} /\ e.objects = d.objects \cup Creates[v]
      /\ e.users = d.users /\ e.sessions = d.sessions
      /\ e.families = IF v = 4 THEN d.sessions ELSE d.families
      /\ d.user_roles \subseteq e.user_roles
      /\ v = 5 => \A u \in DOMAIN d.users :
             /\ <<u, "user">> \in e.user_roles
             /\ d.users[u] = "admin" => <<u, "super_admin">> \in e.user_roles
  BY MigrateFields
<1> HIDE DEF e
<1>2. \E n \in 0 .. 5 : e.ledger = 1 .. n
  BY <1>1, LedgerNumber DEF Versions
<1>3. e.objects = Objects(e.ledger)
  BY <1>1 DEF Consistent, Objects
<1>4. 4 \in e.ledger => e.families = e.sessions
  BY <1>1 DEF Consistent
<1>5. 5 \in e.ledger => \A u \in DOMAIN e.users :
          /\ <<u, "user">> \in e.user_roles
          /\ e.users[u] = "admin" => <<u, "super_admin">> \in e.user_roles
  BY <1>1 DEF Consistent
<1>6. Consistent(e)
  BY <1>2, <1>3, <1>4, <1>5 DEF Consistent
<1> QED
  BY <1>6 DEF e


-----------------------------------------------------------------------------
(* The steps that write, or read the ledger.                               *)

(* A step outside of the transactions that writes nothing, or commits a    *)
(* change of its own while nobody holds the write lock.                    *)
LEMMA LedgerKept ==
    ASSUME IInv, NEW p \in Processes, ProcessInv',
           \A q \in Processes : q # p => process'[q] = process[q],
           Phase(p) \notin InTransaction, Phase(p)' \notin InTransaction,
           db' \in DatabaseType, db'.ledger = db.ledger, Consistent(db'),
           \/ db' = db /\ writer' = writer /\ pending' = pending
           \/ writer = None /\ writer' = None /\ pending' = db',
           Phase(p)' \in Migrating =>
              /\ process'[p].next \in 1 .. 6
              /\ 1 .. process'[p].next - 1 \subseteq db.ledger,
           Phase(p)' \in {"serving", "commanding"} => db.ledger = Versions
    PROVE  IInv'
<1> USE StartupAssumption
<1>1. TypeOK'
  BY DEF IInv, TypeOK
<1>2. WriterInv'
  BY DEF IInv, WriterInv, Phase
<1>3. PendingInv'
  <2>1. ASSUME NEW q \in Processes, Phase(q)' \in InTransaction
        PROVE  /\ q # p /\ process'[q] = process[q]
               /\ db' = db /\ pending' = pending
    BY <2>1 DEF IInv, WriterInv, Phase
  <2> QED
    BY <2>1 DEF IInv, PendingInv, Phase, InTransaction
<1>4. NextInv'
  BY DEF IInv, NextInv, Phase, InTransaction
<1>5. Consistent(db)'
  BY DEF Consistent
<1> QED
  BY <1>1, <1>2, <1>3, <1>4, <1>5 DEF IInv

LEMMA CreateLedgerInv == ASSUME IInv, NEW p \in Processes, CreateLedger(p) PROVE IInv'
<1> DEFINE d == [db EXCEPT !.has_ledger = TRUE]
<1>1. /\ ProcessInv' /\ Phase(p)' = "prepared"
      /\ \A q \in Processes : q # p => process'[q] = process[q]
  BY OneGoes DEF CreateLedger, IInv, TypeOK, Phase
<1>2. /\ d \in DatabaseType /\ d.ledger = db.ledger /\ d.objects = db.objects
      /\ d.users = db.users /\ d.sessions = db.sessions /\ d.families = db.families
      /\ d.user_roles = db.user_roles
  BY DEF IInv, TypeOK, DatabaseType
<1>3. db.has_ledger => d = db
  BY DEF IInv, TypeOK, DatabaseType
<1>4. db' = d /\ writer' = writer
  BY DEF CreateLedger
<1> HIDE DEF d
<1>5. Consistent(d)
  BY <1>2 DEF IInv, Consistent
<1>6. \/ db' = db /\ writer' = writer /\ pending' = pending
      \/ writer = None /\ writer' = None /\ pending' = db'
  BY <1>3, <1>4 DEF CreateLedger
<1>7. Phase(p) \notin InTransaction /\ Phase(p)' \notin Migrating
  BY <1>1 DEF CreateLedger, InTransaction, Migrating
<1> QED
  BY <1>1, <1>2, <1>4, <1>5, <1>6, <1>7, LedgerKept DEF Migrating

LEMMA ReadVersionInv == ASSUME IInv, NEW p \in Processes, ReadVersion(p) PROVE IInv'
<1>1. PICK n \in 0 .. 5 : db.ledger = 1 .. n
  BY DEF IInv, Consistent
<1>2. Max(db.ledger \cup {0}) = n
  <2>1. n \in db.ledger \cup {0} /\ \A y \in db.ledger \cup {0} : n >= y
    BY <1>1
  <2>2. \A x \in db.ledger \cup {0} :
            (\A y \in db.ledger \cup {0} : x >= y) => x = n
    <3> TAKE x \in db.ledger \cup {0}
    <3> HAVE \A y \in db.ledger \cup {0} : x >= y
    <3>1. x \in Int /\ n \in Int
      BY <1>1
    <3>2. x >= n /\ n >= x
      BY <2>1
    <3> QED
      BY <3>1, <3>2
  <2> QED
    BY <2>1, <2>2 DEF Max
<1> DEFINE r == [phase |-> "versioned", config |-> process[p].config, next |-> 1 + n]
<1>3. process' = [process EXCEPT ![p] = r]
  <2>1. IsRunning(process[p])
    BY DEF ReadVersion, IInv, TypeOK, ProcessInv, Phase, Down
  <2>2. ASSUME NEW v
        PROVE  [process[p] EXCEPT !.phase = "versioned", !.next = v]
                 = [phase |-> "versioned", config |-> process[p].config, next |-> v]
    BY <2>1, TwoFields
  <2> QED
    BY <1>2, <2>2 DEF ReadVersion
<1>4. IsRunning(r) /\ r.phase = "versioned" /\ r.next = 1 + n
  BY DEF IsRunning
<1> HIDE DEF r
<1>5. /\ ProcessInv' /\ process'[p] = r
      /\ \A q \in Processes : q # p => process'[q] = process[q]
  BY <1>3, <1>4, OneMoves DEF IInv, TypeOK
<1>6. Phase(p)' = "versioned" /\ process'[p].next = 1 + n
  BY <1>4, <1>5 DEF Phase
<1>7. Phase(p) \notin InTransaction /\ Phase(p)' \notin InTransaction
  BY <1>6 DEF ReadVersion, InTransaction
<1>8. db' = db /\ writer' = writer /\ pending' = pending
  BY DEF ReadVersion, DatabaseUntouched
<1>9. process'[p].next \in 1 .. 6 /\ 1 .. process'[p].next - 1 \subseteq db.ledger
  BY <1>1, <1>6
<1> QED
  BY <1>5, <1>6, <1>7, <1>8, <1>9, LedgerKept DEF IInv, TypeOK

LEMMA FinishMigrationsInv ==
    ASSUME IInv, NEW p \in Processes, FinishMigrations(p) PROVE IInv'
<1> DEFINE d == [db EXCEPT !.expired_events = FALSE]
<1>1. /\ ProcessInv' /\ Phase(p)' \in {"serving", "commanding"}
      /\ process'[p].next = process[p].next
      /\ \A q \in Processes : q # p => process'[q] = process[q]
  BY OneGoes DEF FinishMigrations, IInv, TypeOK, Phase
<1>2. /\ d \in DatabaseType /\ d.ledger = db.ledger /\ d.objects = db.objects
      /\ d.users = db.users /\ d.sessions = db.sessions /\ d.families = db.families
      /\ d.user_roles = db.user_roles
  BY DEF IInv, TypeOK, DatabaseType
<1>3. writer' = writer /\ \/ db' = db /\ pending' = pending
                          \/ writer = None /\ db' = d /\ pending' = db'
  BY DEF FinishMigrations
<1> HIDE DEF d
<1>4. Consistent(d) /\ Consistent(db)
  BY <1>2 DEF IInv, Consistent
<1>5. process[p].next = 6 /\ 1 .. 5 \subseteq db.ledger
  BY DEF FinishMigrations, IInv, NextInv, Migrating, Versions
<1>6. db.ledger = Versions
  BY <1>5 DEF IInv, TypeOK, DatabaseType, Versions
<1>7. Phase(p) \notin InTransaction /\ Phase(p)' \notin InTransaction
  BY <1>1 DEF FinishMigrations, InTransaction
<1>8. db' \in DatabaseType /\ db'.ledger = db.ledger /\ Consistent(db')
  BY <1>2, <1>3, <1>4 DEF IInv, TypeOK
<1>9. process'[p].next \in 1 .. 6 /\ 1 .. process'[p].next - 1 \subseteq db.ledger
  BY <1>1, <1>5
<1> QED
  BY <1>1, <1>3, <1>6, <1>7, <1>8, <1>9, LedgerKept

LEMMA RegisterInv ==
    ASSUME IInv, NEW p \in Processes, NEW u \in Accounts, Register(p, u) PROVE IInv'
<1> DEFINE users == [x \in DOMAIN db.users \cup {u} |-> IF x = u THEN "user" ELSE db.users[x]]
           roles == IF "assign_default_user_role" \in db.objects
                    THEN db.user_roles \cup {<<u, "user">>} ELSE db.user_roles
           d == [db EXCEPT !.users = users, !.user_roles = roles]
<1>1. db' = d
  BY DEF Register, IInv, TypeOK, DatabaseType
<1>2. users \in UNION {[S -> {"user", "admin"}] : S \in SUBSET Accounts}
  <2>1. PICK S \in SUBSET Accounts : db.users \in [S -> {"user", "admin"}]
    BY DEF IInv, TypeOK, DatabaseType
  <2>2. users \in [S \cup {u} -> {"user", "admin"}] /\ S \cup {u} \in SUBSET Accounts
    BY <2>1
  <2> QED
    BY <2>2
<1>3. roles \subseteq Accounts \X {"user", "super_admin"}
  BY DEF IInv, TypeOK, DatabaseType
<1>4. 5 \in db.ledger => <<u, "user">> \in roles
  <2>1. 5 \in db.ledger => Creates[5] \subseteq db.objects
    BY DEF IInv, Consistent, Objects
  <2>2. "assign_default_user_role" \in Creates[5]
    BY DEF Creates
  <2> QED
    BY <2>1, <2>2
<1>5. db.user_roles \subseteq roles
  OBVIOUS
<1>6. /\ DOMAIN users = DOMAIN db.users \cup {u} /\ users[u] = "user"
      /\ \A x \in DOMAIN db.users : x # u => users[x] = db.users[x]
  OBVIOUS
<1> HIDE DEF users, roles
<1>7. /\ d \in DatabaseType /\ d.ledger = db.ledger /\ d.objects = db.objects
      /\ d.users = users /\ d.sessions = db.sessions /\ d.families = db.families
      /\ d.user_roles = roles
  BY <1>2, <1>3 DEF IInv, TypeOK, DatabaseType
<1> HIDE DEF d
<1>8. Consistent(d)
  <2>1. 5 \in d.ledger => \A x \in DOMAIN d.users :
            /\ <<x, "user">> \in d.user_roles
            /\ d.users[x] = "admin" => <<x, "super_admin">> \in d.user_roles
    BY <1>4, <1>5, <1>6, <1>7 DEF IInv, Consistent
  <2> QED
    BY <1>7, <2>1 DEF IInv, Consistent
<1>9. /\ writer = None /\ writer' = None /\ pending' = db' /\ process' = process
      /\ Phase(p) = "serving" /\ Phase(p)' = "serving"
  BY DEF Register, Phase
<1>10. ProcessInv' /\ \A q \in Processes : process'[q] = process[q]
  BY <1>9 DEF IInv, TypeOK, ProcessInv
<1>11. /\ process'[p].next \in 1 .. 6 /\ 1 .. process'[p].next - 1 \subseteq db.ledger
       /\ db.ledger = Versions
  BY <1>9 DEF IInv, NextInv, Migrating
<1>12. Phase(p) \notin InTransaction /\ Phase(p)' \notin InTransaction
  BY <1>9 DEF InTransaction
<1> QED
  BY <1>1, <1>7, <1>8, <1>9, <1>10, <1>11, <1>12, LedgerKept

-----------------------------------------------------------------------------
(* The steps of a transaction.                                             *)

(* The holder of the write lock changes what is pending.                   *)
LEMMA WriterMoves ==
    ASSUME IInv, NEW p \in Processes, NEW phase \in InTransaction, Goes(p, phase),
           Phase(p) # "down", db' = db, writer' = p, writer \in {None, p},
           pending' \in DatabaseType, process[p].next \in Versions,
           1 .. process[p].next - 1 \subseteq db.ledger,
           phase = "begun" => pending' = db,
           phase = "executed" => pending' = Migrate(db, process[p].next),
           phase = "recorded" =>
              /\ pending' = Recorded(Migrate(db, process[p].next), process[p].next)
              /\ process[p].next \notin db.ledger
    PROVE  IInv'
<1> USE StartupAssumption
<1>1. /\ ProcessInv' /\ Phase(p)' = phase /\ process'[p].next = process[p].next
      /\ \A q \in Processes : q # p => process'[q] = process[q]
  BY OneGoes DEF IInv, TypeOK, Phase
<1>2. \A q \in Processes : q # p => Phase(q)' \notin InTransaction
  BY <1>1 DEF IInv, WriterInv, Phase
<1>3. TypeOK'
  BY <1>1 DEF IInv, TypeOK
<1>4. WriterInv'
  BY <1>1, <1>2 DEF WriterInv
<1>5. PendingInv'
  <2>1. ASSUME NEW q \in Processes, Phase(q)' \in InTransaction PROVE q = p
    BY <1>2, <2>1
  <2>2. /\ Phase(p)' = "begun" => pending' = db'
        /\ Phase(p)' = "executed" => pending' = Migrate(db', process'[p].next)
        /\ Phase(p)' = "recorded" =>
              /\ pending' = Recorded(Migrate(db', process'[p].next), process'[p].next)
              /\ process'[p].next \notin db'.ledger
    BY <1>1
  <2> QED
    BY <2>1, <2>2 DEF PendingInv, InTransaction
<1>6. NextInv'
  <2>1. process'[p].next \in 1 .. 6
    BY <1>1 DEF Versions
  <2>2. Phase(p)' \notin {"serving", "commanding"}
    BY <1>1 DEF InTransaction
  <2>3. \A q \in Processes : q # p => Phase(q)' = Phase(q)
    BY <1>1 DEF Phase
  <2> QED
    BY <1>1, <2>1, <2>2, <2>3 DEF IInv, NextInv
<1> QED
  BY <1>3, <1>4, <1>5, <1>6 DEF IInv, Consistent

LEMMA BeginMigrationInv == ASSUME IInv, NEW p \in Processes, BeginMigration(p) PROVE IInv'
<1>1. /\ Phase(p) = "versioned" /\ process[p].next \in Versions /\ writer = None
      /\ writer' = p /\ pending' = db /\ db' = db /\ Goes(p, "begun")
  BY DEF BeginMigration
<1>2. 1 .. process[p].next - 1 \subseteq db.ledger
  BY <1>1 DEF IInv, NextInv, Migrating
<1>3. "begun" \in InTransaction /\ pending' \in DatabaseType
  BY <1>1 DEF InTransaction, IInv, TypeOK
<1> QED
  BY <1>1, <1>2, <1>3, WriterMoves

LEMMA ExecuteSqlInv == ASSUME IInv, NEW p \in Processes, ExecuteSql(p) PROVE IInv'
<1>1. /\ Phase(p) = "begun" /\ pending' = Migrate(pending, process[p].next)
      /\ db' = db /\ writer' = writer /\ Goes(p, "executed")
  BY DEF ExecuteSql
<1>2. /\ process[p].next \in Versions /\ 1 .. process[p].next - 1 \subseteq db.ledger
      /\ writer = p /\ pending = db
  BY <1>1 DEF IInv, NextInv, WriterInv, PendingInv, Migrating, InTransaction
<1>3. db \in DatabaseType
  BY DEF IInv, TypeOK
<1>4. "executed" \in InTransaction /\ pending' \in DatabaseType
  BY <1>1, <1>2, <1>3, MigrateFields DEF InTransaction
<1> QED
  BY <1>1, <1>2, <1>4, WriterMoves

LEMMA RecordVersionInv == ASSUME IInv, NEW p \in Processes, RecordVersion(p) PROVE IInv'
<1> DEFINE v == process[p].next
<1>1. /\ Phase(p) = "executed" /\ v \notin pending.ledger
      /\ pending' = Recorded(pending, v)
      /\ db' = db /\ writer' = writer /\ Goes(p, "recorded")
  BY DEF RecordVersion, Recorded
<1>2. /\ v \in Versions /\ 1 .. v - 1 \subseteq db.ledger
      /\ writer = p /\ pending = Migrate(db, v)
  BY <1>1 DEF IInv, NextInv, WriterInv, PendingInv, Migrating, InTransaction
<1>3. db \in DatabaseType
  BY DEF IInv, TypeOK
<1> HIDE DEF v
<1>4. pending.ledger = db.ledger /\ Recorded(pending, v) \in DatabaseType
  BY <1>2, <1>3, MigrateFields
<1>5. "recorded" \in InTransaction
  BY DEF InTransaction
<1> QED
  BY <1>1, <1>2, <1>4, <1>5, WriterMoves DEF v

LEMMA CommitInv == ASSUME IInv, NEW p \in Processes, Commit(p) PROVE IInv'
<1> USE StartupAssumption
<1> DEFINE v == process[p].next
           r == [phase |-> "versioned", config |-> process[p].config, next |-> v + 1]
<1>1. Phase(p) = "recorded" /\ db' = pending /\ pending' = pending /\ writer' = None
  BY DEF Commit
<1>2. /\ v \in Versions /\ 1 .. v - 1 \subseteq db.ledger /\ v \notin db.ledger
      /\ writer = p /\ pending = Recorded(Migrate(db, v), v)
  BY <1>1 DEF IInv, NextInv, WriterInv, PendingInv, Migrating, InTransaction
<1>3. process' = [process EXCEPT ![p] = r]
  <2>1. IsRunning(process[p])
    BY <1>1 DEF IInv, TypeOK, ProcessInv, Phase, Down
  <2>2. [process[p] EXCEPT !.phase = "versioned", !.next = v + 1] = r
    BY <2>1, TwoFields
  <2>3. process' = [process EXCEPT ![p] =
                       [process[p] EXCEPT !.phase = "versioned", !.next = v + 1]]
    BY <2>1 DEF Commit, IsRunning, IInv, TypeOK, ProcessInv
  <2> HIDE DEF r
  <2> QED
    BY <2>2, <2>3
<1>4. IsRunning(r) /\ r.phase = "versioned" /\ r.next = v + 1
  BY DEF IsRunning
<1> HIDE DEF r
<1>5. /\ ProcessInv' /\ process'[p] = r
      /\ \A q \in Processes : q # p => process'[q] = process[q]
  BY <1>3, <1>4, OneMoves DEF IInv, TypeOK
<1>6. Phase(p)' = "versioned" /\ process'[p].next = v + 1
  BY <1>4, <1>5 DEF Phase
<1>7. db \in DatabaseType /\ Consistent(db)
  BY DEF IInv, TypeOK
<1> HIDE DEF v
<1>8. /\ pending \in DatabaseType /\ pending.ledger = db.ledger \cup {v}
      /\ Consistent(pending)
  BY <1>2, <1>7, MigrateFields, MigrateConsistent
<1>9. \A q \in Processes : Phase(q)' \notin InTransaction
  BY <1>2, <1>5, <1>6 DEF IInv, WriterInv, Phase, InTransaction
<1>10. TypeOK'
  BY <1>1, <1>5, <1>8 DEF IInv, TypeOK
<1>11. WriterInv'
  BY <1>1, <1>9 DEF WriterInv
<1>12. PendingInv'
  BY <1>9 DEF PendingInv, InTransaction
<1>13. NextInv'
  <2>1. 1 .. (v + 1) - 1 \subseteq db'.ledger /\ v + 1 \in 1 .. 6
    BY <1>1, <1>2, <1>8 DEF Versions
  <2>2. db.ledger \subseteq db'.ledger /\ db'.ledger \subseteq Versions
    BY <1>1, <1>8 DEF DatabaseType
  <2>3. \A q \in Processes : q # p => Phase(q)' = Phase(q)
    BY <1>5 DEF Phase
  <2>4. ASSUME NEW q \in Processes, q # p
        PROVE  /\ Phase(q)' \in Migrating =>
                     /\ process'[q].next \in 1 .. 6
                     /\ 1 .. process'[q].next - 1 \subseteq db'.ledger
               /\ Phase(q)' \in {"serving", "commanding"} => db'.ledger = Versions
    BY <1>5, <2>2, <2>3, <2>4 DEF IInv, NextInv
  <2> QED
    BY <1>6, <1>9, <2>1, <2>4 DEF NextInv
<1>14. Consistent(db)'
  BY <1>1, <1>8 DEF Consistent
<1> QED
  BY <1>10, <1>11, <1>12, <1>13, <1>14 DEF IInv

-----------------------------------------------------------------------------
(* The theorems.                                                           *)

LEMMA InvStep == ASSUME IInv, NEW p \in Processes, Step(p) PROVE IInv'
<1>1. CASE Proceed(p)
  <2>1. CASE Validate(p)
    BY <2>1, ValidateInv
  <2>2. CASE CreateLedger(p)
    BY <2>2, CreateLedgerInv
  <2>3. CASE ReadVersion(p)
    BY <2>3, ReadVersionInv
  <2>4. CASE BeginMigration(p)
    BY <2>4, BeginMigrationInv
  <2>5. CASE ExecuteSql(p)
    BY <2>5, ExecuteSqlInv
  <2>6. CASE RecordVersion(p)
    BY <2>6, RecordVersionInv
  <2>7. CASE Commit(p)
    BY <2>7, CommitInv
  <2>8. CASE FinishMigrations(p)
    BY <2>8, FinishMigrationsInv
  <2>9. CASE Refuse(p) \/ BusyTimeout(p) \/ AlreadyMigrated(p)
    BY <2>9, FailInv DEF Refuse, BusyTimeout, AlreadyMigrated
  <2> QED
    BY <1>1, <2>1, <2>2, <2>3, <2>4, <2>5, <2>6, <2>7, <2>8, <2>9 DEF Proceed
<1>2. CASE Load(p)
  BY <1>2, LoadInv
<1>3. CASE StatementFails(p)
  BY <1>3, FailInv DEF StatementFails
<1>4. CASE \E u \in Accounts : Register(p, u)
  BY <1>4, RegisterInv
<1>5. CASE Stop(p)
  BY <1>5, StopInv
<1>6. CASE Crash(p)
  BY <1>6, CrashInv
<1> QED
  BY <1>1, <1>2, <1>3, <1>4, <1>5, <1>6 DEF Step

LEMMA InvStutter == ASSUME IInv, UNCHANGED vars PROVE IInv'
<1>1. /\ db' = db /\ writer' = writer /\ pending' = pending /\ process' = process
  BY DEF vars
<1>2. TypeOK'
  BY <1>1 DEF IInv, TypeOK, ProcessInv
<1>3. WriterInv' /\ PendingInv' /\ NextInv'
  BY <1>1 DEF IInv, WriterInv, PendingInv, NextInv, Phase
<1> QED
  BY <1>1, <1>2, <1>3 DEF IInv, Consistent

(* The inductive invariant: the type of the state, one writer, and what    *)
(* its transaction has made of the committed database.                     *)
THEOREM Invariance == Spec => []IInv
<1>1. IInv /\ [Next]_vars => IInv'
  BY InvStep, InvStutter DEF Next
<1> QED
  BY <1>1, InvInit, PTL DEF Spec

(* SchemaMatchesLedger for every number of servers and of runs of          *)
(* secure-admin, every set of users and every number of crashes: whoever   *)
(* loses the race of MigrationRunner::apply leaves no trace of its         *)
(* transaction, and nobody serves on a schema that lacks a version.        *)
THEOREM SchemaMatches == Spec => []SchemaMatchesLedger
<1>1. ASSUME IInv PROVE SchemaMatchesLedger
  <2>1. PICK n \in 0 .. 5 : db.ledger = 1 .. n
    BY <1>1 DEF IInv, Consistent
  <2>2. Cardinality(1 .. n) = n
    <3>1. Cardinality(1 .. n) = IF 1 > n THEN 0 ELSE n - 1 + 1
      BY FS_Interval
    <3> QED
      BY <3>1
  <2>3. db.ledger = 1 .. Cardinality(db.ledger)
    BY <2>1, <2>2
  <2> QED
    BY <1>1, <2>3 DEF IInv, Consistent, NextInv, SchemaMatchesLedger, Objects
<1> QED
  BY <1>1, Invariance, PTL

-----------------------------------------------------------------------------
(* Induction over the natural numbers, about a set instead of a predicate. *)
LEMMA LeastElement ==
    ASSUME NEW T \in SUBSET Nat, T # {}
    PROVE  \E x \in T : \A y \in T : x <= y
<1> DEFINE R == OpToRel(<, Nat)
<1>1. IsWellFoundedOn(R, Nat)
    BY NatLessThanWellFounded
<1>2. PICK x \in T : \A y \in T : ~(<<y, x>> \in R)
    <2> HIDE DEF R
    <2> QED BY <1>1, WFMin
<1>3. \A y \in T : y \in Nat /\ x \in Nat /\ ~(y < x)
    BY <1>2 DEF OpToRel
<1>4. ASSUME NEW y \in T PROVE x <= y
    BY <1>3
<1> HIDE DEF R
<1> QED BY <1>4

LEMMA GreatestElement ==
    ASSUME NEW n \in Nat, NEW T \in SUBSET (0 .. n), T # {}
    PROVE  /\ Max(T) \in T
           /\ \A y \in T : y <= Max(T)
<1> DEFINE D == {d \in Nat : n - d \in T}
<1>1. D # {}
    <2>1. PICK x \in T : TRUE
        OBVIOUS
    <2>2. n - x \in Nat /\ n - (n - x) = x
        BY <2>1
    <2> QED BY <2>1, <2>2
<1>2. PICK d \in D : \A e \in D : d <= e
    <2>1. D \in SUBSET Nat
        OBVIOUS
    <2> HIDE DEF D
    <2> QED BY <1>1, <2>1, LeastElement
<1>3. \A y \in T : n - y \in D
    <2> SUFFICES ASSUME NEW y \in T PROVE n - y \in D
        OBVIOUS
    <2>1. n - y \in Nat /\ n - (n - y) = y
        OBVIOUS
    <2> QED BY <2>1
<1>4. n - d \in T /\ \A y \in T : n - d >= y
    <2>1. n - d \in T /\ d \in Nat
        BY <1>2
    <2>2. ASSUME NEW y \in T PROVE n - d >= y
        <3>1. d <= n - y
            BY <1>2, <1>3
        <3> QED BY <2>1, <3>1
    <2> QED BY <2>1, <2>2
<1>5. \E x \in T : \A y \in T : x >= y
    BY <1>4
<1>6. Max(T) \in T /\ \A y \in T : Max(T) >= y
    BY <1>5 DEF Max
<1> QED BY <1>6

LEMMA SetInduction ==
    ASSUME NEW S, 0 \in S, \A n \in Nat : n \in S => n + 1 \in S
    PROVE  Nat \subseteq S
<1> SUFFICES ASSUME Nat \ S # {} PROVE FALSE
    OBVIOUS
<1> DEFINE R == OpToRel(<, Nat)
<1>1. IsWellFoundedOn(R, Nat)
    BY NatLessThanWellFounded
<1>2. PICK x \in Nat \ S : \A y \in Nat \ S : ~(<<y, x>> \in R)
    <2> HIDE DEF R
    <2> QED BY <1>1, WFMin
<1>3. x # 0 /\ x - 1 \in Nat /\ x - 1 < x
    OBVIOUS
<1>4. <<x - 1, x>> \in R
    BY <1>3 DEF OpToRel
<1>5. x - 1 \in S
    BY <1>2, <1>3, <1>4
<1>6. (x - 1) + 1 \in S
    BY <1>3, <1>5
<1> QED BY <1>6


-----------------------------------------------------------------------------
(* The configurations.                                                     *)

InRange(config, key) ==
    /\ config[key] \in Int
    /\ IntegerRange(key)[1] <= config[key] /\ config[key] <= IntegerRange(key)[2]

(* What the parsers leave in a configuration.                              *)
Ranged(config) ==
    /\ config = [key \in Keys |-> config[key]]
    /\ \A key \in IntegerKeys : InRange(config, key)
    /\ config["trusted_proxy_cidrs"] \in Seq(Item)

Sound(load) ==
    /\ load = [ok |-> load.ok, config |-> load.config]
    /\ load.ok \in BOOLEAN /\ Ranged(load.config)

LEMMA RuntimeDefaults ==
    \A key \in DOMAIN RuntimeRanges :
        /\ DefaultIntegers[key] \in Int
        /\ RuntimeRanges[key][1] <= DefaultIntegers[key] /\ DefaultIntegers[key] <= RuntimeRanges[key][2]
    BY DEF RuntimeRanges, DefaultIntegers

LEMMA LoginDefaults ==
    \A key \in DOMAIN LoginRanges :
        /\ DefaultIntegers[key] \in Int
        /\ LoginRanges[key][1] <= DefaultIntegers[key] /\ DefaultIntegers[key] <= LoginRanges[key][2]
    BY DEF LoginRanges, DefaultIntegers

LEMMA PolicyDefaults ==
    \A key \in DOMAIN PolicyRanges :
        /\ DefaultIntegers[key] \in Int
        /\ PolicyRanges[key][1] <= DefaultIntegers[key] /\ DefaultIntegers[key] <= PolicyRanges[key][2]
    BY DEF PolicyRanges, DefaultIntegers

LEMMA HttpDefaults ==
    \A key \in DOMAIN HttpRanges :
        /\ DefaultIntegers[key] \in Int
        /\ HttpRanges[key][1] <= DefaultIntegers[key] /\ DefaultIntegers[key] <= HttpRanges[key][2]
    BY DEF HttpRanges, DefaultIntegers

LEMMA RangeFacts ==
    /\ \A key \in DOMAIN RuntimeRanges : key \in IntegerKeys /\ IntegerRange(key) = RuntimeRanges[key]
    /\ \A key \in DOMAIN LoginRanges : key \in IntegerKeys /\ IntegerRange(key) = LoginRanges[key]
    /\ \A key \in DOMAIN PolicyRanges : key \in IntegerKeys /\ IntegerRange(key) = PolicyRanges[key]
    /\ \A key \in DOMAIN HttpRanges : key \in IntegerKeys /\ IntegerRange(key) = HttpRanges[key]
<1>1. DOMAIN RuntimeRanges \cap DOMAIN LoginRanges = {}
    BY DEF RuntimeRanges, LoginRanges
<1>2. DOMAIN RuntimeRanges \cap DOMAIN PolicyRanges = {}
    BY DEF RuntimeRanges, PolicyRanges
<1>3. DOMAIN RuntimeRanges \cap DOMAIN HttpRanges = {}
    BY DEF RuntimeRanges, HttpRanges
<1>4. DOMAIN LoginRanges \cap DOMAIN PolicyRanges = {}
    BY DEF LoginRanges, PolicyRanges
<1>5. DOMAIN LoginRanges \cap DOMAIN HttpRanges = {}
    BY DEF LoginRanges, HttpRanges
<1>6. DOMAIN PolicyRanges \cap DOMAIN HttpRanges = {}
    BY DEF PolicyRanges, HttpRanges
<1>7. \A key \in DOMAIN RuntimeRanges : key \in IntegerKeys /\ IntegerRange(key) = RuntimeRanges[key]
    BY <1>1, <1>2, <1>3 DEF IntegerKeys, IntegerRange
<1>8. \A key \in DOMAIN LoginRanges : key \in IntegerKeys /\ IntegerRange(key) = LoginRanges[key]
    BY <1>1, <1>4, <1>5 DEF IntegerKeys, IntegerRange
<1>9. \A key \in DOMAIN PolicyRanges : key \in IntegerKeys /\ IntegerRange(key) = PolicyRanges[key]
    BY <1>2, <1>4, <1>6 DEF IntegerKeys, IntegerRange
<1>10. \A key \in DOMAIN HttpRanges : key \in IntegerKeys /\ IntegerRange(key) = HttpRanges[key]
    BY <1>3, <1>5, <1>6 DEF IntegerKeys, IntegerRange
<1> QED BY <1>7, <1>8, <1>9, <1>10

(* The ends of the ranges that the constructors look at.                   *)
LEMMA LeastValues ==
    /\ \A key \in {"database_pool_size", "database_acquire_timeout_ms", "worker_threads",
                   "worker_queue_capacity"} :
          key \in IntegerKeys /\ IntegerRange(key)[1] = 1
    /\ \A key \in DOMAIN LoginRanges : key \in IntegerKeys /\ IntegerRange(key)[1] = 1
    /\ "proxy_forwarded_header_max_bytes" \in IntegerKeys
    /\ IntegerRange("proxy_forwarded_header_max_bytes")[1] = 128
    /\ \A key \in {"http_rate_limit_window_seconds", "http_rate_limit_max_buckets"} :
          key \in IntegerKeys /\ IntegerRange(key)[1] = 1
<1>1. \A key \in {"database_pool_size", "database_acquire_timeout_ms", "worker_threads",
                  "worker_queue_capacity"} :
          key \in DOMAIN RuntimeRanges /\ RuntimeRanges[key][1] = 1
    BY DEF RuntimeRanges
<1>2. \A key \in DOMAIN LoginRanges : LoginRanges[key][1] = 1
    BY DEF LoginRanges
<1>3. /\ "proxy_forwarded_header_max_bytes" \in DOMAIN PolicyRanges
      /\ PolicyRanges["proxy_forwarded_header_max_bytes"][1] = 128
    BY DEF PolicyRanges
<1>4. \A key \in {"http_rate_limit_window_seconds", "http_rate_limit_max_buckets"} :
          key \in DOMAIN HttpRanges /\ HttpRanges[key][1] = 1
    BY DEF HttpRanges
<1> QED BY <1>1, <1>2, <1>3, <1>4, RangeFacts

LEMMA ProxyKey ==
    /\ "trusted_proxy_cidrs" \in Keys
    /\ "trusted_proxy_cidrs" \notin IntegerKeys /\ "trusted_proxy_cidrs" \notin BooleanKeys
<1>1. "trusted_proxy_cidrs" \notin DOMAIN RuntimeRanges
    BY DEF RuntimeRanges
<1>2. "trusted_proxy_cidrs" \notin DOMAIN LoginRanges
    BY DEF LoginRanges
<1>3. "trusted_proxy_cidrs" \notin DOMAIN PolicyRanges
    BY DEF PolicyRanges
<1>4. "trusted_proxy_cidrs" \notin DOMAIN HttpRanges
    BY DEF HttpRanges
<1> QED BY <1>1, <1>2, <1>3, <1>4 DEF Keys, ListKeys, IntegerKeys, BooleanKeys

LEMMA DefaultsRanged == Ranged(Defaults)
<1>1. Defaults = [key \in Keys |-> Defaults[key]]
    <2> DEFINE Value(key) ==
            CASE key \in IntegerKeys -> DefaultIntegers[key]
              [] key \in BooleanKeys -> key \in {"hsts_enabled", "hsts_include_subdomains"}
              [] key = "environment" -> "development"
              [] key = "listen_address" -> "0.0.0.0"
              [] key = "log_file" -> "logs/securecore.log"
              [] key = "database_path" -> "data/securecore.db"
              [] key \in {"tls_certificate_file", "tls_private_key_file"} -> ""
              [] key = "trusted_proxy_cidrs" -> << >>
              [] key = "cors_allowed_origins" -> <<Origin("*", "wildcard")>>
    <2>1. Defaults = [key \in Keys |-> Value(key)]
        BY Zenon DEF Defaults
    <2> HIDE DEF Value
    <2> QED BY <2>1
<1>2. ASSUME NEW key \in IntegerKeys PROVE InRange(Defaults, key)
    <2>1. Defaults[key] = DefaultIntegers[key]
        <3>1. key \in Keys
            BY DEF Keys
        <3>2. Defaults[key] = CASE key \in IntegerKeys -> DefaultIntegers[key]
                  [] key \in BooleanKeys -> key \in {"hsts_enabled", "hsts_include_subdomains"}
                  [] key = "environment" -> "development"
                  [] key = "listen_address" -> "0.0.0.0"
                  [] key = "log_file" -> "logs/securecore.log"
                  [] key = "database_path" -> "data/securecore.db"
                  [] key \in {"tls_certificate_file", "tls_private_key_file"} -> ""
                  [] key = "trusted_proxy_cidrs" -> << >>
                  [] key = "cors_allowed_origins" -> <<Origin("*", "wildcard")>>
            BY <3>1 DEF Defaults
        <3>3. /\ key \notin BooleanKeys /\ key # "environment" /\ key # "listen_address"
              /\ key # "log_file" /\ key # "database_path" /\ key # "tls_certificate_file"
              /\ key # "tls_private_key_file" /\ key # "trusted_proxy_cidrs"
              /\ key # "cors_allowed_origins"
            BY DEF IntegerKeys, BooleanKeys, RuntimeRanges, LoginRanges, PolicyRanges, HttpRanges
        <3> QED BY <3>2, <3>3
    <2>2. CASE key \in DOMAIN RuntimeRanges
        BY <2>1, <2>2, RangeFacts, RuntimeDefaults DEF InRange
    <2>3. CASE key \in DOMAIN LoginRanges
        BY <2>1, <2>3, RangeFacts, LoginDefaults DEF InRange
    <2>4. CASE key \in DOMAIN PolicyRanges
        BY <2>1, <2>4, RangeFacts, PolicyDefaults DEF InRange
    <2>5. CASE key \in DOMAIN HttpRanges
        BY <2>1, <2>5, RangeFacts, HttpDefaults DEF InRange
    <2> QED BY <2>2, <2>3, <2>4, <2>5 DEF IntegerKeys
<1>3. Defaults["trusted_proxy_cidrs"] = << >>
    BY ProxyKey DEF Defaults
<1>4. << >> \in Seq(Item)
    OBVIOUS
<1>5. Defaults["trusted_proxy_cidrs"] \in Seq(Item)
    BY <1>3, <1>4
<1> QED BY <1>1, <1>2, <1>5 DEF Ranged

(* What a parser stores is in the range of its key.                        *)
LEMMA ParsedRanged ==
    ASSUME NEW key \in Keys, NEW text \in Seq(Item), Parses(key, text)
    PROVE  /\ key \in IntegerKeys =>
                 /\ Parsed(key, text) \in Int
                 /\ IntegerRange(key)[1] <= Parsed(key, text)
                 /\ Parsed(key, text) <= IntegerRange(key)[2]
           /\ key = "trusted_proxy_cidrs" => Parsed(key, text) \in Seq(Item)
<1>1. CASE key \in IntegerKeys
    <2>1. key \notin BooleanKeys /\ key \notin ListKeys
        BY <1>1 DEF IntegerKeys, BooleanKeys, ListKeys, RuntimeRanges, LoginRanges, PolicyRanges, HttpRanges
    <2>2. parse_unsigned(text, IntegerRange(key)[1], IntegerRange(key)[2])
        BY <1>1, <2>1 DEF Parses
    <2>3. /\ Len(text) = 1 /\ IntegerRange(key)[1] <= text[1].number
          /\ text[1].number <= IntegerRange(key)[2]
        BY <2>2 DEF parse_unsigned, IsScalar
    <2>4. text[1] \in Item
        <3>1. Len(text) = 1 /\ 1 \in 1 .. Len(text)
            BY <2>3
        <3>2. \A i \in 1 .. Len(text) : text[i] \in Item
            OBVIOUS
        <3> QED BY <3>1, <3>2
    <2>5. text[1].number \in Int
        BY <2>4 DEF Item
    <2>6. key # "trusted_proxy_cidrs" /\ key # "cors_allowed_origins" /\ key # "environment"
        BY <1>1 DEF IntegerKeys, RuntimeRanges, LoginRanges, PolicyRanges, HttpRanges
    <2>7. Parsed(key, text) = text[1].number
        BY <1>1, <2>1, <2>6 DEF Parsed
    <2> QED BY <2>3, <2>5, <2>6, <2>7
<1>2. CASE key = "trusted_proxy_cidrs"
    <2>1. Parsed(key, text) = IF IsNone(text) THEN << >> ELSE text
        BY <1>2, ProxyKey DEF Parsed
    <2>2. << >> \in Seq(Item)
        OBVIOUS
    <2>3. Parsed(key, text) \in Seq(Item)
        BY <2>1, <2>2
    <2> QED BY <1>2, <2>3, ProxyKey
<1> QED BY <1>1, <1>2

LEMMA SettingSound ==
    ASSUME NEW load, Sound(load), NEW key, NEW text \in Seq(Item)
    PROVE  Sound(apply_setting(load, key, text))
<1>1. Sound(LoadFailed)
    BY DefaultsRanged DEF Sound, LoadFailed
<1>2. CASE ~(load.ok /\ key \in Keys /\ Parses(key, text))
    <2>1. apply_setting(load, key, text) = LoadFailed
        BY <1>2 DEF apply_setting
    <2> QED BY <1>1, <2>1
<1>3. CASE load.ok /\ key \in Keys /\ Parses(key, text)
    <2>1. PICK v : v = Parsed(key, text)
        OBVIOUS
    <2>2. PICK config, after : config = load.config /\ after = [config EXCEPT ![key] = v]
        OBVIOUS
    <2>3. apply_setting(load, key, text) = [ok |-> TRUE, config |-> after]
        BY <1>3, <2>1, <2>2 DEF apply_setting, Loaded
    <2>4. Ranged(config)
        BY <2>2 DEF Sound
    <2>5. /\ after = [k \in Keys |-> after[k]] /\ after[key] = v
          /\ \A k \in Keys : k # key => after[k] = config[k]
        BY <1>3, <2>2, <2>4 DEF Ranged
    <2>6. ASSUME NEW k \in IntegerKeys PROVE InRange(after, k)
        <3>1. CASE k = key
            BY <1>3, <2>1, <2>5, <2>6, <3>1, ParsedRanged DEF InRange
        <3>2. CASE k # key
            <4>1. after[k] = config[k]
                BY <2>5, <3>2 DEF Keys
            <4> QED BY <2>4, <4>1 DEF Ranged, InRange
        <3> QED BY <3>1, <3>2
    <2>7. after["trusted_proxy_cidrs"] \in Seq(Item)
        <3>1. CASE key = "trusted_proxy_cidrs"
            BY <1>3, <2>1, <2>5, <3>1, ParsedRanged
        <3>2. CASE key # "trusted_proxy_cidrs"
            BY <2>4, <2>5, <3>2, ProxyKey DEF Ranged
        <3> QED BY <3>1, <3>2
    <2>8. Ranged(after)
        BY <2>5, <2>6, <2>7 DEF Ranged
    <2> QED BY <2>3, <2>8 DEF Sound
<1> QED BY <1>2, <1>3

LEMMA LineSound ==
    ASSUME NEW line \in FileLine, NEW load, Sound(load)
    PROVE  Sound(ReadLine(line, load))
<1>1. line.kind \in {"blank", "no_separator", "empty", "setting"} /\ line.text \in Seq(Item)
    BY DEF FileLine
<1>2. Sound(LoadFailed)
    BY DefaultsRanged DEF Sound, LoadFailed
<1>3. PICK x : x = apply_setting(load, line.key, line.text)
    OBVIOUS
<1>4. Sound(x)
    BY <1>1, <1>3, SettingSound
<1>5. ReadLine(line, load) = load \/ ReadLine(line, load) = LoadFailed \/ ReadLine(line, load) = x
    BY <1>1, <1>3 DEF ReadLine
<1> QED BY <1>2, <1>4, <1>5

LEMMA OverridesSound ==
    ASSUME NEW load, Sound(load), NEW environment,
           \A key \in DOMAIN environment : environment[key] \in Seq(Item)
    PROVE  Sound(apply_environment_overrides(load, environment))
<1> DEFINE Good == /\ load.ok
                   /\ \A key \in DOMAIN environment :
                         environment[key] # <<Word("")>> /\ Parses(key, environment[key])
           after == [key \in Keys |-> IF key \in DOMAIN environment
                                      THEN Parsed(key, environment[key])
                                      ELSE load.config[key]]
<1>1. CASE ~Good
    <2>1. apply_environment_overrides(load, environment) = LoadFailed
        BY <1>1 DEF apply_environment_overrides
    <2>2. Sound(LoadFailed)
        BY DefaultsRanged DEF Sound, LoadFailed
    <2> QED BY <2>1, <2>2
<1>2. CASE Good
    <2>1. apply_environment_overrides(load, environment) = [ok |-> TRUE, config |-> after]
        BY <1>2 DEF apply_environment_overrides, Loaded
    <2>2. Ranged(load.config)
        BY DEF Sound
    <2>3. /\ after = [k \in Keys |-> after[k]]
          /\ \A k \in Keys : after[k] = IF k \in DOMAIN environment
                                        THEN Parsed(k, environment[k]) ELSE load.config[k]
        OBVIOUS
    <2>4. \A k \in DOMAIN environment : Parses(k, environment[k])
        BY <1>2
    <2> HIDE DEF after, Good
    <2>5. ASSUME NEW k \in IntegerKeys PROVE InRange(after, k)
        <3>0. k \in Keys
            BY DEF Keys
        <3>1. CASE k \in DOMAIN environment
            <4>1. after[k] = Parsed(k, environment[k])
                BY <2>3, <3>0, <3>1
            <4> QED BY <2>4, <3>0, <3>1, <4>1, ParsedRanged DEF InRange
        <3>2. CASE k \notin DOMAIN environment
            <4>1. after[k] = load.config[k]
                BY <2>3, <3>0, <3>2
            <4> QED BY <2>2, <4>1 DEF Ranged, InRange
        <3> QED BY <3>1, <3>2
    <2>6. after["trusted_proxy_cidrs"] \in Seq(Item)
        <3>1. CASE "trusted_proxy_cidrs" \in DOMAIN environment
            BY <2>3, <2>4, <3>1, ProxyKey, ParsedRanged
        <3>2. CASE "trusted_proxy_cidrs" \notin DOMAIN environment
            BY <2>2, <2>3, <3>2, ProxyKey DEF Ranged
        <3> QED BY <3>1, <3>2
    <2>7. Ranged(after)
        BY <2>3, <2>5, <2>6 DEF Ranged
    <2> QED BY <2>1, <2>7 DEF Sound
<1> QED BY <1>1, <1>2

(* One step of the fold over the lines.                                    *)
ReadStep(lines, g, s) ==
    IF s = {} THEN Loaded(Defaults) ELSE ReadLine(lines[Max(s)], g[s \ {Max(s)}])

LEMMA ReadSteps ==
    ASSUME NEW lines, NEW n \in Nat
    PROVE  \E g : g = [s \in SUBSET (1 .. n) |-> ReadStep(lines, g, s)]
<1> DEFINE Steps(k) == \E g : g = [s \in SUBSET (1 .. k) |-> ReadStep(lines, g, s)]
           T == {k \in Nat : Steps(k)}
<1>1. 0 \in T
    <2> DEFINE g == [s \in SUBSET (1 .. 0) |-> Loaded(Defaults)]
    <2>1. \A s \in SUBSET (1 .. 0) : ReadStep(lines, g, s) = Loaded(Defaults)
        BY DEF ReadStep
    <2>2. g = [s \in SUBSET (1 .. 0) |-> ReadStep(lines, g, s)]
        BY <2>1
    <2> HIDE DEF g
    <2> QED BY <2>2
<1>2. \A k \in Nat : k \in T => k + 1 \in T
    <2> SUFFICES ASSUME NEW k \in Nat, Steps(k) PROVE Steps(k + 1)
        <3> HIDE DEF Steps
        <3> QED OBVIOUS
    <2>0. PICK g : g = [s \in SUBSET (1 .. k) |-> ReadStep(lines, g, s)]
        OBVIOUS
    <2> DEFINE h == [s \in SUBSET (1 .. k + 1) |->
                        IF k + 1 \in s THEN ReadLine(lines[k + 1], g[s \ {k + 1}]) ELSE g[s]]
    <2>1. \A s \in SUBSET (1 .. k) : g[s] = ReadStep(lines, g, s)
        BY <2>0
    <2>2. \A s \in SUBSET (1 .. k) : s \in SUBSET (1 .. k + 1) /\ k + 1 \notin s /\ h[s] = g[s]
        OBVIOUS
    <2>3. \A s \in SUBSET (1 .. k + 1) : k + 1 \notin s => s \in SUBSET (1 .. k)
        OBVIOUS
    <2>4. ASSUME NEW s \in SUBSET (1 .. k + 1) PROVE h[s] = ReadStep(lines, h, s)
        <3>0. s # {} => Max(s) \in s /\ \A y \in s : y <= Max(s)
            <4>1. s \in SUBSET (0 .. k + 1) /\ k + 1 \in Nat
                OBVIOUS
            <4> QED BY <4>1, GreatestElement
        <3>1. CASE s = {}
            <4>1. h[s] = g[s] /\ g[s] = ReadStep(lines, g, s)
                BY <2>1, <2>2, <3>1
            <4> HIDE DEF h
            <4> QED BY <3>1, <4>1 DEF ReadStep
        <3>2. CASE k + 1 \in s
            <4>1. Max(s) = k + 1
                <5>1. Max(s) \in 1 .. k + 1 /\ k + 1 <= Max(s)
                    BY <3>0, <3>2
                <5> QED BY <5>1
            <4>2. s \ {k + 1} \in SUBSET (1 .. k)
                OBVIOUS
            <4>3. h[s \ {k + 1}] = g[s \ {k + 1}]
                BY <2>2, <4>2
            <4>4. h[s] = ReadLine(lines[k + 1], g[s \ {k + 1}])
                BY <3>2
            <4> HIDE DEF h
            <4> QED BY <3>2, <4>1, <4>3, <4>4 DEF ReadStep
        <3>3. CASE s # {} /\ k + 1 \notin s
            <4>1. s \in SUBSET (1 .. k) /\ s \ {Max(s)} \in SUBSET (1 .. k)
                BY <2>3, <3>3
            <4>2. h[s] = g[s] /\ g[s] = ReadStep(lines, g, s) /\ h[s \ {Max(s)}] = g[s \ {Max(s)}]
                BY <2>1, <2>2, <4>1
            <4> HIDE DEF h
            <4> QED BY <3>3, <4>2 DEF ReadStep
        <3> QED BY <3>1, <3>2, <3>3
    <2>5. h = [s \in SUBSET (1 .. k + 1) |-> h[s]]
        OBVIOUS
    <2> HIDE DEF h
    <2>6. h = [s \in SUBSET (1 .. k + 1) |-> ReadStep(lines, h, s)]
        BY <2>4, <2>5
    <2> QED BY <2>6
<1>3. Nat \subseteq T
    <2> HIDE DEF T
    <2> QED BY <1>1, <1>2, SetInduction
<1> QED BY <1>3

(* Whatever the lines are, what they make of the defaults is in range.     *)
LEMMA LinesSound ==
    ASSUME NEW lines \in Seq(FileLine)
    PROVE  Sound(ReadLines(lines))
<1>1. PICK n \in Nat : DOMAIN lines = 1 .. n /\ \A i \in 1 .. n : lines[i] \in FileLine
    OBVIOUS
<1> DEFINE g == CHOOSE g : g = [s \in SUBSET (1 .. n) |-> ReadStep(lines, g, s)]
<1>2. g = [s \in SUBSET (1 .. n) |-> ReadStep(lines, g, s)]
    BY ReadSteps
<1>3. ReadLines(lines) = g[1 .. n]
    BY <1>1 DEF ReadLines, FoldLeft, MapThenFoldSet, ReadStep
<1> HIDE DEF g
<1>4. \A s \in SUBSET (1 .. n) : g[s] = ReadStep(lines, g, s)
    BY <1>2
<1> DEFINE T == {i \in Nat : i <= n => Sound(g[1 .. i])}
<1>5. 0 \in T
    <2>1. 1 .. 0 = {} /\ {} \in SUBSET (1 .. n)
        OBVIOUS
    <2>2. g[1 .. 0] = Loaded(Defaults)
        BY <1>4, <2>1 DEF ReadStep
    <2>3. Sound(Loaded(Defaults))
        BY DefaultsRanged DEF Sound, Loaded
    <2> QED BY <2>2, <2>3
<1>6. \A i \in Nat : i \in T => i + 1 \in T
    <2> SUFFICES ASSUME NEW i \in Nat, i \in T, i + 1 <= n PROVE Sound(g[1 .. i + 1])
        OBVIOUS
    <2> DEFINE s == 1 .. i + 1
    <2>1. i + 1 \in s /\ \A y \in s : y \in 1 .. n /\ y \in 0 .. n
        OBVIOUS
    <2>2. Max(s) = i + 1
        <3>1. Max(s) \in s /\ \A y \in s : y <= Max(s)
            <4>1. s \in SUBSET (0 .. n) /\ s # {}
                BY <2>1
            <4> HIDE DEF s
            <4> QED BY <4>1, GreatestElement
        <3>2. Max(s) \in 1 .. i + 1 /\ i + 1 <= Max(s)
            BY <2>1, <3>1
        <3> QED BY <3>2
    <2>3. s \ {i + 1} = 1 .. i
        OBVIOUS
    <2>4. g[s] = ReadLine(lines[i + 1], g[1 .. i])
        <3>1. s \in SUBSET (1 .. n) /\ s # {}
            BY <2>1
        <3> HIDE DEF s
        <3> QED BY <1>4, <2>2, <2>3, <3>1 DEF ReadStep
    <2>5. i + 1 \in 1 .. n /\ i <= n
        OBVIOUS
    <2>6. lines[i + 1] \in FileLine
        BY <1>1, <2>5
    <2>7. Sound(g[1 .. i])
        BY <2>5
    <2>8. Sound(ReadLine(lines[i + 1], g[1 .. i]))
        BY <2>6, <2>7, LineSound
    <2> QED BY <2>4, <2>8
<1>7. Nat \subseteq T
    <2> HIDE DEF T
    <2> QED BY <1>5, <1>6, SetInduction
<1>8. Sound(g[1 .. n])
    BY <1>7
<1> QED BY <1>3, <1>8

LEMMA LoadSound ==
    ASSUME NEW load \in Loads
    PROVE  Ranged(load.config)
<1>1. PICK input \in Inputs : load = load_from_file(input.lines, input.environment)
    BY DEF Loads
<1>2. PICK lines, environment : lines = input.lines /\ environment = input.environment
    OBVIOUS
<1>3. /\ lines \in Seq(FileLine)
      /\ \A key \in DOMAIN environment : environment[key] \in Seq(Item)
    BY <1>2, InputAssumption
<1>4. PICK read, over : /\ read = ReadLines(lines)
                        /\ over = apply_environment_overrides(read, environment)
    OBVIOUS
<1>5. Sound(read)
    BY <1>3, <1>4, LinesSound
<1>6. Sound(over)
    BY <1>3, <1>4, <1>5, OverridesSound
<1>7. load = over \/ load = LoadFailed
    BY <1>1, <1>2, <1>4 DEF load_from_file
<1>8. Sound(LoadFailed)
    BY DefaultsRanged DEF Sound, LoadFailed
<1> QED BY <1>6, <1>7, <1>8 DEF Sound

-----------------------------------------------------------------------------
(* The configuration of a process that has loaded it.                      *)

Passed == {"constructed", "refused"}

Configured(p, r) ==
    /\ r.phase = "loaded" => Ranged(r.config)
    /\ p \in Servers /\ r.phase \in Passed => Ranged(r.config) /\ validate_common(r.config)

ConfigInv == \A p \in Processes : Configured(p, process[p])

LEMMA Reconfigured ==
    ASSUME ConfigInv, NEW p \in Processes, Configured(p, process'[p]),
           \A q \in Processes : q # p => process'[q] = process[q]
    PROVE  ConfigInv'
    BY DEF ConfigInv

LEMMA GoesOn ==
    ASSUME ConfigInv, NEW p \in Processes, process'[p].phase \notin {"loaded"} \cup Passed,
           \A q \in Processes : q # p => process'[q] = process[q]
    PROVE  ConfigInv'
<1>1. Configured(p, process'[p])
    BY DEF Configured, Passed
<1> QED BY <1>1, Reconfigured

LEMMA GoesDown ==
    ASSUME IInv, ConfigInv, NEW p \in Processes, process' = [process EXCEPT ![p] = Down]
    PROVE  ConfigInv'
<1>1. process'[p] = Down /\ \A q \in Processes : q # p => process'[q] = process[q]
    BY DEF IInv, TypeOK, ProcessInv
<1>2. process'[p].phase \notin {"loaded"} \cup Passed
    BY <1>1 DEF Down, Passed
<1> QED BY <1>1, <1>2, GoesOn

LEMMA LoadConfig ==
    ASSUME IInv, ConfigInv, NEW p \in Processes, Load(p)
    PROVE  ConfigInv'
<1>1. PICK load \in Loads : process' = [process EXCEPT ![p] =
              IF load.ok THEN [phase |-> "loaded", config |-> load.config, next |-> 0]
              ELSE Down]
    BY DEF Load
<1>2. CASE ~load.ok
    BY <1>1, <1>2, GoesDown
<1>3. CASE load.ok
    <2>1. PICK r : r = [phase |-> "loaded", config |-> load.config, next |-> 0]
        OBVIOUS
    <2>2. process'[p] = r /\ \A q \in Processes : q # p => process'[q] = process[q]
        BY <1>1, <1>3, <2>1 DEF IInv, TypeOK, ProcessInv
    <2>3. r.phase = "loaded" /\ r.config = load.config
        BY <2>1
    <2>4. Configured(p, r)
        BY <2>3, LoadSound DEF Configured, Passed
    <2> QED BY <2>2, <2>4, Reconfigured
<1> QED BY <1>2, <1>3

LEMMA ValidateConfig ==
    ASSUME IInv, ConfigInv, NEW p \in Processes, Validate(p)
    PROVE  ConfigInv'
<1>1. Phase(p) = "loaded" /\ Ranged(process[p].config)
    BY DEF Validate, ConfigInv, Configured, Phase
<1>2. PICK host \in Hosts :
          LET config == process[p].config
              valid == IF p \in Servers THEN validate_for_server(config, host)
                       ELSE validate_for_admin(config, host)
              constructed == IF p \in Servers THEN Constructed(config, host)
                             ELSE DatabaseAccepts(config)
          IN  process' = [process EXCEPT ![p] =
                 IF ~valid THEN Down
                 ELSE [process[p] EXCEPT
                          !.phase = IF constructed THEN "constructed" ELSE "refused",
                          !.config = IF p \in Servers THEN @ ELSE Defaults]]
    BY Zenon DEF Validate
<1> DEFINE config == process[p].config
           valid == IF p \in Servers THEN validate_for_server(config, host)
                    ELSE validate_for_admin(config, host)
           constructed == IF p \in Servers THEN Constructed(config, host)
                          ELSE DatabaseAccepts(config)
<1>3. CASE ~valid
    <2>1. process' = [process EXCEPT ![p] = Down]
        BY <1>2, <1>3
    <2> QED BY <2>1, GoesDown
<1>4. CASE valid
    <2>1. PICK c, d : /\ c = IF constructed THEN "constructed" ELSE "refused"
                      /\ d = IF p \in Servers THEN config ELSE Defaults
        OBVIOUS
    <2>2. PICK r : r = [process[p] EXCEPT !.phase = c, !.config = d]
        OBVIOUS
    <2>3. process' = [process EXCEPT ![p] = r]
        BY <1>2, <1>4, <2>1, <2>2
    <2>4. IsRunning(process[p])
        BY <1>1 DEF IInv, TypeOK, ProcessInv, Phase, Down
    <2>5. r = [phase |-> c, config |-> d, next |-> process[p].next]
        BY <2>2, <2>4 DEF IsRunning
    <2>6. r.phase = c /\ r.config = d /\ c \in Passed
        <3>1. c \in Passed
            BY <2>1 DEF Passed
        <3> QED BY <2>5, <3>1
    <2>7. process'[p] = r /\ \A q \in Processes : q # p => process'[q] = process[q]
        BY <2>3 DEF IInv, TypeOK, ProcessInv
    <2>8. p \in Servers => Ranged(d) /\ validate_common(d)
        <3> SUFFICES ASSUME p \in Servers PROVE Ranged(d) /\ validate_common(d)
            OBVIOUS
        <3>1. d = config /\ validate_for_server(config, host)
            BY <1>4, <2>1
        <3>2. validate_common(config)
            BY <3>1 DEF validate_for_server
        <3> QED BY <1>1, <3>1, <3>2
    <2>9. Configured(p, r)
        BY <2>6, <2>8 DEF Configured, Passed
    <2> QED BY <2>7, <2>9, Reconfigured
<1> QED BY <1>3, <1>4

LEMMA ConfigStep ==
    ASSUME IInv, ConfigInv, NEW p \in Processes, Step(p)
    PROVE  ConfigInv'
<1>0. ProcessInv
    BY DEF IInv, TypeOK
<1>1. CASE Load(p)
    BY <1>1, LoadConfig
<1>2. CASE Validate(p)
    BY <1>2, ValidateConfig
<1>3. CASE Refuse(p) \/ BusyTimeout(p) \/ AlreadyMigrated(p) \/ StatementFails(p) \/ Stop(p) \/ Crash(p)
    <2>1. process' = [process EXCEPT ![p] = Down]
        BY <1>3 DEF Refuse, BusyTimeout, AlreadyMigrated, StatementFails, Stop, Crash, Fail
    <2> QED BY <2>1, GoesDown
<1>4. ASSUME NEW to, to \notin {"loaded"} \cup Passed, Phase(p) # "down", Goes(p, to) PROVE ConfigInv'
    <2>1. process'[p].phase = to /\ \A q \in Processes : q # p => process'[q] = process[q]
        BY <1>0, <1>4, OneGoes
    <2> QED BY <1>4, <2>1, GoesOn
<1>5. CASE CreateLedger(p)
    BY <1>4, <1>5 DEF CreateLedger, Passed
<1>6. CASE BeginMigration(p)
    BY <1>4, <1>6 DEF BeginMigration, Passed
<1>7. CASE ExecuteSql(p)
    BY <1>4, <1>7 DEF ExecuteSql, Passed
<1>8. CASE RecordVersion(p)
    BY <1>4, <1>8 DEF RecordVersion, Passed
<1>9. CASE FinishMigrations(p)
    <2>1. Phase(p) # "down" /\ (Goes(p, "serving") \/ Goes(p, "commanding"))
        BY <1>9 DEF FinishMigrations
    <2> QED BY <1>4, <2>1 DEF Passed
<1>10. ASSUME NEW v, Phase(p) # "down",
              process' = [process EXCEPT ![p].phase = "versioned", ![p].next = v]
       PROVE  ConfigInv'
    <2>1. IsRunning(process[p])
        BY <1>0, <1>10 DEF ProcessInv, Phase, Down
    <2>2. PICK r : r = [process[p] EXCEPT !.phase = "versioned", !.next = v]
        OBVIOUS
    <2>3. process' = [process EXCEPT ![p] = r]
        BY <1>0, <1>10, <2>2 DEF ProcessInv
    <2>4. r.phase = "versioned"
        BY <2>1, <2>2, TwoFields
    <2>5. process'[p] = r /\ \A q \in Processes : q # p => process'[q] = process[q]
        BY <1>0, <2>3 DEF ProcessInv
    <2>6. process'[p].phase \notin {"loaded"} \cup Passed
        BY <2>4, <2>5 DEF Passed
    <2> QED BY <2>5, <2>6, GoesOn
<1>11. CASE ReadVersion(p)
    BY <1>10, <1>11 DEF ReadVersion
<1>12. CASE Commit(p)
    <2>1. process' = [process EXCEPT ![p].phase = "versioned", ![p].next = process[p].next + 1]
        BY <1>0, <1>12 DEF Commit, ProcessInv
    <2>2. Phase(p) # "down"
        BY <1>12 DEF Commit
    <2> QED BY <1>10, <2>1, <2>2
<1>13. CASE \E u \in Accounts : Register(p, u)
    BY <1>13 DEF Register, ConfigInv
<1> QED BY <1>1, <1>2, <1>3, <1>5, <1>6, <1>7, <1>8, <1>9, <1>11, <1>12, <1>13 DEF Step, Proceed

(* A configuration that the parsers and the validation have passed is      *)
(* refused by none of the constructors that look at the same settings.     *)
LEMMA ValidAccepted ==
    ASSUME NEW config, Ranged(config), validate_common(config)
    PROVE  /\ RateLimiterAccepts(config) /\ TrustedProxyAccepts(config)
           /\ DatabaseAccepts(config) /\ AbuseProtectorAccepts(config)
           /\ WorkerPoolAccepts(config)
<1>1. \A key \in IntegerKeys : config[key] \in Int /\ IntegerRange(key)[1] <= config[key]
    BY DEF Ranged, InRange
<1>2. RateLimiterAccepts(config)
    <2>1. \A key \in {"http_rate_limit_window_seconds", "http_rate_limit_max_buckets"} :
              config[key] \in Int /\ 1 <= config[key]
        BY <1>1, LeastValues
    <2> QED BY <2>1 DEF RateLimiterAccepts
<1>3. TrustedProxyAccepts(config)
    <2>1. config["proxy_forwarded_header_max_bytes"] \in Int /\ 128 <= config["proxy_forwarded_header_max_bytes"]
        BY <1>1, LeastValues
    <2>2. PICK networks \in Seq(Item) : networks = config["trusted_proxy_cidrs"]
        BY DEF Ranged
    <2>3. \A i \in DOMAIN networks : networks[i] \in Item /\ validate_proxy_cidr(networks[i])
        <3>1. \A i \in DOMAIN networks : networks[i] \in Item
            OBVIOUS
        <3>2. \A i \in DOMAIN config["trusted_proxy_cidrs"] :
                  validate_proxy_cidr(config["trusted_proxy_cidrs"][i])
            BY Zenon DEF validate_common
        <3> QED BY <2>2, <3>1, <3>2
    <2>4. ASSUME NEW i \in DOMAIN networks
          PROVE  LET item == networks[i]
                 IN  /\ item.family \in {"v4", "v6"}
                     /\ item.prefix # NoPrefix =>
                           0 <= item.prefix /\ item.prefix <= (IF item.family = "v4" THEN 32 ELSE 128)
        <3>1. PICK item \in Item : item = networks[i]
            BY <2>3
        <3>2. item.family \in {"v4", "v6", "none"}
            BY DEF Item
        <3>3. item.family # "none"
            BY <2>3, <3>1 DEF validate_proxy_cidr
        <3>4. item.prefix \in {NoPrefix} \cup 0 .. (IF item.family = "v4" THEN 32 ELSE 128)
            BY <2>3, <3>1 DEF validate_proxy_cidr
        <3>5. item.prefix # NoPrefix => 0 <= item.prefix /\ item.prefix <= (IF item.family = "v4" THEN 32 ELSE 128)
            BY <3>4
        <3> QED BY <3>1, <3>2, <3>3, <3>5
    <2> QED BY <2>1, <2>2, <2>4 DEF TrustedProxyAccepts
<1>4. DatabaseAccepts(config)
    <2>1. \A key \in {"database_pool_size", "database_acquire_timeout_ms"} :
              config[key] \in Int /\ 1 <= config[key]
        BY <1>1, LeastValues
    <2>2. config["database_path"] # ""
        BY DEF validate_common
    <2>3. config["database_pool_size"] # 0 /\ config["database_acquire_timeout_ms"] > 0
        BY <2>1
    <2> QED BY <2>2, <2>3 DEF DatabaseAccepts
<1>5. AbuseProtectorAccepts(config)
    <2>1. \A key \in DOMAIN LoginRanges : config[key] \in Int /\ 1 <= config[key]
        BY <1>1, LeastValues
    <2>2. \A key \in {"auth_login_account_failure_limit", "auth_login_ip_failure_limit",
                      "auth_login_failure_window_seconds", "auth_login_lockout_seconds",
                      "auth_login_max_tracked_accounts", "auth_login_max_tracked_ips"} :
              config[key] \in Int /\ 1 <= config[key]
        BY <2>1 DEF LoginRanges
    <2>3. config["auth_login_max_lockout_seconds"] >= config["auth_login_lockout_seconds"]
        BY DEF validate_common, LockoutsOrdered
    <2> QED BY <2>2, <2>3 DEF AbuseProtectorAccepts
<1>6. WorkerPoolAccepts(config)
    <2>1. \A key \in {"worker_threads", "worker_queue_capacity"} : config[key] \in Int /\ 1 <= config[key]
        BY <1>1, LeastValues
    <2> QED BY <2>1 DEF WorkerPoolAccepts
<1> QED BY <1>2, <1>3, <1>4, <1>5, <1>6

(* ValidatedIsAccepted for every set of files and environments: a server   *)
(* whose configuration was loaded and validated is not stopped by the      *)
(* checks that RateLimiter, TrustedProxyResolver, Database,                *)
(* AuthAbuseProtector and WorkerPool repeat.                               *)
THEOREM ValidationSuffices == Spec => []ValidatedIsAccepted
<1>1. Init => ConfigInv
    BY DEF Init, ConfigInv, Configured, Passed, Down
<1>2. IInv /\ ConfigInv /\ [Next]_vars => ConfigInv'
    <2> SUFFICES ASSUME IInv, ConfigInv, [Next]_vars PROVE ConfigInv'
        OBVIOUS
    <2>1. CASE UNCHANGED vars
        BY <2>1 DEF vars, ConfigInv
    <2>2. CASE Next
        BY <2>2, ConfigStep DEF Next
    <2> QED BY <2>1, <2>2
<1>3. ConfigInv => ValidatedIsAccepted
    <2> SUFFICES ASSUME ConfigInv, NEW p \in Servers, Phase(p) \in {"constructed", "refused"}
                 PROVE  LET config == process[p].config
                        IN  /\ RateLimiterAccepts(config)
                            /\ TrustedProxyAccepts(config)
                            /\ DatabaseAccepts(config)
                            /\ AbuseProtectorAccepts(config)
                            /\ WorkerPoolAccepts(config)
        BY DEF ValidatedIsAccepted
    <2>1. PICK config : config = process[p].config
        OBVIOUS
    <2>2. Ranged(config) /\ validate_common(config)
        BY <2>1 DEF ConfigInv, Configured, Passed, Processes, Phase
    <2> QED BY <2>1, <2>2, ValidAccepted
<1> QED BY <1>1, <1>2, <1>3, Invariance, PTL DEF Spec
=============================================================================
