------------------------------ MODULE Startup -------------------------------
(***************************************************************************)
(* How a process of SecureCore starts: main of secure-server with the      *)
(* constructor of ServerApplication, and main of secure-admin.  Each loads *)
(* and validates its configuration, constructs its components, brings the  *)
(* schema of the database it shares with the others up to date             *)
(* (MigrationRunner::apply) and goes to work.                              *)
(*                                                                         *)
(* Several processes may start at once on one database file, and a process *)
(* may die between any two statements.  SQLite (external) gives: one       *)
(* writer at a time from BEGIN IMMEDIATE to COMMIT, a busy timeout for the *)
(* others, and the rollback of what a dead or failed writer had not        *)
(* committed.  MigrationRunner reads the version once, before the first    *)
(* BEGIN, so it may be stale when it is used.                              *)
(***************************************************************************)
EXTENDS ServerConfig, FiniteSets

CONSTANTS
    Servers, Admins,  \* processes: secure-server, secure-admin
    Accounts,         \* rows of users
    Inputs,           \* configuration files (sequences of lines), each
                      \* with an environment (some keys -> text)
    MaxCrashes,       \* bound on the crashes of a behaviour
    None

Processes == Servers \cup Admins

ASSUME StartupAssumption ==
    /\ MaxCrashes \in Nat
    /\ None \notin Processes

(* The files and the environments are text, of the items the parsers see.  *)
ASSUME InputAssumption ==
    \A input \in Inputs :
        /\ input.lines \in Seq(FileLine)
        /\ \A key \in DOMAIN input.environment : input.environment[key] \in Seq(Item)

VARIABLES
    db,       \* the committed database
    writer,   \* the process that holds SQLite's write lock
    pending,  \* what the writer's transaction has made of the database
    process,  \* the processes
    crashes

vars == <<db, writer, pending, process, crashes>>

-----------------------------------------------------------------------------
(* The migrations.                                                         *)

Versions == 1 .. 5

(* The tables, columns and triggers that a migration creates.              *)
Creates ==
    <<{"users"},
      {"auth_sessions"},
      {"audit_events", "prevent_audit_event_updates"},
      {"token_family_id", "parent_session_id"},
      {"roles", "permissions", "user_roles", "role_permissions", "assign_default_user_role"}>>

(* ADD COLUMN fails on a column that is there; the other statements say    *)
(* IF NOT EXISTS or OR IGNORE.                                             *)
SqlSucceeds(d, version) ==
    version = 4 => "auth_sessions" \in d.objects /\ d.objects \cap Creates[4] = {}

(* 4 names a family for every session there is; 5 gives every user the     *)
(* base role and the administrators super_admin.                           *)
Migrate(d, version) ==
    [d EXCEPT
        !.objects = @ \cup Creates[version],
        !.families = IF version = 4 THEN d.sessions ELSE @,
        !.user_roles = IF version = 5
            THEN @ \cup {<<u, "user">> : u \in DOMAIN d.users}
                   \cup {<<u, "super_admin">> : u \in {x \in DOMAIN d.users : d.users[x] = "admin"}}
            ELSE @]

-----------------------------------------------------------------------------
(* A process.                                                              *)

Down == [phase |-> "down"]
Phase(p) == process[p].phase

(* The process leaves a step with an exception: an open transaction is     *)
(* rolled back and main returns EXIT_FAILURE.                              *)
Fail(p) ==
    /\ process' = [process EXCEPT ![p] = Down]
    /\ IF writer = p THEN writer' = None /\ pending' = db
                     ELSE UNCHANGED <<writer, pending>>
    /\ UNCHANGED <<db, crashes>>

Goes(p, phase) == process' = [process EXCEPT ![p].phase = phase]
DatabaseUntouched == UNCHANGED <<db, writer, pending, crashes>>

(* What main can get from the files and environments there are.            *)
Loads == {load_from_file(input.lines, input.environment) : input \in Inputs}

(* main starts: the configuration is loaded.                               *)
Load(p) ==
    /\ Phase(p) = "down"
    /\ \E load \in Loads :
          process' = [process EXCEPT ![p] =
              IF load.ok THEN [phase |-> "loaded", config |-> load.config, next |-> 0]
              ELSE Down]
    /\ DatabaseUntouched

(* validate_for_server or validate_for_admin, then the constructors, in    *)
(* one machine state.  secure-admin constructs the Database only and looks *)
(* at no setting after that.                                               *)
Validate(p) ==
    /\ Phase(p) = "loaded"
    /\ \E host \in Hosts :
          LET config == process[p].config
              valid == IF p \in Servers THEN validate_for_server(config, host)
                       ELSE validate_for_admin(config, host)
              constructed == IF p \in Servers THEN Constructed(config, host)
                             ELSE DatabaseAccepts(config)
          IN  process' = [process EXCEPT ![p] =
                 IF ~valid THEN Down
                 ELSE [process[p] EXCEPT
                          !.phase = IF constructed THEN "constructed" ELSE "refused",
                          !.config = IF p \in Servers THEN @ ELSE Defaults]]
    /\ DatabaseUntouched

(* A constructor threw after validation had passed.                        *)
Refuse(p) == Phase(p) = "refused" /\ Fail(p)

(* CREATE TABLE IF NOT EXISTS schema_migrations, a statement of its own.   *)
CreateLedger(p) ==
    /\ Phase(p) = "constructed"
    /\ db.has_ledger \/ writer = None
    /\ db' = [db EXCEPT !.has_ledger = TRUE]
    /\ pending' = IF writer = None THEN db' ELSE pending
    /\ Goes(p, "prepared")
    /\ UNCHANGED <<writer, crashes>>

(* SELECT COALESCE(MAX(version), 0): the version of this moment.           *)
ReadVersion(p) ==
    /\ Phase(p) = "prepared"
    /\ process' = [process EXCEPT
          ![p].phase = "versioned",
          ![p].next = 1 + Max(db.ledger \cup {0})]
    /\ DatabaseUntouched

(* begin_transaction: BEGIN IMMEDIATE waits for the writer before it, up   *)
(* to the busy timeout.                                                    *)
BeginMigration(p) ==
    /\ Phase(p) = "versioned" /\ process[p].next \in Versions
    /\ writer = None
    /\ writer' = p
    /\ pending' = db
    /\ Goes(p, "begun")
    /\ UNCHANGED <<db, crashes>>

(* Mutant: the migration runs outside the transaction.                     *)
ExecuteSqlAtOnce(p) ==
    /\ Phase(p) = "begun"
    /\ SqlSucceeds(pending, process[p].next)
    /\ pending' = Migrate(pending, process[p].next)
    /\ db' = pending'
    /\ Goes(p, "executed")
    /\ UNCHANGED <<writer, crashes>>

(* Mutant: a process waits for the writer without end.                     *)
NoTimeout(p) == FALSE

(* The wait ends with SQLITE_BUSY, and so does the start.                  *)
BusyTimeout(p) ==
    /\ \/ Phase(p) = "constructed" /\ ~db.has_ledger
       \/ Phase(p) = "versioned" /\ process[p].next \in Versions
    /\ writer # None
    /\ Fail(p)

ExecuteSql(p) ==
    /\ Phase(p) = "begun"
    /\ SqlSucceeds(pending, process[p].next)
    /\ pending' = Migrate(pending, process[p].next)
    /\ Goes(p, "executed")
    /\ UNCHANGED <<db, writer, crashes>>

(* INSERT INTO schema_migrations: the version is the primary key.          *)
RecordVersion(p) ==
    /\ Phase(p) = "executed"
    /\ process[p].next \notin pending.ledger
    /\ pending' = [pending EXCEPT !.ledger = @ \cup {process[p].next}]
    /\ Goes(p, "recorded")
    /\ UNCHANGED <<db, writer, crashes>>

(* Another process has applied this version since ReadVersion.             *)
AlreadyMigrated(p) ==
    /\ \/ Phase(p) = "begun" /\ ~SqlSucceeds(pending, process[p].next)
       \/ Phase(p) = "executed" /\ process[p].next \in pending.ledger
    /\ Fail(p)

Commit(p) ==
    /\ Phase(p) = "recorded"
    /\ db' = pending
    /\ writer' = None
    /\ process' = [process EXCEPT ![p].phase = "versioned", ![p].next = @ + 1]
    /\ UNCHANGED <<pending, crashes>>

(* A server purges expired audit events, and starts also when that fails;  *)
(* secure-admin runs its command.                                          *)
FinishMigrations(p) ==
    /\ Phase(p) = "versioned" /\ process[p].next \notin Versions
    /\ \/ /\ writer = None /\ p \in Servers
          /\ db' = [db EXCEPT !.expired_events = FALSE]
          /\ pending' = db'
       \/ UNCHANGED <<db, pending>>
    /\ Goes(p, IF p \in Servers THEN "serving" ELSE "commanding")
    /\ UNCHANGED <<writer, crashes>>

(* Another error of SQLite, the disk for one, in a statement of the        *)
(* transaction.                                                            *)
StatementFails(p) ==
    /\ Phase(p) \in {"begun", "executed", "recorded"}
    /\ Fail(p)

(* A registration through a running server; the trigger gives the base     *)
(* role.                                                                   *)
Register(p, u) ==
    /\ Phase(p) = "serving" /\ process[p].config["registration_enabled"]
    /\ writer = None /\ u \notin DOMAIN db.users
    /\ db' = [db EXCEPT
          !.users = [x \in DOMAIN @ \cup {u} |-> IF x = u THEN "user" ELSE @[x]],
          !.user_roles = IF "assign_default_user_role" \in db.objects
                         THEN @ \cup {<<u, "user">>} ELSE @]
    /\ pending' = db'
    /\ UNCHANGED <<writer, process, crashes>>

(* The server has shut down, or the command of secure-admin is done.       *)
Stop(p) ==
    /\ Phase(p) \in {"serving", "commanding"}
    /\ process' = [process EXCEPT ![p] = Down]
    /\ DatabaseUntouched

(* The process dies; SQLite discards what it had not committed.            *)
Crash(p) ==
    /\ Phase(p) # "down" /\ crashes < MaxCrashes
    /\ crashes' = crashes + 1
    /\ process' = [process EXCEPT ![p] = Down]
    /\ IF writer = p THEN writer' = None /\ pending' = db
                     ELSE UNCHANGED <<writer, pending>>
    /\ UNCHANGED db

(* The steps of a process that has started, up to its work.                *)
Proceed(p) ==
    \/ Validate(p) \/ Refuse(p)
    \/ CreateLedger(p) \/ ReadVersion(p)
    \/ BeginMigration(p) \/ BusyTimeout(p)
    \/ ExecuteSql(p) \/ RecordVersion(p) \/ AlreadyMigrated(p) \/ Commit(p)
    \/ FinishMigrations(p)

Step(p) ==
    \/ Load(p)
    \/ Proceed(p)
    \/ StatementFails(p)
    \/ \E u \in Accounts : Register(p, u)
    \/ Stop(p)
    \/ Crash(p)

(* A database that an earlier release left at some version, or none.       *)
Databases ==
    UNION {
        {[has_ledger |-> version > 0, ledger |-> 1 .. version,
          objects |-> UNION {Creates[v] : v \in 1 .. version},
          users |-> users, sessions |-> sessions,
          families |-> IF version >= 4 THEN sessions ELSE {},
          user_roles |-> IF version < 5 THEN {} ELSE
              {<<u, "user">> : u \in DOMAIN users}
              \cup {<<u, "super_admin">> : u \in {x \in DOMAIN users : users[x] = "admin"}},
          expired_events |-> version >= 3] :
            users \in IF version = 0 THEN [{} -> {"user", "admin"}]
                      ELSE UNION {[S -> {"user", "admin"}] : S \in SUBSET Accounts},
            sessions \in IF version < 2 THEN {{}} ELSE SUBSET Accounts} :
        version \in {0} \cup Versions}

Init ==
    /\ db \in {d \in Databases : d.sessions \subseteq DOMAIN d.users}
    /\ writer = None
    /\ pending = db
    /\ process = [p \in Processes |-> Down]
    /\ crashes = 0

Next == \E p \in Processes : Step(p)

Spec == Init /\ [][Next]_vars

(* A started process is scheduled; nobody need start one.                  *)
FairSpec == Spec /\ \A p \in Processes : WF_vars(Proceed(p))

-----------------------------------------------------------------------------
(* Properties.                                                             *)

(* The committed schema is that of the versions the ledger lists, which    *)
(* have no gap, whatever processes migrate at once and whenever they die.  *)
(* With version 4 every session has a family; with 5 every user has the    *)
(* base role and every administrator super_admin.  A server serves only on *)
(* the whole schema.                                                       *)
SchemaMatchesLedger ==
    /\ db.ledger = 1 .. Cardinality(db.ledger)
    /\ db.objects = UNION {Creates[v] : v \in db.ledger}
    /\ 4 \in db.ledger => db.families = db.sessions
    /\ 5 \in db.ledger => \A u \in DOMAIN db.users :
           /\ <<u, "user">> \in db.user_roles
           /\ db.users[u] = "admin" => <<u, "super_admin">> \in db.user_roles
    /\ \A p \in Processes : Phase(p) \in {"serving", "commanding"} => db.ledger = Versions

(* The constructors look at the settings again, each in its own words.  A  *)
(* configuration that validation has passed is refused by none of them     *)
(* but CorsPolicy (an origin given twice or with a control character), the *)
(* TLS context (the files' contents) and the listener (the address, the    *)
(* port).                                                                  *)
ValidatedIsAccepted ==
    \A p \in Servers : Phase(p) \in {"constructed", "refused"} =>
        LET config == process[p].config
        IN  /\ RateLimiterAccepts(config)
            /\ TrustedProxyAccepts(config)
            /\ DatabaseAccepts(config)
            /\ AbuseProtectorAccepts(config)
            /\ WorkerPoolAccepts(config)

(* A process that has started does not hang: it goes to work or ends, also *)
(* when another migrates the same database.                                *)
StartupEnds ==
    \A p \in Processes :
        Phase(p) = "loaded" ~> Phase(p) \in {"serving", "commanding", "down"}
=============================================================================
