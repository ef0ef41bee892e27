------------------------------- MODULE Migrations -----------------------------
(***************************************************************************)
(* Schema migrations (heatgrid-db-migrate) and the check a server makes    *)
(* before it serves.  migrate_database works behind one advisory lock and  *)
(* commits one migration at a time, so a migrator may end after any of     *)
(* them; another release of the code may run against the same database.    *)
(***************************************************************************)
EXTENDS Integers, FiniteSets

CONSTANTS
  Migrators, Servers,  \* processes
  Release,             \* Release[p]: the last migration the code of p knows
  Databases,           \* what may be there at first: "empty", "legacy", "released", "lineage"
  MaxFailures          \* bound: migrators that end early

(* The releases before and after the renumbering.                          *)
ASSUME MigrationsAssumption ==
  /\ Release \in [Migrators \cup Servers -> {18, 22}]
  /\ Databases \subseteq {"empty", "legacy", "released", "lineage"} /\ MaxFailures \in Nat

Baselined == 1..5   \* the versions a schema older than the ledger may have
Checkpoint == 4     \* the version that sets up LangGraph's tables
Older == 18         \* the last version before the renumbering
Lineage == 19..21   \* versions that had other names before it

VARIABLES
  ledger,    \* schema_migrations: ledger[v] = [name, manifest, signature]
  schema,    \* the versions whose objects are in the database
  lock,      \* the advisory lock: the migrators that hold it
  migrator,  \* migrator[m]: where it is
  server,    \* server[s]: where its check is, and the contract it saw
  failures   \* migrators that have ended early

migrationVars == <<ledger, schema, lock, migrator, server, failures>>

Applied == DOMAIN ledger
Tables == -1         \* stands for the tables that its setup makes
Unsigned == {-2}    \* no signatures
(* name: the version by whose name and checksum the row was written.       *)
Row(name, manifest, signature) ==
  [name |-> name, manifest |-> manifest, signature |-> signature]
Insert(v, row) == [w \in Applied \cup {v} |-> IF w = v THEN row ELSE ledger[w]]

Outside == [step |-> "idle", existing |-> FALSE, next |-> 1]
NotStarted == [step |-> "idle", saw |-> {}]

Built == 0..Older \cup {Tables}
Initially(db) ==
  CASE db = "empty"    -> schema = {} /\ ledger = [v \in {} |-> {}]
    [] db = "legacy"   -> \E last \in Baselined :
                            schema = 1..last /\ ledger = [v \in {} |-> {}]
    [] db = "released" -> schema = Built /\ ledger = [v \in 0..Older |-> Row(v, Older, Built)]
    [] db = "lineage"  -> \E last \in Lineage :
         /\ schema = Built \cup 20..last + 1
         /\ ledger = [v \in 0..last |-> Row(IF v > Older THEN v + 1 ELSE v, last, Unsigned)]

MigrationInit ==
  /\ \E db \in Databases : Initially(db)
  /\ lock = {} /\ failures = 0
  /\ migrator = [m \in Migrators |-> Outside]
  /\ server = [s \in Servers |-> NotStarted]
-----------------------------------------------------------------------------
MigratorAt(m, step) == migrator[m].step = step
Goto(m, step) == migrator' = [migrator EXCEPT ![m].step = step]
(* An error, or the end of the process, releases the lock and undoes the   *)
(* open transaction.                                                       *)
MigratorEnds(m) ==
  /\ lock' = lock \ {m}
  /\ migrator' = [migrator EXCEPT ![m] = Outside]

(* Seeded fault: pg_try_advisory_lock, and its answer is ignored.          *)
AnyLock == TRUE
Unlocked == lock = {}
(* pg_advisory_lock, then _has_existing_application_schema.                *)
BeginMigration(m) ==
  /\ MigratorAt(m, "idle") /\ Unlocked
  /\ lock' = lock \cup {m}
  /\ migrator' = [migrator EXCEPT ![m] =
       [step |-> "first", existing |-> schema \cap {1, 2} # {}, next |-> 1]]
  /\ UNCHANGED <<ledger, schema, server, failures>>

(* _apply_migration: the script, the signatures and the row commit at once.*)
ApplyMigration(m, v) ==
  /\ schema' = schema \cup {v}
  /\ ledger' = Insert(v, Row(v, Release[m], schema'))

FirstMigration(m) ==
  /\ MigratorAt(m, "first")
  /\ IF 0 \in Applied THEN UNCHANGED <<ledger, schema>> ELSE ApplyMigration(m, 0)
  /\ Goto(m, "reconcile")
  /\ UNCHANGED <<lock, server, failures>>

(* The rows 19 to 21 of the other lineage become 20 to 22, and the script  *)
(* 19 is run; the rows have no signatures.                                 *)
Renamed == {v \in Applied \cap Lineage : ledger[v].name = v + 1}
Reconcile(m) ==
  /\ MigratorAt(m, "reconcile")
  /\ IF Renamed = {} \/ Release[m] < 22
     THEN UNCHANGED <<ledger, schema>>
     ELSE /\ schema' = schema \cup {19}
          /\ ledger' = [v \in Applied \cup {19} \cup {w + 1 : w \in Renamed} |->
                          IF v > Older THEN Row(v, Release[m], Unsigned) ELSE ledger[v]]
  /\ Goto(m, "checksums")
  /\ UNCHANGED <<lock, server, failures>>

(* _assert_applied_checksums                                               *)
KnownTo(p) == \A v \in Applied : v <= Release[p] /\ ledger[v].name = v

Checksums(m) ==
  /\ MigratorAt(m, "checksums")
  /\ IF KnownTo(m)
     THEN Goto(m, IF migrator[m].existing THEN "baseline" ELSE "execute") /\ UNCHANGED lock
     ELSE MigratorEnds(m)
  /\ UNCHANGED <<ledger, schema, server, failures>>

(* _baseline_legacy_schema: a version without a row must have its tables;  *)
(* it gets a row without signatures, the checkpoint version after setup(). *)
Baseline(m) ==
  /\ MigratorAt(m, "baseline")
  /\ IF Baselined \subseteq Applied
     THEN Goto(m, "execute") /\ UNCHANGED <<ledger, schema, lock>>
     ELSE LET v == CHOOSE v \in Baselined \ Applied :
                     \A w \in Baselined \ Applied : v <= w
          IN IF v \in schema
             THEN /\ IF v = Checkpoint /\ Tables \notin schema
                     THEN schema' = schema \cup {Tables} /\ UNCHANGED ledger
                     ELSE ledger' = Insert(v, Row(v, Release[m], Unsigned)) /\ UNCHANGED schema
                  /\ UNCHANGED <<lock, migrator>>
             ELSE MigratorEnds(m) /\ UNCHANGED <<ledger, schema>>
  /\ UNCHANGED <<server, failures>>

Advance(m) == migrator' = [migrator EXCEPT ![m].step = "execute", ![m].next = @ + 1]
Pending(m) == MigratorAt(m, "execute") /\ migrator[m].next <= Release[m]

Skip(m) ==
  /\ Pending(m) /\ migrator[m].next \in Applied
  /\ Advance(m)
  /\ UNCHANGED <<ledger, schema, lock, server, failures>>

Execute(m) ==
  /\ Pending(m) /\ migrator[m].next \notin Applied \cup {Checkpoint}
  /\ ApplyMigration(m, migrator[m].next)
  /\ Advance(m)
  /\ UNCHANGED <<lock, server, failures>>

(* _apply_checkpoint_migration: the script, LangGraph's own setup and the  *)
(* row are transactions of their own.                                      *)
CheckpointScript(m) ==
  /\ Pending(m) /\ migrator[m].next = Checkpoint /\ Checkpoint \notin Applied
  /\ schema' = schema \cup {Checkpoint}
  /\ Goto(m, "setup")
  /\ UNCHANGED <<ledger, lock, server, failures>>

CheckpointRow(m) == ledger' = Insert(Checkpoint, Row(Checkpoint, Release[m], schema'))
(* Seeded fault: the row is written without the tables.                    *)
RowFirst(m) ==
  /\ MigratorAt(m, "setup") /\ schema' = schema /\ CheckpointRow(m) /\ Goto(m, "row")
  /\ UNCHANGED <<lock, server, failures>>
SetUp(m) ==
  /\ MigratorAt(m, "setup") /\ schema' = schema \cup {Tables} /\ Goto(m, "row")
  /\ UNCHANGED <<ledger, lock, server, failures>>

WriteRow(m) ==
  /\ MigratorAt(m, "row") /\ schema' = schema /\ CheckpointRow(m) /\ Advance(m)
  /\ UNCHANGED <<lock, server, failures>>

(* _refresh_latest_contract                                                *)
RefreshedContract(m) ==
  [ledger EXCEPT ![Release[m]] = Row(Release[m], Release[m], schema)]

(* _verify_application_catalog: which tables there must be, and that there *)
(* are no others, differs between releases by versions 11, 16 and 20.      *)
Catalogued(m) == schema \cap {11, 16, 20} = (0..Release[m]) \cap {11, 16, 20}

FinishMigration(m) ==
  /\ MigratorAt(m, "execute") /\ ~Pending(m)
  /\ IF KnownTo(m) /\ Catalogued(m)
     THEN /\ ledger' = RefreshedContract(m)
          /\ lock' = lock \ {m}
          /\ migrator' = [migrator EXCEPT ![m] = [Outside EXCEPT !.step = "done"]]
     ELSE MigratorEnds(m) /\ UNCHANGED ledger
  /\ UNCHANGED <<schema, server, failures>>

FailMigrator(m) ==
  /\ m \in lock /\ failures < MaxFailures
  /\ failures' = failures + 1
  /\ MigratorEnds(m)
  /\ UNCHANGED <<ledger, schema, server>>
-----------------------------------------------------------------------------
Newest == CHOOSE v \in Applied : \A w \in Applied : w <= v

(* verify_database_contract reads the names and checksums ...              *)
CheckNames(s) ==
  /\ server[s].step = "idle" /\ Applied # {} /\ KnownTo(s)
  /\ server' = [server EXCEPT ![s].step = "names"]
  /\ UNCHANGED <<ledger, schema, lock, migrator, failures>>

(* ... then the last row; a server that fails a check may start again ...  *)
CheckLedger(s) ==
  /\ server[s].step = "names"
  /\ Newest = Release[s] /\ ledger[Newest].manifest = Release[s]
  /\ server' = [server EXCEPT ![s] =
       [step |-> "compare", saw |-> ledger[Newest].signature]]
  /\ UNCHANGED <<ledger, schema, lock, migrator, failures>>

SameContract(s) == server[s].saw = schema

(* ... and then the catalog, all of it outside the lock.                   *)
CheckSchema(s) ==
  /\ server[s].step = "compare"
  /\ server' = [server EXCEPT ![s] =
       IF SameContract(s) THEN [step |-> "passed", saw |-> schema] ELSE NotStarted]
  /\ UNCHANGED <<ledger, schema, lock, migrator, failures>>

MigrationNext ==
  \/ \E m \in Migrators :
       \/ BeginMigration(m) \/ FirstMigration(m) \/ Reconcile(m) \/ Checksums(m) \/ Baseline(m)
       \/ Skip(m) \/ Execute(m) \/ CheckpointScript(m) \/ SetUp(m) \/ WriteRow(m)
       \/ FinishMigration(m) \/ FailMigrator(m)
  \/ \E s \in Servers : CheckNames(s) \/ CheckLedger(s) \/ CheckSchema(s)

MigrationSpec == MigrationInit /\ [][MigrationNext]_migrationVars
-----------------------------------------------------------------------------
Complete(last) == 0..last \cup {Tables}

MigrationTypeOK ==
  /\ Applied \subseteq 0..22 /\ schema \subseteq Complete(22)
  /\ Cardinality(lock) <= 1 /\ lock \subseteq Migrators
  /\ \A m \in Migrators :
       (m \notin lock) <=> (migrator[m].step \in {"idle", "done"})
  /\ failures \in 0..MaxFailures

(* Where a migrator has come to its end, and no other works, a server of   *)
(* its release starts: also after a legacy schema was taken over, after    *)
(* the renumbering, and after migrators that ended early.                  *)
MigratedIsServable ==
  \A m \in Migrators :
    migrator[m].step = "done" /\ (\A n \in Migrators : Release[n] <= Release[m]) =>
      /\ Newest = Release[m] /\ KnownTo(m)
      /\ ledger[Newest] = Row(Release[m], Release[m], schema)

(* A version whose row is there is in the database.                        *)
RowsAreTrue ==
  \A v \in Applied :
    /\ v > 0 => ledger[v].name \in schema
    /\ v = Checkpoint => Tables \in schema

(* A server begins to serve only on the whole schema of its own release,   *)
(* also while a migrator of this or another release is at work.            *)
ServesItsOwnSchema ==
  \A s \in Servers : server[s].step = "passed" => server[s].saw = Complete(Release[s])

(* A row of the ledger says what is in the database, wherever migrators    *)
(* were stopped: a version's row is only there with its objects, and the   *)
(* last row with the whole contract where a migrator has finished; and a   *)
(* server that finds its release's contract there serves what it knows.    *)
LedgerIsTrue == RowsAreTrue /\ MigratedIsServable /\ ServesItsOwnSchema
=============================================================================
