----------------------------- MODULE Migrator -----------------------------
(***************************************************************************)
(* scripts/migrate.mjs, which the container runs before its server (the    *)
(* CMD of the Dockerfile) and an operator runs with npm run db:migrate, so *)
(* that several of them may migrate one database at the same time.         *)
(*                                                                         *)
(* A file is applied in one transaction with its row in _migrations.  Two  *)
(* transactions that apply one file collide, on what the file creates or   *)
(* on the primary key of the row: the second waits for the first and then  *)
(* fails, so one step stands for the transaction.                          *)
(***************************************************************************)
EXTENDS Naturals, FiniteSets, Sequences, SequencesExt

CONSTANTS
  Migrators,   \* processes that migrate and then, if they are servers, serve
  Files,       \* the files of migrations/, in the order of their names
  MaxCrashes   \* bound: failures and restarts other than by a collision

ASSUME MigratorAssumption ==
  /\ Files \in Seq(STRING)
  /\ IsInjective(Files)
  /\ MaxCrashes \in Nat

VARIABLES
  process,  \* migrator -> "down", "migrating" or "up", and the ledger it has read
  ledger,   \* _migrations
  schema,   \* history: the files whose statements took effect, in that order
  crashes

migratorVars == << process, ledger, schema, crashes >>

Down == [ pc |-> "down", applied |-> {} ]

MigratorInit ==
  /\ process = [ p \in Migrators |-> Down ]
  /\ ledger  = {}
  /\ schema  = << >>
  /\ crashes = 0

\* Fault: the server is started beside the script.
UpAtOnce(p) == process[p].pc # "down"

\* node scripts/migrate.mjs && node .output/server/index.mjs
Up(p) == process[p].pc = "up"

\* SELECT name FROM _migrations, by a process that has just been started.
ReadLedger(p) ==
  /\ process[p] = Down
  /\ process' = [ process EXCEPT ![p] = [ pc |-> "migrating", applied |-> ledger ] ]
  /\ UNCHANGED << ledger, schema, crashes >>

\* Without DATABASE_URL there is nothing to migrate.
SkipMigration(p) ==
  /\ process[p] = Down
  /\ process' = [ process EXCEPT ![p].pc = "up" ]
  /\ UNCHANGED << ledger, schema, crashes >>

\* A DATABASE_URL of blanks is an address to the script, if to nobody else: it
\* cannot connect and exits with 1, every time it is started.
FailToConnect(p) == process[p] = Down /\ UNCHANGED migratorVars

\* Fault: a file that another process has applied meanwhile is applied again.
NotSeenApplied(p, file) == file \notin process[p].applied

NotApplied(p, file) == file \notin ledger

\* Fault: what has been applied is not looked at.
AllMigrations(applied) == DOMAIN Files

pendingMigrations(applied) == { i \in DOMAIN Files : Files[i] \notin applied }

First(indices) == Files[CHOOSE i \in indices : \A j \in indices : i <= j]

\* One file of the loop: applied and recorded, or rolled back, and then the
\* script exits with 1.  A container is then started again (restart: unless-stopped);
\* an operator may run the script again, or not.
ApplyFile(p) ==
  LET pending == pendingMigrations(process[p].applied)  file == First(pending)
  IN  /\ process[p].pc = "migrating"
      /\ pending # {}
      /\ \/ /\ NotApplied(p, file)
            /\ ledger' = ledger \cup { file }
            /\ schema' = Append(schema, file)
            /\ process' = [ process EXCEPT ![p].applied = @ \cup { file } ]
         \/ /\ ~NotApplied(p, file)
            /\ process' = [ process EXCEPT ![p] = Down ]
            /\ UNCHANGED << ledger, schema >>
      /\ UNCHANGED crashes

FinishMigration(p) ==
  /\ process[p].pc = "migrating"
  /\ pendingMigrations(process[p].applied) = {}
  /\ process' = [ process EXCEPT ![p].pc = "up" ]
  /\ UNCHANGED << ledger, schema, crashes >>

\* The process dies, before or after a commit.
CrashProcess(p) ==
  /\ process[p] # Down
  /\ crashes < MaxCrashes
  /\ crashes' = crashes + 1
  /\ process' = [ process EXCEPT ![p] = Down ]
  /\ UNCHANGED << ledger, schema >>

Migrate(p) == ReadLedger(p) \/ ApplyFile(p) \/ FinishMigration(p)

-----------------------------------------------------------------------------

MigratorTypeOK ==
  /\ process \in [ Migrators -> [ pc : { "down", "migrating", "up" }, applied : SUBSET ToSet(Files) ] ]
  /\ ledger \subseteq ToSet(Files)
  /\ schema \in Seq(ToSet(Files))
  /\ crashes \in 0 .. MaxCrashes

\* However many processes migrate at once, and wherever they die: each file
\* took effect once, in the order of the names and without a gap, and the
\* ledger lists exactly those.
MigratedOnce == IsPrefix(schema, Files) /\ ledger = ToSet(schema)
=============================================================================
