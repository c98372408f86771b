----------------------------- MODULE Databases -----------------------------
(***************************************************************************)
(* The databases of one PostgreSQL server, the migrator and the probes     *)
(* that ask whether a database is what a build needs.                      *)
(*                                                                         *)
(* The migrations are 1..Top; number 0 is the table schema_migrations.  A  *)
(* build carries the files 1..n with their checksums, and its manifest     *)
(* requires them all.  The migrator (migrator.ts, migrate.mjs and          *)
(* pg-verify.mjs hold the same one) applies a file, which commits by       *)
(* itself, and inserts its row in the ledger by another statement.         *)
(*                                                                         *)
(* A script is a process with a plan, a sequence of tasks; it may be       *)
(* killed between any two statements, and any statement may fail.          *)
(***************************************************************************)
EXTENDS Naturals, Sequences, FiniteSets

CONSTANTS
  Meetings,  \* sets of scripts that may be run at once: records id, plan, key,
             \* production, frail
  Top,       \* the newest migration
  Storage,   \* the migration that makes knowledge_content
  Checksum,  \* of the text of a file
  AtStart    \* the databases there are before any script runs

ASSUME VersionsAssumption == Top \in Nat /\ Top >= 1 /\ Storage \in 1..Top

Version == 1..Top
Table == 0..Top
NoLedger == [v \in {} |-> 0]
Ledger == UNION {[S -> Checksum] : S \in SUBSET Version}
Joined(f, g) == [x \in DOMAIN f \cup DOMAIN g |-> IF x \in DOMAIN f THEN f[x] ELSE g[x]]

\* Who creates a database or leaves rows in one.
Origin ==
  {"nobody"} \cup {p.id : p \in UNION Meetings}
  \cup UNION {{AtStart[n].by} \cup AtStart[n].rows : n \in DOMAIN AtStart}
Database ==
  [tables: SUBSET Table, guards: SUBSET Version, ledger: Ledger, rows: SUBSET Origin, by: Origin]

\* The ledger names only migrations whose tables are there, and lacks at most one.
Follows(d) ==
  /\ DOMAIN d.ledger \subseteq d.tables
  /\ \A v, w \in (d.tables \ {0}) \ DOMAIN d.ledger : v = w
\* A file needs the tables of those before it.
InOrder(d) == \A v \in d.tables : 1..v \subseteq d.tables

\* What there is at the start is as migrators leave it.
ASSUME StartAssumption ==
  /\ AtStart \in [DOMAIN AtStart -> Database]
  /\ \A n \in DOMAIN AtStart :
       /\ Follows(AtStart[n]) /\ InOrder(AtStart[n])
       /\ AtStart[n].rows # {} => AtStart[n].tables # {}
       /\ AtStart[n].by # "nobody"

\* A script goes on, never back; an instance has one database and one build.
ASSUME PlanAssumption ==
  \A M \in Meetings : \A p \in M :
    /\ Len(p.plan) \in Nat
    /\ \A i \in 1..Len(p.plan) :
         /\ p.plan[i].orElse \in {0} \cup (i + 1)..Len(p.plan)
         /\ \E k \in 0..Top : p.plan[i].build \in [1..k -> Checksum]
    /\ \A i, j \in 1..Len(p.plan) :
         p.plan[i].do = "ready" /\ p.plan[j].do = "ready" =>
           p.plan[i].on = p.plan[j].on /\ p.plan[i].build = p.plan[j].build

VARIABLES
  db,      \* db[n], of the databases n there are: tables, guards, ledger, rows, by
  at,      \* at[p]: the task of its plan that p is at
  phase,   \* phase[p]: the statement of that task
  mem,     \* mem[p]: what p keeps in memory: file, skipped, pending, bad, ...
  failed   \* failed[p]: p's exit code will not be 0

serverVars == <<db, at, phase, mem, failed>>

Proc == DOMAIN at

\* A database as CREATE DATABASE leaves it.  guards are the triggers of a migration,
\* rows the origins of its data, by (history) who created it.
Empty(p) == [tables |-> {}, guards |-> {}, ledger |-> NoLedger, rows |-> {}, by |-> p]

Checks == {"database", "migrations", "file-storage"}
Phases ==
  {"start", "lookup", "apply", "record", "checks", "create", "clean", "tables", "rows", "guards",
   "verify", "severed"}

\* file, skipped, applied: the migrator; pending, bad, ready: readiness; lost: a statement of
\* its has failed; the rest is that of the scripts of Releases.
Forgotten ==
  [file |-> 1, skipped |-> FALSE, applied |-> FALSE, pending |-> {}, bad |-> FALSE, ready |-> "no",
   lost |-> FALSE, created |-> FALSE, errors |-> FALSE, used |-> {},
   dump |-> Empty("nobody"), copy |-> Empty("nobody"), shape |-> Empty("nobody")]
Memory ==
  [file: Nat \ {0}, skipped: BOOLEAN, applied: BOOLEAN, pending: SUBSET Checks, bad: BOOLEAN,
   ready: {"no", "yes", "withdrawn"}, lost: BOOLEAN, created: BOOLEAN, errors: BOOLEAN,
   used: SUBSET Origin, dump: Database, copy: Database, shape: Database]

ServerInit ==
  /\ db = AtStart
  /\ \E M \in Meetings : at = [p \in M |-> 1]
  /\ phase = [p \in Proc |-> "start"]
  /\ mem = [p \in Proc |-> Forgotten]
  /\ failed = [p \in Proc |-> FALSE]

Task(p) == p.plan[at[p]]
On(p) == Task(p).on
Build(p) == Task(p).build
Running(p) == at[p] \in 1..Len(p.plan)
Doing(p, what, step) == Running(p) /\ Task(p).do = what /\ phase[p] = step
Exists(n) == n \in DOMAIN db

\* Where p goes on: what throws in a gate ends the gate, elsewhere the script (0),
\* except for what stands in a finally.
After(p, ok) ==
  IF ok THEN at[p] + 1
  ELSE IF Task(p).orElse = 0 THEN Len(p.plan) + 1 ELSE Task(p).orElse

EndTask(p, ok) ==
  /\ at' = [at EXCEPT ![p] = After(p, ok)]
  /\ phase' = [phase EXCEPT ![p] = "start"]
  /\ failed' = [failed EXCEPT ![p] = @ \/ ~ok]

\* A result that is recorded, good or bad, and the next gate runs.
Verdict(p, ok) ==
  /\ at' = [at EXCEPT ![p] = @ + 1]
  /\ phase' = [phase EXCEPT ![p] = "start"]
  /\ failed' = [failed EXCEPT ![p] = @ \/ ~ok]

Goto(p, step) == phase' = [phase EXCEPT ![p] = step] /\ UNCHANGED <<at, failed>>

\* A frail script meets one fault at most, the others none (bound).
MayFail(p) == p.frail /\ ~mem[p].lost

\* The statement p is at fails: the connection, the disk, a tool, a missing database.
Fail(p) ==
  /\ Running(p) /\ Task(p).do \notin {"ready", "cleanup"} /\ MayFail(p)
  /\ EndTask(p, FALSE)
  /\ mem' = [mem EXCEPT ![p].lost = TRUE]
  /\ UNCHANGED db

\* p is killed.
Kill(p) ==
  /\ Running(p) /\ MayFail(p)
  /\ at' = [at EXCEPT ![p] = Len(p.plan) + 1]
  /\ failed' = [failed EXCEPT ![p] = TRUE]
  /\ mem' = [mem EXCEPT ![p].lost = TRUE]
  /\ UNCHANGED <<db, phase>>

-----------------------------------------------------------------------------
(* The migrator.                                                           *)

CreateLedger(p) ==
  /\ Doing(p, "migrate", "start") /\ Exists(On(p))
  /\ db' = [db EXCEPT ![On(p)].tables = @ \cup {0}]
  /\ mem' = [mem EXCEPT ![p].file = 1, ![p].skipped = FALSE, ![p].applied = FALSE,
                          ![p].used = @ \cup {db[On(p)].by}]
  /\ Goto(p, "lookup")

\* A modified file stops the run, a recorded one is skipped.
Lookup(p) ==
  LET v == mem[p].file
      row == db[On(p)].ledger IN
  /\ Doing(p, "migrate", "lookup") /\ Exists(On(p))
  /\ v \in DOMAIN Build(p)
  /\ \/ /\ v \in DOMAIN row /\ row[v] # Build(p)[v]
        /\ EndTask(p, FALSE)
        /\ UNCHANGED mem
     \/ /\ v \in DOMAIN row /\ row[v] = Build(p)[v]
        /\ mem' = [mem EXCEPT ![p].file = v + 1, ![p].skipped = TRUE]
        /\ UNCHANGED <<at, phase, failed>>
     \/ /\ v \notin DOMAIN row
        /\ Goto(p, "apply")
        /\ UNCHANGED mem
  /\ UNCHANGED db

\* All files are done.  Some gates want them all to have been new, or none.
Done(p) ==
  /\ Doing(p, "migrate", "lookup")
  /\ mem[p].file \notin DOMAIN Build(p)
  /\ EndTask(p, CASE Task(p).want = "allNew" -> ~mem[p].skipped
                  [] Task(p).want = "noneNew" -> ~mem[p].applied
                  [] OTHER -> TRUE)
  /\ UNCHANGED <<db, mem>>

\* Mutant: a file that fails is left out and the run goes on (no ON_ERROR_STOP).
ApplySkipping(p) ==
  LET v == mem[p].file
      n == On(p) IN
  /\ Doing(p, "migrate", "apply") /\ Exists(n)
  /\ IF v \notin db[n].tables /\ 1..v - 1 \subseteq db[n].tables
     THEN /\ db' = [db EXCEPT ![n].tables = @ \cup {v}, ![n].guards = @ \cup {v}]
          /\ Goto(p, "record") /\ UNCHANGED mem
     ELSE Goto(p, "lookup") /\ UNCHANGED db /\ mem' = [mem EXCEPT ![p].file = v + 1]

\* The file's own transaction: it fails on what exists and on what it needs.
Apply(p) ==
  LET v == mem[p].file IN
  /\ Doing(p, "migrate", "apply") /\ Exists(On(p))
  /\ IF v \notin db[On(p)].tables /\ 1..v - 1 \subseteq db[On(p)].tables
     THEN /\ db' = [db EXCEPT ![On(p)].tables = @ \cup {v}, ![On(p)].guards = @ \cup {v}]
          /\ Goto(p, "record")
     ELSE EndTask(p, FALSE) /\ UNCHANGED db
  /\ UNCHANGED mem

\* The ledger's row, a statement of its own.
RecordFile(p) ==
  LET v == mem[p].file IN
  /\ Doing(p, "migrate", "record") /\ Exists(On(p))
  /\ IF 0 \in db[On(p)].tables /\ v \notin DOMAIN db[On(p)].ledger
     THEN /\ db' = [db EXCEPT ![On(p)].ledger = Joined(@, [w \in {v} |-> Build(p)[w]])]
          /\ mem' = [mem EXCEPT ![p].file = v + 1, ![p].applied = TRUE]
          /\ Goto(p, "lookup")
     ELSE EndTask(p, FALSE) /\ UNCHANGED <<db, mem>>

Migrate(p) == CreateLedger(p) \/ Lookup(p) \/ Done(p) \/ Apply(p) \/ RecordFile(p)

-----------------------------------------------------------------------------
(* Readiness and the preflights.                                           *)

\* Mutant: a database that is ahead of the build is not ready.
MigrationsReadyExact(build, n) ==
  0 \in db[n].tables /\ DOMAIN build = DOMAIN db[n].ledger

\* evaluateMigrationReadiness: a floor, so that a newer database is ready too.
MigrationsReady(build, n) ==
  0 \in db[n].tables /\ DOMAIN build \subseteq DOMAIN db[n].ledger

\* A missing signing key blocks, a placeholder or a short one only in production.
KeyPasses(p) == p.key = "strong" \/ (p.key = "weak" /\ ~p.production)

\* GET /api/health/ready: three checks run at once, each with its own statement.
Ask(p) ==
  /\ Doing(p, "ready", "start")
  /\ mem' = [mem EXCEPT ![p].pending = Checks, ![p].bad = FALSE]
  /\ Goto(p, "checks")
  /\ UNCHANGED db

Passes(p, check) ==
  CASE check = "database" -> TRUE
    [] check = "migrations" -> MigrationsReady(Build(p), On(p))
    [] check = "file-storage" -> Storage \in db[On(p)].tables

Check(p) ==
  /\ Doing(p, "ready", "checks")
  /\ \E check \in mem[p].pending :
       mem' = [mem EXCEPT ![p].pending = @ \ {check},
                          ![p].bad = @ \/ ~Exists(On(p)) \/ ~Passes(p, check)]
  /\ UNCHANGED <<db, at, phase, failed>>

\* A check whose query throws is a FAIL, and every check is a blocker.
CheckThrows(p) ==
  /\ Doing(p, "ready", "checks") /\ mem[p].pending # {} /\ MayFail(p)
  /\ mem' = [mem EXCEPT ![p].pending = {}, ![p].bad = TRUE, ![p].lost = TRUE]
  /\ UNCHANGED <<db, at, phase, failed>>

Answer(p) ==
  LET ok == KeyPasses(p) /\ ~mem[p].bad IN
  /\ Doing(p, "ready", "checks") /\ mem[p].pending = {}
  /\ mem' = [mem EXCEPT ![p].ready =
       IF ok THEN "yes" ELSE IF @ = "no" THEN "no" ELSE "withdrawn"]
  /\ EndTask(p, TRUE)
  /\ UNCHANGED db

Ready(p) == Ask(p) \/ Check(p) \/ CheckThrows(p) \/ Answer(p)

-----------------------------------------------------------------------------

MigrationStep(p) == Migrate(p) \/ Ready(p) \/ Fail(p) \/ Kill(p)

MigrationNext == \E p \in Proc : MigrationStep(p)
MigrationSpec == ServerInit /\ [][MigrationNext]_serverVars

-----------------------------------------------------------------------------
(* Properties.                                                             *)

ServerTypeOK ==
  /\ Proc \in Meetings
  /\ at \in [Proc -> Nat \ {0}] /\ \A p \in Proc : at[p] <= Len(p.plan) + 1
  /\ phase \in [Proc -> Phases]
  /\ mem \in [Proc -> Memory]
  /\ failed \in [Proc -> BOOLEAN]
  /\ db \in [DOMAIN db -> Database]

\* p's task i drops n or restores into it.
Replaces(p, i, n) ==
  /\ n \in {p.plan[i].on, p.plan[i].other}
  /\ p.plan[i].do \in {"absent", "drop", "recreate", "restore", "cleanup"}

\* It has done so, or is about to.
Disturbed(n) == \E p \in Proc : \E i \in 1..Len(p.plan) : i <= at[p] /\ Replaces(p, i, n)

\* Whatever is interrupted, killed or run twice at once: a database's ledger names
\* only migrations whose tables are there, and lacks at most one of those.
LedgerFollowsSchema ==
  /\ ServerTypeOK
  /\ \A n \in DOMAIN db : ~Disturbed(n) => Follows(db[n])

\* An instance is called ready only of a database with all the tables of its build,
\* and one that was ready is not taken out by newer migrations being applied while it
\* runs: only by an error or by its database being replaced.
ReadyIsTrue ==
  \A p \in Proc : \A i \in 1..Len(p.plan) :
    LET n == p.plan[i].on IN
    p.plan[i].do = "ready" /\ ~Disturbed(n) =>
      /\ mem[p].ready = "yes" => Exists(n) /\ DOMAIN p.plan[i].build \subseteq db[n].tables
      /\ mem[p].ready = "withdrawn" => mem[p].lost
=============================================================================
