------------------------------ MODULE Releases ------------------------------
(***************************************************************************)
(* The scripts that release and safeguard a database: backup, restore, the *)
(* backup and restore gate of CI, the creation of its isolated databases   *)
(* and the gates on them, the canonical verification and the audit that    *)
(* runs the gates in rounds of fresh databases.  They share a server with  *)
(* one another and with the migrators and instances of Databases, and do   *)
(* not know of one another.                                                *)
(*                                                                         *)
(* The plans at the end are the scripts' main functions.  A dump is a      *)
(* consistent snapshot; pg_restore is not one transaction: it makes the    *)
(* tables, then fills them, then makes their triggers, goes on after an    *)
(* error and exits with 1.  DROP DATABASE ... WITH (FORCE) ends the        *)
(* sessions of others.                                                     *)
(***************************************************************************)
EXTENDS Databases

CONSTANT Protected   \* the names that look like production or recovery databases

\* The sessions on the databases names are gone; an instance opens new ones, and
\* CREATE DATABASE has its session elsewhere.
Severed(p, names) ==
  [q \in Proc |->
     IF q # p /\ Running(q) /\ On(q) \in names /\ Task(q).do # "ready"
        /\ phase[q] \notin {"start", "create"}
     THEN "severed" ELSE phase[q]]

Without(names) == [n \in DOMAIN db \ names |-> db[n]]
With(n, who) == Joined(db, [m \in {n} |-> Empty(who)])
Use(p) == [mem EXCEPT ![p].used = @ \cup {db[On(p)].by}]

\* DROP DATABASE IF EXISTS ... WITH (FORCE), the whole of a task.
DropThen(p, names, ok) ==
  /\ db' = Without(names)
  /\ at' = [at EXCEPT ![p] = @ + 1]
  /\ phase' = [Severed(p, names) EXCEPT ![p] = "start"]
  /\ failed' = [failed EXCEPT ![p] = @ \/ ~ok]
  /\ UNCHANGED mem

-----------------------------------------------------------------------------
(* Backup and restore.                                                     *)

Backup(p) ==
  /\ Doing(p, "backup", "start") /\ Exists(On(p))
  /\ IF On(p) \in Protected
     THEN EndTask(p, FALSE) /\ UNCHANGED mem
     ELSE EndTask(p, TRUE) /\ mem' = [Use(p) EXCEPT ![p].dump = db[On(p)]]
  /\ UNCHANGED db

\* A target that holds tables is refused without --force.
LookAtTarget(p) ==
  /\ Doing(p, "restore", "start")
  /\ IF \/ On(p) \in Protected
        \/ Exists(On(p)) /\ db[On(p)].tables # {} /\ ~Task(p).force
     THEN EndTask(p, FALSE)
     ELSE IF Exists(On(p)) THEN Goto(p, IF Task(p).force THEN "clean" ELSE "tables")
     ELSE Goto(p, "create")
  /\ mem' = [mem EXCEPT ![p].created = FALSE, ![p].errors = FALSE]
  /\ UNCHANGED db

CreateTarget(p) ==
  /\ Doing(p, "restore", "create")
  /\ IF Exists(On(p))
     THEN EndTask(p, FALSE) /\ UNCHANGED <<db, mem>>
     ELSE /\ db' = With(On(p), p.id)
          /\ mem' = [mem EXCEPT ![p].created = TRUE]
          /\ Goto(p, "tables")

\* pg_restore --clean --if-exists drops what the dump holds, except what a table
\* that is not in the dump refers to.
CleanTarget(p) ==
  LET n == On(p)
      dropped == {v \in mem[p].dump.tables :
                    v = 0 \/ \A w \in db[n].tables \ mem[p].dump.tables : w < v} IN
  /\ Doing(p, "restore", "clean") /\ Exists(n)
  /\ db' = [db EXCEPT ![n].tables = @ \ dropped, ![n].guards = @ \ dropped,
                      ![n].ledger = IF 0 \in dropped THEN NoLedger ELSE @,
                      ![n].rows = IF dropped \cap Version = {} THEN @ ELSE {}]
  /\ mem' = [mem EXCEPT ![p].errors = dropped # mem[p].dump.tables]
  /\ Goto(p, "tables")

RestoreTables(p) ==
  LET n == On(p) IN
  /\ Doing(p, "restore", "tables") /\ Exists(n)
  /\ db' = [db EXCEPT ![n].tables = @ \cup mem[p].dump.tables]
  /\ mem' = [mem EXCEPT ![p].errors = @ \/ db[n].tables \cap mem[p].dump.tables # {}]
  /\ Goto(p, "rows")

\* COPY, table by table: a key that is there already refuses the table's whole data.
RestoreRows(p) ==
  LET n == On(p)
      inTheWay == DOMAIN db[n].ledger \cap DOMAIN mem[p].dump.ledger # {} IN
  /\ Doing(p, "restore", "rows") /\ Exists(n)
  /\ db' = [db EXCEPT ![n].ledger = IF inTheWay THEN @ ELSE Joined(@, mem[p].dump.ledger),
                      ![n].rows = @ \cup mem[p].dump.rows]
  /\ mem' = [mem EXCEPT ![p].errors = @ \/ inTheWay \/ db[n].rows \cap mem[p].dump.rows # {}]
  /\ Goto(p, "guards")

\* Mutant: pg_restore's exit code is not looked at.
RestoreGuardsAnyway(p) ==
  LET n == On(p) IN
  /\ Doing(p, "restore", "guards") /\ Exists(n)
  /\ db' = [db EXCEPT ![n].guards = @ \cup mem[p].dump.guards]
  /\ Goto(p, "verify")
  /\ UNCHANGED mem

\* After the triggers pg_restore exits, with 1 if any statement failed.
RestoreGuards(p) ==
  LET n == On(p) IN
  /\ Doing(p, "restore", "guards") /\ Exists(n)
  /\ db' = [db EXCEPT ![n].guards = @ \cup mem[p].dump.guards]
  /\ IF mem[p].errors \/ db[n].guards \cap mem[p].dump.guards # {}
     THEN EndTask(p, FALSE) ELSE Goto(p, "verify")
  /\ UNCHANGED mem

\* A restore that left no table at all has failed.
VerifyRestore(p) ==
  LET n == On(p) IN
  /\ Doing(p, "restore", "verify") /\ Exists(n)
  /\ EndTask(p, db[n].tables # {})
  /\ mem' = [Use(p) EXCEPT ![p].copy = db[n]]
  /\ UNCHANGED db

Restore(p) ==
  \/ LookAtTarget(p) \/ CreateTarget(p) \/ CleanTarget(p) \/ RestoreTables(p)
  \/ RestoreRows(p) \/ RestoreGuards(p) \/ VerifyRestore(p)

-----------------------------------------------------------------------------
(* The backup and restore gate.                                            *)

\* The source's rows are counted; when there are none it is seeded first.
CountSource(p) ==
  LET n == On(p)
      rows == IF db[n].rows = {} THEN {p.id} ELSE db[n].rows IN
  /\ Doing(p, "count", "start") /\ Exists(n)
  /\ IF Version \subseteq db[n].tables
     THEN /\ db' = [db EXCEPT ![n].rows = rows]
          /\ mem' = [mem EXCEPT ![p].shape.rows = rows]
          /\ EndTask(p, TRUE)
     ELSE EndTask(p, FALSE) /\ UNCHANGED <<db, mem>>

\* The restored rows are the counted ones and the provider's ledger, of the newest
\* migrations, still refuses UPDATE and DELETE.
ReadBack(p) ==
  /\ Doing(p, "readback", "start") /\ Exists(On(p))
  /\ EndTask(p, db[On(p)].rows = mem[p].shape.rows /\ Top \in db[On(p)].guards)
  /\ UNCHANGED <<db, mem>>

\* Only what the restore script said it restored is dropped, and when that fails
\* it is a warning.
Cleanup(p) ==
  /\ Doing(p, "cleanup", "start")
  /\ \/ mem[p].copy.by # "nobody" /\ DropThen(p, {On(p)}, TRUE)
     \/ Verdict(p, TRUE) /\ UNCHANGED <<db, mem>>

-----------------------------------------------------------------------------
(* Fresh databases and the gates on them.                                  *)

\* create-isolated-databases: the drop and the CREATE are two statements.
DropForRecreation(p) ==
  /\ Doing(p, "recreate", "start")
  /\ IF On(p) \in Protected
     THEN EndTask(p, FALSE) /\ UNCHANGED db
     ELSE /\ db' = Without({On(p)})
          /\ phase' = [Severed(p, {On(p)}) EXCEPT ![p] = "create"]
          /\ UNCHANGED <<at, failed>>
  /\ UNCHANGED mem

Create(p) ==
  /\ Doing(p, "recreate", "create") \/ Doing(p, "create", "start")
  /\ EndTask(p, ~Exists(On(p)))
  /\ IF Exists(On(p)) THEN UNCHANGED db ELSE db' = With(On(p), p.id)
  /\ UNCHANGED mem

\* Purpose, privileges and the manifest's floor; the names here fit their purposes.
Preflight(p) ==
  /\ Doing(p, "preflight", "start") /\ Exists(On(p))
  /\ Verdict(p, MigrationsReady(Build(p), On(p)))
  /\ mem' = Use(p)
  /\ UNCHANGED db

\* The database suites truncate what is there and leave their own rows.
Suites(p) ==
  LET n == On(p) IN
  /\ Doing(p, "suites", "start") /\ Exists(n)
  /\ IF Version \subseteq db[n].tables
     THEN db' = [db EXCEPT ![n].rows = {p.id}] /\ Verdict(p, TRUE)
     ELSE UNCHANGED db /\ Verdict(p, FALSE)
  /\ mem' = Use(p)

\* Constraints and append-only triggers are tried on rows of the gate's own.
SpotGates(p) ==
  LET n == On(p) IN
  /\ Doing(p, "spot", "start") /\ Exists(n)
  /\ IF Version \subseteq db[n].tables
     THEN /\ db' = [db EXCEPT ![n].rows = @ \cup {p.id}]
          /\ Verdict(p, Version \subseteq db[n].guards)
     ELSE UNCHANGED db /\ EndTask(p, FALSE)
  /\ mem' = Use(p)

-----------------------------------------------------------------------------
(* The audit in rounds.                                                    *)

Names(p) == {On(p), Task(p).other}

\* Mutant: what an earlier round left is dropped without being held against this one.
DropResidue(p) ==
  /\ Doing(p, "absent", "start")
  /\ DropThen(p, Names(p) \cap DOMAIN db, TRUE)

\* The round's databases must not exist yet: what is there is dropped and flagged.
CheckResidue(p) ==
  /\ Doing(p, "absent", "start")
  /\ DropThen(p, Names(p) \cap DOMAIN db, Names(p) \cap DOMAIN db = {})

ReadShape(p) ==
  /\ Doing(p, "shape", "start") /\ Exists(On(p))
  /\ EndTask(p, TRUE)
  /\ mem' = [Use(p) EXCEPT ![p].shape = db[On(p)]]
  /\ UNCHANGED db

\* Tables and triggers as many as the source's, and the whole ledger.
CompareShape(p) ==
  LET there == db[On(p)] IN
  /\ Doing(p, "compare", "start") /\ Exists(On(p))
  /\ Verdict(p, /\ Cardinality(there.tables) = Cardinality(mem[p].shape.tables)
                /\ Cardinality(there.guards) = Cardinality(mem[p].shape.guards)
                /\ Cardinality(DOMAIN there.ledger) = Top)
  /\ mem' = Use(p)
  /\ UNCHANGED db

DropRound(p) ==
  /\ Doing(p, "drop", "start")
  /\ DropThen(p, Names(p), TRUE)

CheckDropped(p) ==
  /\ Doing(p, "gone", "start")
  /\ Verdict(p, Names(p) \cap DOMAIN db = {})
  /\ UNCHANGED <<db, mem>>

-----------------------------------------------------------------------------
(* The scripts' main functions.                                            *)

\* A task, on which database, and the task after it when it throws (0: none).
On2(do, on, other, orElse) ==
  [do |-> do, on |-> on, other |-> other, orElse |-> orElse, build |-> [v \in Version |-> 1],
   force |-> FALSE, want |-> "any"]
T(do, on, orElse) == On2(do, on, on, orElse)

MigrateWanting(want, on, orElse) == [T("migrate", on, orElse) EXCEPT !.want = want]

BackupCli(on) == <<T("backup", on, 0)>>
RestoreCli(from, to, force) ==
  <<T("backup", from, 0), [T("restore", to, 0) EXCEPT !.force = force]>>

RestoreGate(test, fresh) ==
  <<T("count", test, 5), T("backup", test, 5), T("restore", fresh, 5),
    T("readback", fresh, 5), T("cleanup", fresh, 0)>>

CreateIsolated(runtime, test, canary) ==
  <<T("recreate", runtime, 0), T("recreate", test, 0), T("recreate", canary, 0)>>

DatabaseGates(runtime, test, canary) ==
  <<T("migrate", runtime, 2), T("migrate", test, 3), T("migrate", canary, 4),
    T("preflight", test, 5), T("suites", test, 6), T("spot", test, 0)>>

Verification(throwaway) ==
  <<T("create", throwaway, 5), T("migrate", throwaway, 5),
    T("spot", throwaway, 5), MigrateWanting("noneNew", throwaway, 5), T("drop", throwaway, 0)>>

Round(on, other) ==
  <<On2("absent", on, other, 0), T("create", on, 0), MigrateWanting("allNew", on, 4),
    T("preflight", on, 5), T("suites", on, 6), T("backup", on, 10), T("shape", on, 0),
    T("restore", other, 10), T("compare", other, 0), On2("drop", on, other, 0),
    On2("gone", on, other, 0)>>

Is(p, what) == \E i \in 1..Len(p.plan) : p.plan[i].do = what

\* Scripts have names of their own, restore once, after their dump, and those that read
\* back or want their databases absent are the gate and the audit.
ASSUME ScriptsAssumption ==
  \A M \in Meetings : \A p \in M :
    /\ p.id # "nobody" /\ \A q \in M \ {p} : q.id # p.id
    /\ \A i, j \in 1..Len(p.plan) :
         p.plan[i].do = "restore" /\ p.plan[j].do \in {"backup", "restore"} => j <= i
    /\ Is(p, "readback") => p.plan = RestoreGate(p.plan[1].on, p.plan[3].on)
    /\ Is(p, "absent") => p.plan = Round(p.plan[1].on, p.plan[1].other)

-----------------------------------------------------------------------------

Gate(p) ==
  \/ Backup(p) \/ Restore(p) \/ CountSource(p) \/ ReadBack(p) \/ Cleanup(p)
  \/ Preflight(p) \/ Suites(p) \/ SpotGates(p) \/ ReadShape(p) \/ CompareShape(p)

Fresh(p) ==
  \/ DropForRecreation(p) \/ Create(p) \/ CheckResidue(p) \/ DropRound(p) \/ CheckDropped(p)

AllEnded == (\A p \in Proc : ~Running(p)) /\ UNCHANGED serverVars

ReleaseNext == (\E p \in Proc : MigrationStep(p) \/ Gate(p) \/ Fresh(p)) \/ AllEnded

ReleaseSpec == ServerInit /\ [][ReleaseNext]_serverVars

-----------------------------------------------------------------------------
(* Properties.                                                             *)

Passed(p) == at[p] = Len(p.plan) + 1 /\ ~failed[p]
\* No other script has a task on n of those.
NoOther(p, n, tasks) ==
  \A q \in Proc \ {p} : \A j \in 1..Len(q.plan) : q.plan[j].on = n => q.plan[j].do \notin tasks

\* The copy has all of the dump; what more its ledger has was migrated over it.
Restored(dump, copy, force) ==
  /\ dump.tables \subseteq copy.tables /\ dump.guards \subseteq copy.guards
  /\ dump.rows \subseteq copy.rows
  /\ DOMAIN dump.ledger \subseteq DOMAIN copy.ledger
  /\ \A v \in DOMAIN copy.ledger :
       IF v \in DOMAIN dump.ledger THEN copy.ledger[v] = dump.ledger[v]
       ELSE force \/ v \notin dump.tables

\* A restore that ends with exit code 0 has left the dump in its target, whoever
\* migrates, drops or creates the target between its look at it and its last
\* statement; and a gate that passes has read back the rows it counted before the
\* dump was made.  (Two restores of one target are not kept apart, and the suites
\* truncate what they are run on.)
RestoredIsTheDump ==
  \A p \in Proc : \A i \in 1..Len(p.plan) :
    LET n == p.plan[i].on
        copy == mem[p].copy
        dump == mem[p].dump IN
    /\ p.plan[i].do = "restore" /\ copy.by # "nobody" /\ NoOther(p, n, {"restore", "suites"})
         => Restored(dump, copy, p.plan[i].force)
    /\ p.plan[i].do = "readback" /\ Passed(p)
         => /\ copy.by # "nobody"
            /\ NoOther(p, n, {"restore", "suites", "count", "spot"}) => dump.rows = mem[p].shape.rows

\* Of two audits that run at once, which have the names of their databases in common,
\* and with no third script that replaces those, one that passes has not had a gate
\* pass on a database of another that passes too.
AuditsStandOnTheirOwn ==
  \A p, q \in Proc :
    /\ p # q /\ Is(p, "absent") /\ p.plan = q.plan /\ Passed(p) /\ Passed(q)
    /\ \A r \in Proc \ {p, q} : \A j \in 1..Len(r.plan) :
         \A n \in {p.plan[1].on, p.plan[1].other} : ~Replaces(r, j, n)
    => q.id \notin mem[p].used
=============================================================================
