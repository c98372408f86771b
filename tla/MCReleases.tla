----------------------------- MODULE MCReleases -----------------------------
(***************************************************************************)
(* Small instances of Releases, each a meeting of two to four scripts on   *)
(* one server, with two migrations: migrators of one database at once, of  *)
(* an older, a newer and an edited build, beside an instance that is       *)
(* probed twice; two audits with the same names; the creation of CI's      *)
(* databases beside the gates on them; the restore gate beside the         *)
(* verification; and restores, forced or not, beside a migrator of their   *)
(* target.                                                                 *)
(***************************************************************************)
EXTENDS Releases, TLC

CONSTANTS runtime, test, canary, other, live, stage

Script(id, plan) == [id |-> id, plan |-> plan, key |-> "strong", production |-> TRUE, frail |-> TRUE]
Sound(script) == [script EXCEPT !.frail = FALSE]
New == [v \in Version |-> 1]
Old == [v \in {1} |-> 1]
Edited == [v \in Version |-> IF v = 1 THEN 2 ELSE 1]
With2(task, build) == [task EXCEPT !.build = build]
Migrator(id, n, build) == Script(id, <<With2(T("migrate", n, 0), build)>>)
Instance(id, n, build) ==
  Script(id, <<With2(T("ready", n, 0), build), With2(T("ready", n, 0), build)>>)

Rolling ==
  {Migrator("m1", stage, New), Migrator("m2", stage, Old),
   Sound(Migrator("m3", stage, Edited)), Instance("i1", stage, Old)}
Weak == {[Instance("i2", test, New) EXCEPT !.key = "weak"], Migrator("m4", test, New)}
Audit(id) == Script(id, Round(other, canary))
Audits == {Sound(Audit("a1")), Sound(Audit("a2"))}
Alone == {Audit("a3"), Migrator("m8", runtime, New)}
Ci == {Script("c1", CreateIsolated(runtime, test, canary)),
       Script("c2", DatabaseGates(runtime, test, canary))}
Gates == {Script("g1", RestoreGate(test, other)), Script("v1", Verification(canary))}
Restores == {Script("r1", RestoreCli(test, other, FALSE)), Migrator("m5", other, Old)}
Forced == {Script("r2", RestoreCli(test, runtime, TRUE)), Migrator("m6", runtime, New)}
Backwards == {Script("r4", RestoreCli(runtime, test, TRUE)), Migrator("m7", test, New)}
Rivals == {Script("r5", RestoreCli(runtime, canary, FALSE)), Script("v2", Verification(canary))}
Refused == {Script("b1", BackupCli(live)), Script("r3", RestoreCli(test, live, TRUE))}

MCMeetings == {Rolling, Weak, Audits, Alone, Ci, Gates, Restores, Forced, Backwards, Rivals, Refused}

\* test and live are at the newest migration, runtime at the first, stage is new.
At(n, rows) == [tables |-> 0..n, guards |-> 1..n, ledger |-> [v \in 1..n |-> 1], rows |-> rows,
                by |-> "operator"]
MCAtStart == (runtime :> At(1, {"operator"})) @@ (test :> At(2, {})) @@ (live :> At(2, {"live"}))
             @@ (stage :> Empty("operator"))
=============================================================================
