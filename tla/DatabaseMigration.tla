-------------------------- MODULE DatabaseMigration --------------------------
(***************************************************************************)
(* The life of the dashboard's database from a local SQLite file to        *)
(* MariaDB: start-up (init_dashboard), the Alembic upgrade of the target,  *)
(* app.database_seed, app.database_adoption and app.sqlite_to_mariadb.     *)
(*                                                                         *)
(* The operator runs one command at a time.  Nothing stops a dashboard     *)
(* from serving the source or the target meanwhile, and every command      *)
(* and every start-up can die between two steps.                           *)
(*                                                                         *)
(* The content of a row or of a file is a number: 0 when it never existed, *)
(* 1..MaxVersion for what was written on the source, and three values      *)
(* above them.  A row of the source only changes to a content it never had *)
(* (ids are uuid4, conferences carry a timestamp): a setting or a          *)
(* milestone that is set back to what it was is left out on the source;    *)
(* the dashboard on the target may write any content.                      *)
(***************************************************************************)
EXTENDS DatabaseSchema, Settings

CONSTANTS
  Rows,            \* row ids, on either side
  TableOf,         \* the table of each row
  RefsOf,          \* the rows each row refers to
  SourceSeeds,     \* rows seed_configuration adds to the source
  TargetSeeds,     \* and those it adds to the target
  TargetOwn,       \* rows only the target can get, under ids of its own
  Files,           \* names in the file trees
  Backups,         \* paths a backup may be written to
  Options,         \* command lines of a migration: [apply, resume, trees]
  Environments,    \* environments in which a dashboard may be started
  MaxVersion,      \* bound: contents of a row or a file on the source
  MaxWrites,       \* bound: changes made through a serving dashboard
  MaxCrashes       \* bound: deaths of a command or a start-up

ASSUME RowsAssumption ==
  \A r \in Rows :
    /\ TableOf[r] \in Tables
    /\ RefsOf[r] \subseteq Rows
    /\ {TableOf[q] : q \in RefsOf[r]} \subseteq Parents(TableOf[r])

\* The tables of which no route deletes a row: settings, status mappings and
\* milestone definitions, which are also the ones that are seeded.
Kept == {"dashboard_settings", "status_mappings", "milestone_definitions"}

ASSUME SeedsAssumption ==
  /\ SourceSeeds \cup TargetSeeds
       \subseteq {r \in Rows : RefsOf[r] = {} /\ TableOf[r] \in Kept}
  /\ TargetOwn \subseteq Rows \ SourceSeeds
  /\ TargetSeeds \subseteq SourceSeeds \cup TargetOwn

ASSUME OptionsAssumption ==
  Options \subseteq [apply : BOOLEAN, resume : BOOLEAN, trees : BOOLEAN]

ASSUME BoundsAssumption ==
  MaxVersion \in Nat \ {0} /\ MaxWrites \in Nat /\ MaxCrashes \in Nat

Gone    == MaxVersion + 1     \* deleted from the source
Changed == MaxVersion + 2     \* written by the dashboard on the target
Torn    == MaxVersion + 3     \* a file whose copy did not end
Contents == 0..Torn

VARIABLES
  source,    \* the SQLite file: [made, missing, stamped, rows]
  target,    \* the MariaDB schema: [made, version, rows]
  files,     \* the file trees: [source, target]
  backups,   \* what is at each backup path
  app,       \* the dashboards: [source, target, boot]
  cmd,       \* the command in progress
  report,    \* the status the last migration ended with
  budget     \* writes and crashes left

vars == <<source, target, files, backups, app, cmd, report, budget>>

Exists(rows, r) == rows[r] \notin {0, Gone}
Present(rows) == {r \in Rows : Exists(rows, r)}
In(t, rows) == {r \in Present(rows) : TableOf[r] = t}
SameRows(a, b) ==
  Present(a) = Present(b) /\ \A r \in Present(a) : a[r] = b[r]
Actual(rows) == [r \in Rows |-> IF Exists(rows, r) THEN rows[r] ELSE 0]
Over(rows, new) == [r \in Rows |-> IF new[r] # 0 THEN new[r] ELSE rows[r]]
Referring(present) == \A r \in present : RefsOf[r] \subseteq present
NoRows == [r \in Rows |-> 0]

\* The tables that can hold a row, in the order of sorted_tables; reading an
\* empty table gives the same metrics at any time.
Places == {p \in DOMAIN SortedTables : \E r \in Rows : TableOf[r] = SortedTables[p]}
TableCount == Cardinality(Places)
Order == [i \in 1..TableCount |->
            SortedTables[CHOOSE p \in Places : Cardinality(Places \cap 1..p) = i]]

Idle == [name |-> "none", pc |-> "idle", i |-> 0, apply |-> FALSE,
         resume |-> FALSE, trees |-> FALSE, refused |-> FALSE, begun |-> FALSE,
         first |-> NoRows, again |-> NoRows, snap |-> NoRows, mine |-> NoRows,
         touched |-> {}, todo |-> {}, kept |-> {}, file |-> {}, instants |-> {}]

Init ==
  /\ source \in [made : {TRUE}, missing : {1}, stamped : {FALSE},
                 rows : {[r \in Rows |-> IF r \in TargetOwn THEN 0 ELSE 1]}]
           \cup {[made |-> FALSE, missing |-> 0, stamped |-> FALSE, rows |-> NoRows]}
  /\ target = [made |-> 0, version |-> "none", rows |-> NoRows]
  /\ files = [source |-> [f \in Files |-> 1], target |-> [f \in Files |-> 0]]
  /\ backups = [p \in Backups |-> "none"]
  /\ app = [source |-> "down", target |-> "down", boot |-> "none"]
  /\ cmd = Idle
  /\ report = "none"
  /\ budget = [writes |-> MaxWrites, crashes |-> MaxCrashes]

-----------------------------------------------------------------------------
(* Start-up                                                                *)

\* current_alembic_revision = expected_alembic_revision, and what
\* verify_database_ready asks of either database.
TargetReady == target.version = "head"
SourceReady == source.stamped

\* database_health, as /healthz of a deployment reports it.
Healthy == TargetReady

\* ServedIsWhole: start-up on MariaDB without verify_database_ready.
StartUnverified(env) ==
  /\ FromEnv(env) /\ EngineOk(env) /\ UsesMariaDB(env)
  /\ app.target = "down"
  /\ app' = [app EXCEPT !.target = env.APP_ENV]
  /\ UNCHANGED <<source, target, files, backups, cmd, report, budget>>

\* init_dashboard: a local SQLite file without a revision is bootstrapped, which
\* begins with the tables it lacks (create_all); every other database has to
\* be at the head revision.
StartDashboard(env) ==
  /\ FromEnv(env) /\ EngineOk(env)
  /\ IF UsesMariaDB(env)
     THEN /\ app.target = "down" /\ TargetReady
          /\ app' = [app EXCEPT !.target = env.APP_ENV]
          /\ UNCHANGED source
     ELSE /\ app.source = "down" /\ app.boot = "none"
          /\ app' = IF SourceReady THEN [app EXCEPT !.source = env.APP_ENV]
                    ELSE [app EXCEPT !.boot = env.APP_ENV]
          /\ source' = [source EXCEPT !.made = TRUE]
  /\ UNCHANGED <<target, files, backups, cmd, report, budget>>

\* ensure_database_schema: one ALTER TABLE for each missing column, each of
\* them committed by itself.
EnsureColumns ==
  /\ app.boot # "none" /\ source.missing > 0
  /\ source' = [source EXCEPT !.missing = @ - 1]
  /\ UNCHANGED <<target, files, backups, app, cmd, report, budget>>

\* seed_configuration: the milestone definitions when there is none at all,
\* each status and setting when it is missing.
Seeded(rows, seeds) ==
  [r \in Rows |->
    IF /\ r \in seeds /\ ~Exists(rows, r)
       /\ TableOf[r] = "milestone_definitions" => In(TableOf[r], rows) = {}
    THEN 1 ELSE rows[r]]

\* Keeps the rows of the source among those a running migration could see.
Noted(rows) ==
  IF cmd.name = "migrate" THEN [cmd EXCEPT !.instants = @ \cup {Actual(rows)}]
  ELSE cmd

\* The end of init_dashboard: seed, recalculate every conference, which changes
\* it when the date moved its scores, and commit.
SeedSource ==
  /\ app.boot # "none" /\ source.missing = 0
  /\ LET seeded == Seeded(source.rows, SourceSeeds)
         movable == {r \in In("conferences", seeded) : seeded[r] < MaxVersion} IN
     \E moved \in SUBSET movable :
       LET rows == [r \in Rows |-> IF r \in moved THEN seeded[r] + 1 ELSE seeded[r]] IN
       source' = [source EXCEPT !.rows = rows] /\ cmd' = Noted(rows)
  /\ app' = [app EXCEPT !.boot = "none", !.source = app.boot]
  /\ UNCHANGED <<target, files, backups, report, budget>>

StopDashboard ==
  /\ \/ app.source # "down" /\ app' = [app EXCEPT !.source = "down"]
     \/ app.target # "down" /\ app' = [app EXCEPT !.target = "down"]
  /\ UNCHANGED <<source, target, files, backups, cmd, report, budget>>

Spend(what) == budget[what] > 0 /\ budget' = [budget EXCEPT ![what] = @ - 1]

\* What a request may make of the rows of the source, in one transaction and
\* under the foreign keys: it adds, changes or deletes some of them.
Writes ==
  {new \in [Rows -> 0..Gone] :
     /\ \A r \in Rows : \/ new[r] = source.rows[r]
                        \/ r \notin TargetOwn /\
                             \/ source.rows[r] < MaxVersion /\ new[r] = source.rows[r] + 1
                             \/ /\ Exists(source.rows, r) /\ TableOf[r] \notin Kept
                                /\ new[r] = Gone
     /\ Referring(Present(new))}

\* A request to the dashboard on the source: a transaction, or a file written
\* or removed.
SourceWrite ==
  /\ app.source # "down" /\ Spend("writes")
  /\ \/ /\ \E new \in Writes \ {source.rows} :
             /\ source' = [source EXCEPT !.rows = new]
             /\ cmd' = Noted(new)
        /\ UNCHANGED files
     \/ /\ \E f \in Files : \E new \in {files.source[f] + 1, Gone} :
             /\ files.source[f] < MaxVersion
             /\ files' = [files EXCEPT !.source[f] = new]
             /\ cmd' = [cmd EXCEPT !.kept = @ \ {f}]
        /\ UNCHANGED source
  /\ UNCHANGED <<target, backups, app, report>>

\* The same on the target, in any content: a request changes rows, deletes some,
\* and adds rows of its own or settings, whose keys are the same everywhere.  It
\* waits for the rows an open transaction has inserted and those they refer to.
TargetWrites ==
  {new \in [Rows -> 0..Changed] :
     /\ \A r \in Rows : \/ new[r] = target.rows[r]
                        \/ /\ cmd.mine[r] = 0 /\ new[r] # Gone
                           /\ IF Exists(target.rows, r)
                              THEN new[r] # 0 \/ TableOf[r] \notin Kept
                              ELSE r \in TargetOwn \/ TableOf[r] = "dashboard_settings"
     /\ Referring(Present(new)) /\ Referring(Present(Over(new, cmd.mine)))}

\* Keeps the rows the dashboard on the target wrote since a copy began.
Touched(new) ==
  IF cmd.pc \in {"copy", "compare", "check", "commit", "files"}
  THEN [cmd EXCEPT !.touched = @ \cup {r \in Rows : new[r] # target.rows[r]}]
  ELSE cmd

TargetWrite ==
  /\ app.target # "down" /\ Spend("writes")
  /\ \E new \in TargetWrites \ {target.rows} :
       target' = [target EXCEPT !.rows = new] /\ cmd' = Touched(new)
  /\ UNCHANGED <<source, files, backups, app, report>>

-----------------------------------------------------------------------------
(* Commands                                                                *)

Begin(command) ==
  /\ cmd.name = "none"
  /\ cmd' = command
  /\ report' = "none"
End == cmd' = Idle

\* A migration ends and writes its report.
Report(status) == End /\ report' = status

\* Alembic: the version table first, then one CREATE TABLE after the other,
\* each committed by itself, then the revision.  A migration comes here only
\* when the target is empty; the operator may run it at any time.
StartUpgrade ==
  /\ Begin([Idle EXCEPT !.name = "upgrade", !.pc = "upgrade"])
  /\ UNCHANGED <<source, target, files, backups, app, budget>>

UpgradeEnds ==
  IF cmd.name = "migrate"
  THEN cmd' = [cmd EXCEPT !.pc = "copy", !.i = 1] ELSE End

\* TypeOK: a table more is created than there are.
UpgradeStepBeyond ==
  /\ cmd.pc = "upgrade" /\ cmd.i = target.made
  /\ target' = [target EXCEPT !.made = @ + 1, !.version = "empty"]
  /\ cmd' = [cmd EXCEPT !.i = @ + 1]
  /\ UNCHANGED <<source, files, backups, app, report, budget>>

UpgradeStep ==
  /\ cmd.pc = "upgrade"
  /\ \/ /\ target.version = "head"
        /\ UpgradeEnds /\ UNCHANGED target
     \/ /\ target.version = "none"
        /\ target' = [target EXCEPT !.version = "empty"] /\ UNCHANGED cmd
     \/ /\ target.version = "empty" /\ cmd.i < target.made     \* table exists
        /\ End /\ UNCHANGED target
     \/ /\ target.version = "empty" /\ cmd.i = target.made /\ target.made < TableCount
        /\ target' = [target EXCEPT !.made = @ + 1]
        /\ cmd' = [cmd EXCEPT !.i = @ + 1]
     \/ /\ target.version = "empty" /\ cmd.i = TableCount
        /\ target' = [target EXCEPT !.version = "head"]
        /\ UpgradeEnds
  /\ UNCHANGED <<source, files, backups, app, report, budget>>

\* app.database_seed.
SeedTarget ==
  /\ cmd.name = "none" /\ TargetReady
  /\ target' = [target EXCEPT !.rows = Seeded(@, TargetSeeds)]
  /\ UNCHANGED <<source, files, backups, app, cmd, report, budget>>

\* app.database_adoption: a schema that is not the baseline, a database that
\* has its revision and a backup path that exists are refused.
StartAdoption(p) ==
  /\ source.made /\ source.missing = 0 /\ ~source.stamped
  /\ backups[p] = "none"
  /\ Begin([Idle EXCEPT !.name = "adopt", !.pc = "backup", !.file = {p}])
  /\ backups' = [backups EXCEPT ![p] = "partial"]
  /\ UNCHANGED <<source, target, files, app, budget>>

\* BackedUpBeforeStamp: a failed backup is not noticed.
FinishBackupAnyhow ==
  /\ cmd.pc = "backup"
  /\ \/ backups' = [p \in Backups |-> IF p \in cmd.file THEN "whole" ELSE backups[p]]
     \/ UNCHANGED backups
  /\ cmd' = [cmd EXCEPT !.pc = "stamp"]
  /\ UNCHANGED <<source, target, files, app, report, budget>>

\* _backup_sqlite_database ends, or fails and leaves what it has written.
FinishBackup ==
  /\ cmd.pc = "backup"
  /\ \/ /\ backups' = [p \in Backups |-> IF p \in cmd.file THEN "whole" ELSE backups[p]]
        /\ cmd' = [cmd EXCEPT !.pc = "stamp"]
     \/ End /\ UNCHANGED backups
  /\ UNCHANGED <<source, target, files, app, report, budget>>

Stamp ==
  /\ cmd.pc = "stamp"
  /\ source' = [source EXCEPT !.stamped = TRUE]
  /\ End
  /\ UNCHANGED <<target, files, backups, app, report, budget>>

-----------------------------------------------------------------------------
(* app.sqlite_to_mariadb                                                   *)

\* migrate_sqlite_database: a source that lacks a column is not reported,
\* reading it raises; then the metrics of the source, table by table.
StartMigration(opt) ==
  /\ source.made /\ source.missing = 0
  /\ Begin([Idle EXCEPT !.name = "migrate", !.pc = "measure", !.i = 1,
             !.apply = opt.apply, !.resume = opt.resume, !.trees = opt.trees,
             !.instants = {Actual(source.rows)}])
  /\ UNCHANGED <<source, target, files, backups, app, budget>>

Reading(rows) ==
  [r \in Rows |-> IF TableOf[r] = Order[cmd.i] /\ Exists(rows, r)
                  THEN rows[r] ELSE 0]

NextTable(pc) ==
  IF cmd.i < TableCount THEN [cmd EXCEPT !.i = @ + 1]
  ELSE [cmd EXCEPT !.i = 1, !.pc = pc]

MeasureSource ==
  /\ cmd.pc = "measure"
  /\ cmd' = [NextTable("plan") EXCEPT !.first = Over(@, Reading(source.rows))]
  /\ UNCHANGED <<source, target, files, backups, app, report, budget>>

\* plan_file_migration.
PlanFiles ==
  LET old == {f \in Files : files.target[f] # 0}
      conflicts == {f \in old : /\ files.source[f] \in 1..MaxVersion
                                /\ files.source[f] # files.target[f]} IN
  /\ cmd.pc = "plan"
  /\ cmd' = [cmd EXCEPT !.pc = "inspect",
               !.refused = cmd.trees /\ (conflicts # {} \/ (old # {} /\ ~cmd.resume))]
  /\ UNCHANGED <<source, target, files, backups, app, report, budget>>

\* inspect_target.
TargetSchema ==
  IF target.made = 0 /\ target.version = "none" THEN "absent"
  ELSE IF target.made < TableCount \/ target.version # "head" THEN "incompatible"
  ELSE "current"

\* The decision: blocked, a dry run, an empty schema to fill, or the copy.
InspectTarget ==
  LET hasData == Present(target.rows) # {}
      blocked == \/ cmd.refused
                 \/ TargetSchema = "incompatible"
                 \/ TargetSchema = "current" /\ hasData /\ ~cmd.resume IN
  /\ cmd.pc = "inspect"
  /\ \/ blocked /\ Report("blocked")
     \/ ~blocked /\ ~cmd.apply /\ Report("ready")
     \/ /\ ~blocked /\ cmd.apply
        /\ cmd' = IF TargetSchema = "absent" THEN [cmd EXCEPT !.pc = "upgrade", !.i = 0]
                  ELSE [cmd EXCEPT !.pc = "copy", !.i = 1]
        /\ UNCHANGED report
  /\ UNCHANGED <<source, target, files, backups, app, budget>>

\* What the transaction on the target sees: the snapshot of its first read,
\* under the rows it inserted itself.
Snapshot == IF cmd.begun THEN cmd.snap ELSE target.rows
View == Over(Snapshot, cmd.mine)

\* _rows_missing_from_target refuses a table with other rows than the source's.
Refuses(t, read) ==
  \E r \in In(t, Snapshot) : read[r] # Snapshot[r]

\* NothingOverwritten: a resumed copy writes every row of the source.
CopyTableOver ==
  /\ cmd.pc = "copy"
  /\ cmd' = [NextTable("compare") EXCEPT !.mine = Over(@, Reading(source.rows))]
  /\ UNCHANGED <<source, target, files, backups, app, report, budget>>

\* _copy_database_rows: one table, conferences parents first.  An insert
\* fails on a key that is taken, or when a row it refers to is missing.
CopyTable ==
  LET t == Order[cmd.i]
      read == Reading(source.rows)
      new == [r \in Rows |-> IF cmd.resume /\ Exists(Snapshot, r) THEN 0 ELSE read[r]]
      mine == Over(cmd.mine, new)
      fails == \/ cmd.resume /\ Refuses(t, read)
               \/ \E r \in In(t, new) : \/ Exists(target.rows, r)
                                        \/ ~(RefsOf[r] \subseteq Present(Over(target.rows, mine))) IN
  /\ cmd.pc = "copy"
  /\ \/ fails /\ Report("failed")
     \/ /\ ~fails
        /\ cmd' = [NextTable("compare") EXCEPT
                     !.mine = mine,
                     !.begun = @ \/ cmd.resume,
                     !.snap = IF cmd.resume THEN Snapshot ELSE @]
        /\ UNCHANGED report
  /\ UNCHANGED <<source, target, files, backups, app, budget>>

\* The metrics before the commit: the source's, table by table ...
CompareTable ==
  /\ cmd.pc = "compare"
  /\ cmd' = [NextTable("check") EXCEPT !.again = Over(@, Reading(source.rows))]
  /\ UNCHANGED <<source, target, files, backups, app, report, budget>>

\* CommitsSnapshot: the comparison before the commit is left out.
CompareNothing ==
  /\ cmd.pc = "check"
  /\ cmd' = [cmd EXCEPT !.pc = "commit"]
  /\ UNCHANGED <<source, target, files, backups, app, report, budget>>

\* ... and the target's, with its foreign keys, all in the snapshot of the
\* transaction, whose first read this is unless the migration resumes.
CompareTarget ==
  LET agrees == SameRows(cmd.again, View) /\ Referring(Present(View)) IN
  /\ cmd.pc = "check"
  /\ \/ /\ agrees
        /\ cmd' = [cmd EXCEPT !.pc = "commit", !.begun = TRUE, !.snap = Snapshot]
        /\ UNCHANGED report
     \/ ~agrees /\ Report("failed")
  /\ UNCHANGED <<source, target, files, backups, app, budget>>

\* The transaction commits; _copy_file_trees then lists the source trees.
CommitRows ==
  LET listed == IF cmd.trees THEN {f \in Files : files.source[f] \in 1..MaxVersion}
                ELSE {} IN
  /\ cmd.pc = "commit"
  /\ target' = [target EXCEPT !.rows = Over(@, cmd.mine)]
  /\ cmd' = [cmd EXCEPT !.pc = "files", !.todo = listed, !.kept = listed,
                        !.begun = FALSE, !.snap = NoRows, !.mine = NoRows,
                        !.again = NoRows]
  /\ UNCHANGED <<source, files, backups, app, report, budget>>

\* CompletedMeansFiles: a file that exists is taken for copied.
CopyFileUnchecked(f) ==
  /\ cmd.pc = "files" /\ cmd.file = {} /\ f \in cmd.todo
  /\ \/ /\ files.target[f] # 0
        /\ cmd' = [cmd EXCEPT !.todo = @ \ {f}] /\ UNCHANGED <<files, report>>
     \/ /\ files.target[f] = 0
        /\ files' = [files EXCEPT !.target[f] = Torn]
        /\ cmd' = [cmd EXCEPT !.file = {f}] /\ UNCHANGED report
  /\ UNCHANGED <<source, target, backups, app, budget>>

\* One file: an identical one is skipped when resuming, any other is a
\* conflict; copy2 opens the target and fills it.  The tree is walked lazily: a
\* file that was removed is passed over or, after is_file, raises.
CopyFile(f) ==
  LET old == files.target[f]
      new == files.source[f] IN
  /\ cmd.pc = "files" /\ cmd.file = {} /\ f \in cmd.todo
  /\ \/ /\ new = Gone \/ (cmd.resume /\ old = new)
        /\ cmd' = [cmd EXCEPT !.todo = @ \ {f}] /\ UNCHANGED <<files, report>>
     \/ /\ old # 0 /\ (cmd.resume => new \notin {old, Gone})
        /\ Report("failed") /\ UNCHANGED files
     \/ /\ old = 0 /\ new # Gone
        /\ files' = [files EXCEPT !.target[f] = Torn]
        /\ cmd' = [cmd EXCEPT !.file = {f}] /\ UNCHANGED report
     \/ /\ new = Gone /\ (old = 0 \/ cmd.resume)    \* FileNotFoundError, uncaught
        /\ Report("traceback") /\ UNCHANGED files
  /\ UNCHANGED <<source, target, backups, app, budget>>

\* The copy ends, torn when the source was written under it, or the disk is
\* full: an OSError that no handler catches.
FinishFile(f) ==
  /\ cmd.file = {f} /\ cmd.pc = "files"
  /\ \/ /\ \E read \in ({files.source[f]} \ {Gone})
                        \cup (IF f \in cmd.kept THEN {} ELSE {Torn}) :
             files' = [files EXCEPT !.target[f] = read]
        /\ cmd' = [cmd EXCEPT !.file = {}, !.todo = @ \ {f}]
        /\ UNCHANGED report
     \/ Report("traceback") /\ UNCHANGED files
  /\ UNCHANGED <<source, target, backups, app, budget>>

\* CompletedIsSnapshot: only the number of rows is compared.
ReconcileCounts ==
  /\ cmd.pc = "files" /\ cmd.file = {} /\ cmd.todo = {}
  /\ Report(IF Cardinality(Present(cmd.first)) = Cardinality(Present(target.rows))
            THEN "completed" ELSE "failed")
  /\ UNCHANGED <<source, target, files, backups, app, budget>>

\* The target's metrics, read in one transaction, against those the source
\* had at the beginning.
Reconcile ==
  /\ cmd.pc = "files" /\ cmd.file = {} /\ cmd.todo = {}
  /\ Report(IF SameRows(cmd.first, target.rows) THEN "completed" ELSE "failed")
  /\ UNCHANGED <<source, target, files, backups, app, budget>>

-----------------------------------------------------------------------------
(* A command or a start-up dies; an open transaction is rolled back        *)

Crash ==
  /\ Spend("crashes")
  /\ \/ /\ cmd.name # "none" /\ End
        /\ report' = IF cmd.name = "migrate" THEN "traceback" ELSE report
        /\ UNCHANGED app
     \/ /\ app.boot # "none" /\ app' = [app EXCEPT !.boot = "none"]
        /\ UNCHANGED <<cmd, report>>
  /\ UNCHANGED <<source, target, files, backups>>

Migrate ==
  \/ MeasureSource \/ PlanFiles \/ InspectTarget
  \/ CopyTable \/ CompareTable \/ CompareTarget \/ CommitRows
  \/ \E f \in Files : CopyFile(f) \/ FinishFile(f)
  \/ Reconcile
  \/ cmd.name = "migrate" /\ UpgradeStep

Next ==
  \/ \E env \in Environments : StartDashboard(env)
  \/ EnsureColumns \/ SeedSource \/ StopDashboard
  \/ SourceWrite \/ TargetWrite
  \/ StartUpgrade \/ (cmd.name = "upgrade" /\ UpgradeStep) \/ SeedTarget
  \/ \E p \in Backups : StartAdoption(p)
  \/ FinishBackup \/ Stamp
  \/ \E opt \in Options : StartMigration(opt)
  \/ Migrate
  \/ Crash

Spec == Init /\ [][Next]_vars

-----------------------------------------------------------------------------
(* Properties                                                              *)

TypeOK ==
  /\ source \in [made : BOOLEAN, missing : 0..1, stamped : BOOLEAN,
                 rows : [Rows -> 0..Gone]]
  /\ target \in [made : 0..TableCount, version : {"none", "empty", "head"},
                 rows : [Rows -> 0..Changed]]
  /\ files \in [source : [Files -> 0..Gone], target : [Files -> Contents]]
  /\ backups \in [Backups -> {"none", "partial", "whole"}]
  /\ app \in [source : {"down"} \cup Supported, target : {"down"} \cup Supported,
              boot : {"none"} \cup Supported]
  /\ cmd.name \in {"none", "upgrade", "adopt", "migrate"}
  /\ report \in {"none", "blocked", "ready", "failed", "completed", "traceback"}

\* A dashboard only serves a whole schema: the local file with every table and
\* column, or MariaDB with every table of the baseline, whatever upgrades,
\* crashes and restarts came before; and only a local or test process serves
\* the file (verify_database_ready, create_database_engine).
ServedIsWhole ==
  /\ app.source # "down" =>
       source.made /\ source.missing = 0 /\ app.source \in {"local", "test"}
  /\ app.target # "down" => target.made = TableCount /\ Healthy

\* A database is never stamped without a whole backup of it, even when
\* backups fail, commands die and are repeated (adopt_sqlite_database).
BackedUpBeforeStamp ==
  source.stamped => \E p \in Backups : backups[p] = "whole"

\* A row that is not in the copy because requests made it after the migration
\* measured the source and deleted it again.
CameAndWent(rows, r) ==
  ~Exists(rows, r) /\ cmd.first[r] = 0 /\ source.rows[r] = Gone

\* The rows a migration commits, with those it found, are rows the source had
\* at one instant of the migration, although they were read table by table
\* while requests changed the source, and none of that instant is missing but
\* what came and went, and what a dashboard on the target wrote or deleted since
\* the copy began (_copy_database_rows).
CommitsSnapshot ==
  [][CommitRows => \E rows \in cmd.instants : \A r \in Rows \ cmd.touched :
       \/ Actual(target'.rows)[r] = rows[r]
       \/ CameAndWent(target'.rows, r)]_vars

\* "completed" is only reported when the target holds the rows the source had
\* at one instant of the migration, but for what came and went: no seeded one
\* more, and those a dashboard on the target wrote or deleted since the copy
\* began are as they were first measured (migrate_sqlite_database).
CompletedIsSnapshot ==
  [][Reconcile /\ report' = "completed" =>
       \E rows \in cmd.instants : \A r \in Rows :
         IF r \in cmd.touched THEN Actual(target.rows)[r] = cmd.first[r]
         ELSE Actual(target.rows)[r] = rows[r] \/ CameAndWent(target.rows, r)]_vars

\* ... and when every file it listed, and no request wrote since, is the same on
\* both sides, also after an earlier copy was cut short (_copy_file_trees).
CompletedMeansFiles ==
  [][Reconcile /\ report' = "completed" =>
       \A f \in cmd.kept : files.target[f] = files.source[f]]_vars

\* A migration never changes or removes a row or a whole file it found.
NothingOverwritten ==
  [][Migrate =>
       /\ \A r \in Present(target.rows) : target'.rows[r] = target.rows[r]
       /\ \A f \in Files : files.target[f] \in 1..MaxVersion =>
                            files'.target[f] = files.target[f]]_vars
=============================================================================
