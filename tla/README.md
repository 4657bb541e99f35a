# Verification of the ITSS conference dashboard

The dashboard is a FastAPI application (`src/app`) with a React frontend
(`src/frontend`).  It keeps a portfolio of conferences in a database, and it
executes *runs* -- uploaded files processed in the background, in-process or by
Kubernetes Jobs -- whose state is a directory per run.  This project models the
parts where order, concurrency and failure decide whether the stored state is
right, checks them with TLC on small instances, and proves with TLAPS that the
safety properties hold for any number of runs, conferences, documents, rows, threads,
requests and crashes.  Liveness is checked by TLC only.

`PROJECT.json` maps every definition to source lines and lists components,
runs, mutants, findings, hazards and theorems.

## 1. The system

| Component | State it keeps | Operations | Talks to |
|---|---|---|---|
| Run store (`storage.py`) | a directory per run: `run.json`, inputs, outputs, logs | create, mark running / completed / failed, set job id, apply worker progress / result, delete, retention, reconcile | file system; one lock around `_write_record` only |
| Run manager (`manager.py`) | thread pool, `_futures`, `_launched_jobs`, retention thread | create, execute in-process or isolated, delete, shutdown | store, event bus, metrics, Kubernetes |
| Kubernetes backend (`kubernetes.py`) and worker (`worker.py`) | the Job and its pod, outside the process | launch, poll, cancel; fetch bundle, report, upload | `/internal/worker/*` over HTTP with a token |
| Event bus (`events.py`), websocket | a queue of 100 per subscriber | subscribe, publish, unsubscribe | called from the event loop and from threads |
| Conference records (`dashboard.py`) | conferences, milestones, derived score / status / phase, history | create, edit, update milestone, refresh, archive, delete | database sessions, one per request |
| Imports (`dashboard.py`) | import batches, field changes | preview, apply, roll back | conference records |
| Issues, score, settings (`dashboard.py`) | issues, weights, vocabularies | issue edits, recalculation, vocabulary changes | conference records |
| Documents, vectors, drafts (`dashboard.py`) | a stored file, a vector file, a row | upload, reindex, delete, retrieve | embedding service |
| Database tooling (`database*.py`, `sqlite_*.py`) | schema revision, backups, copied rows and files | start-up checks, adoption, migration | SQLite, MariaDB |
| Frontend hooks (`use-jobs.ts`, `use-notification-stream.ts`) | last answers, one shared socket | poll, refresh on event, reconnect | REST and websocket |

What makes it hard:

- *Threads.* `async def` endpoints run on the event loop with blocking bodies, so
  they never overlap one another; plain `def` endpoints, the executor and the
  retention pass run on threads.  All of them touch the same files and rows.
- *Read-modify-write without a lock.*  A record is read, changed and written; only
  the write itself is locked.  Database requests compute from the snapshot of
  their transaction and write column by column.
- *Failure.*  The process may be killed between any two steps and starts again
  with what is on disk; a pod outlives the process; uploads are lost, or handled
  after the worker gave up on them; calls of the Kubernetes API raise.
- *Order.*  Events from several threads, progress reports and results, deletion
  and late writes.

What each component has to guarantee: the lifecycle of a run and its unique
outcome, an owner for every active run, events that end with the recorded state,
threads that come back; derived facts that agree with the milestones, imports
applied once and undone when rolled back, deletions that last; documents whose
file, vectors and row agree; a migration that is complete or resumable; a
subscriber that eventually shows the stored state.

## 2. The modules

| Module | Models | Status |
|---|---|---|
| `RunLifecycle` | what the run subsystem promises of one run it executes itself | checked and proved through `LocalRuns` |
| `LocalRuns` | `storage.py` under `manager.py` with no worker backend | checked, safety proved |
| `JobLifecycle` | what it promises of a run that a Kubernetes Job executes | checked and proved through `IsolatedRuns` |
| `IsolatedRuns` | `manager.py`, `kubernetes.py`, worker endpoints, `worker.py` | checked, safety proved |
| `NotificationStream` | `events.py`, the websocket endpoint, `use-notification-stream.ts`, `use-jobs.ts` | checked, safety proved |
| `MilestoneRules` | milestone statuses and the facts derived from them | used by the next three |
| `ConferenceRecords` | conference requests as overlapping transactions, imports, rollback, deletion | checked, safety proved |
| `ScoreRules` | the arithmetic of the readiness score, phases, statuses | used by `Portfolio` |
| `Portfolio` | scores, issues, their generation, vocabulary and score settings | checked, safety proved |
| `Documents` | uploads, vectors, reindexing, deletion, drafts, the assistant's requests | checked, safety proved |
| `DatabaseSchema`, `Settings` | tables and foreign keys; the conditions of `AppSettings.from_env` | used by the next |
| `DatabaseMigration` | start-up, Alembic upgrade, seeding, adoption, SQLite to MariaDB | checked, safety proved |
| `LocalRunsProofs`, `IsolatedRunsProofs`, `NotificationStreamProofs`, `MilestoneRulesProofs`, `ConferenceRecordsProofs`, `PortfolioProofs`, `DocumentsProofs`, `DatabaseMigrationProofs` | theorems about the module each is named after | proved |
| `MCLocalRuns`, `MCIsolatedRuns`, `MCNotificationStream`, `MCConferenceRecords`, `MCPortfolio`, `MCDocuments`, `MCDatabaseMigration` | small instances for TLC | |

### LocalRuns

The state is what is on disk (`record`, the state in `run.json`; `files`, the rest
of the directory; `expired`), and where each thread is: the event loop
(`httpPc`, `httpRun`), the work item of each run (`task`), the futures and their
callbacks (`futures`, `armed`), the retention pass (`sweepPc`, `todo`, `doomed`)
and the process itself (`phase`: down, reconciling, sweeping, up, draining).
`submitted`, `counted` and `told` record what metrics and subscribers were told.

An action is one step between two points where another thread can act:
`CreateWorkspace ... AddDoneCallback` are `POST /api/runs`, `StartRun ...
ForgetFuture` are `_execute_run`, `DeleteRun ... FinishDelete` are the DELETE,
`StartSweep ... FinishSweep` the retention pass, `Boot ... FinishReconcile` the
start, and `Shutdown`, `Exit` and `Crash` the ends of the process.  `rmtree` is
two steps in either order.  The read and the write of one record by its worker
are a single step, which is justified in the same model: nobody else writes the
record of an active run (`ActiveRunHasOwner`, `FollowsLifecycle`).

`LocalRuns` implements `RunLifecycle` with `state <- record` and
`serving <- Serving`; the property `FollowsLifecycle` is that refinement.

### IsolatedRuns

Here three parties write the record of an active run -- the executor thread, the
upload handlers and a DELETE -- so every read-modify-write is two steps, with what
was read kept in `held` and `httpHeld`.  The Job, the pod, how its workflow ended
and the uploads in flight (`job`, `pod`, `outcome`, `mail`) survive the
application.  The constant `Faults` says how the environment may misbehave:

| Fault | Meaning |
|---|---|
| `lost` | an upload does not arrive, or its token has expired |
| `late` | an upload is handled after its sender gave up; a pod outlives its cancelled Job |
| `api` | a call of the Kubernetes API raises |
| `fast` | the pod may fetch its bundle before the executor has stored the Job's name |
| `crash` | the application may die rather than stop |

Two passing runs put the same module to different questions.  *Calm* (lost uploads
only, two runs, one thread, one orderly stop) shows the strong properties, among them
that the records follow `JobLifecycle`: `Lifecycle` instantiates it with
`state <- record`, `serving <- Serving` and `cancelled <- Cancelled`, and
`FollowsLifecycle` is the refinement.  With `fast` as well, a worker may be done before
the executor has stored the name of the Job; then the executor may overwrite its outcome,
or bring back a completed run that was deleted, and the lifecycle does not hold, but
every active run still has an executor and the announced outcome is the recorded one:
that is proved (section 4; TLC agrees when `fast` is added to the `Faults` of *calm* and
the other two properties are taken out).  *Storm* (every fault, one run, two stops or crashes) shows
what must hold whatever happens.  `isolated_late_progress` shows that `late` alone
refutes part of what *calm* guarantees.

The pool's queue, upload storage and retention are those of `LocalRuns` and are
left out; backoff limit 0, the default, is assumed.

### NotificationStream

`IsolatedRuns` and `LocalRuns` say in which order the server publishes.  This module
says what becomes of the events: the record of one run goes through versions
(`record`), each owes an event (`owed`), which `Publish` puts into the bounded queue
of every open socket, dropping the oldest (`Put`).  The tab has one shared socket
that breaks, is closed, reconnects and is replaced (`Connect`, `Break`, `Closed`,
`Reconnect`), and keeps the last events (`Receive`).  A widget -- the list of
`useJobs`, the page of `useJobDetail` -- fetches when it is mounted, on each new
event and by interval (`Mount`, `Notice`, `Poll`); a fetch is read by the server in
one step and answered in another (`Read`, `Answer`), so answers overtake one
another, or it fails (`Fail`).  One action is one callback of the browser or one
handler of the server.

### ConferenceRecords

`db` holds each conference with its columns (`row`), milestone statuses (`ms`) and
score; `batches` and `changes` are the import history; `open` holds the session of
every request in progress.  A request is two steps: one that reads and computes
everything up to the commit (`CreateConference`, `UpdateConference`,
`UpdateMilestone`, `RefreshConference`, `ApplyImport`, `RollbackImport`), and
`Commit`, which writes the columns that differ from the ones loaded, as SQLAlchemy
does under MariaDB's default REPEATABLE READ, or `Abort` when the rows are gone.
`DeleteConference` is a single short transaction.  A request that is the victim of
a lock conflict ends without any effect, which is the same as not being made.

The score stands for what it is computed from: it is the tuple of milestone
statuses at the last recalculation, so that "the score is up to date" can be said
without the arithmetic, which `ScoreRules` has and `Portfolio` uses.  Spreadsheets
are sets of cells that parse; the user's selection of columns is `Selections`.

### ScoreRules and Portfolio

`ScoreRules` translates `recalculate` and everything it calls into operators over
whole numbers: percentages and scores in tenths, penalties in hundredths, the
assessment factors in percent.  `normalize_status` is modelled by what it makes of
the configured names (`CustomStatus`); of the formula, which is a text a user may
change, two instances are modelled, the default and one that divides by a count
and therefore fails on some portfolios (`Computable`).  Sums over the milestones and the
issues are folds of the community modules, so that they can be proved about.

`Portfolio` has the requests: edits of milestones, dates, status and contacts;
creation, edit, resolution and deletion of issues; changes of score settings,
due-date offsets and vocabulary.  Each is one step that ends with the
recalculation the code ends with (`Store`, `StoreConference`, `StoreIssues`); how
such requests overlap is what `ConferenceRecords` is about.  The vocabulary's clean-up
keeps the order of the code: the conferences are recalculated, their milestones
cleaned, and recalculated again (`UpdateReferenceConfig`).  The generation of issues
is the exception: it waits for a language model, so it is split into
`BeginGenerate`, which keeps the snapshot, and `FinishGenerate`, which writes the
columns that differ from the snapshot, or `AbortGenerate`.  `trace` and an issue's
`stray` remember which values a generation computed from an old snapshot.

### Documents

A document is a stored file, a vector file and a row.  `upload_document` writes them in
this order, `delete_document` removes them in this order, `reindex_document` reads
the row, waits for the embeddings, rewrites the vectors and updates the row.  Each
write is an action (`StoreFile`, `Embed`, `OpenVectors`, `WriteVectors`, `InsertRow`,
`SetState`, `UnlinkFile`, `UnlinkVectors`, `DeleteRow`), and `reqs` says how far each
request has come.  An upload is a coroutine that never awaits after it has its
data, so nothing else starts while it runs (`LoopFree`); the other routes run in
threads and interleave.  Opening the vector file truncates it; two requests that
have it open may leave a mixture (`clean`).  The UPDATE of a reindex names the state only
when it differs from the one it loaded (`loaded`), so that of another may stay.  Writes fail, the embedding service
refuses or answers what cannot be read, and the process dies.  `ledger` is history:
which documents were given out, doomed, deleted, left torn or left behind.

### DatabaseMigration

One module for the life of the database, since its commands exclude and depend on
one another.  `StartDashboard`, `EnsureColumns` and `SeedSource` are `init_dashboard`
on a local file; `StartUpgrade` and `UpgradeStep` the Alembic upgrade, table by
table, as MariaDB commits data definition statements one by one; `StartAdoption`,
`FinishBackup` and `Stamp` `database_adoption`; and `Migrate` the steps of
`sqlite_to_mariadb`: measure the source, inspect the target, copy and compare the
tables in `sorted_tables` order in one transaction, commit, copy the file trees,
reconcile.  Dashboards may serve the source or the target meanwhile
(`SourceWrite`, `TargetWrite`): the one on the source adds, changes and deletes rows
and files, the one on the target changes and deletes what is there, adds rows of its own
and writes settings, whose keys are the same everywhere.  A copy of a file may be cut
short, the tree is walked while files are removed from it, and every command and
start-up may die (`Crash`).  `cmd.instants` remembers the contents the source
has had since the migration began to read it, `cmd.touched` the rows requests wrote
or deleted on the target since the copy began.

`src/README.md:185` asks the operator not to switch traffic to the target until the
reconciliation succeeds.  Nothing in the code enforces it, so the model lets a dashboard
serve the target at any time its schema is whole, and `CommitsSnapshot` and
`CompletedIsSnapshot` name what that costs.  A dashboard on the target may
delete a conference after a resumed copy read its snapshot; the comparison, in the
snapshot, still finds it, and the commit leaves a target without it.  And a first
measure that was torn between two tables is reported completed when a request on the target
happens to make its rows agree.  Both properties therefore leave touched rows out:
of those the code only promises that, when it reports completed, they are as they
were first measured.  As long as no dashboard serves the target, `touched` is
empty and the properties speak of every row.

`DatabaseSchema` has the tables and foreign keys twice, as the baseline migration
creates them and as the ORM declares them, with assumptions that TLC evaluates: that
both agree, and that the orders in which tables are created, dropped, copied and
emptied never separate a row from the row it refers to.  `Settings` says in which
environments the application starts.

## 3. What the runs show

| Run | Question | Bounds |
|---|---|---|
| `local_safety` | Is every active run owned, does the lifecycle hold, are events in order, outcomes counted once, futures forgotten? | 2 runs, 1 thread, 2 crashes or stops, storage may fail |
| `local_liveness` | Does every queued run settle, does every expired run go, is no stray directory left? | 2 runs, 1 thread, 1 crash or stop |
| `isolated_calm` | Has every active run an executor, is the last event the recorded state, does each record follow `JobLifecycle`, do runs settle if their Jobs end? | 2 runs, 1 thread, 1 stop, `lost` |
| `isolated_storm` | Is "completed" earned, is a Job cancelled before its record goes, does nothing but a Job that never ends hold the thread? | 1 run, 2 crashes or stops, all faults |
| `isolated_late_progress` | *violated:* "completed without uploading a terminal result" is said only of such runs | 1 run, `late` |
| `notifications` | Does a widget that has fetched know at least what the events told it, and does it end with the stored record? | 1 run of 2 changes and its deletion, 3 sockets, queue of 1, 2 events kept, 1 mount, 2 failures |
| `conference_serial` | Do derived facts, TCS policy and score agree with the milestones after any sequence of requests? | 1 conference, 3 milestones, 2 files, 2 imports, 1 request at a time |
| `conference_overlap` | Is a file imported once, does a deleted conference stay deleted? | 2 conferences, 1 file, 2 imports, 2 requests at a time |
| `conference_rollback` | *violated:* what an import brought is gone after its rollback | 1 request at a time |
| `portfolio` | Are stored scores, phases and statuses what today's data give, is the vocabulary kept, are issues not generated twice, does settling a milestone never cost points? | 1 conference, 3 milestones, 2 issues, 2 days, 2 vocabularies, 2 score settings, 1 generation at a time, 4 requests |
| `documents` | Do rows, files and vectors agree, does a deletion last, has every orphan a cause? | 2 documents, one without text, 1 conference, 2 requests at a time, 1 fault |
| `database_migration` | Is only a whole schema served, is a backup made before a stamp, are files that were listed whole, is nothing found overwritten, is what was migrated one instant of the source? | 2 rows in 2 tables, 1 file, 1 backup path, 2 versions, 2 writes, 1 crash |

Why the bounds are enough to be interesting.  With two runs and one thread a run
waits behind another, and a request about one meets a step of the other; two
crashes or stops cover a crash during the recovery from a crash.  Two imports of
two files let the second meet, undo or repeat the first; two requests at a time is
the smallest overlap, and every finding needs no more.  In `notifications` a queue of
one and a list of two lose events at once, three sockets are the first, its
replacement and the one a late `onclose` adds, and the interval adds a fetch only
when none is under way (`MaxPolls` = 1), while events always do.  In `portfolio` four
requests make a conference with an issue, change the vocabulary or the settings and
recalculate; the two days lie before and after due dates, and the `narrow` vocabulary
lacks most of what is in use.  In `documents` two requests on one document are a
reindex under another reindex or under a deletion, one fault is one crash or failing
write, and the proofs remove the bounds.  In `database_migration` the rows are a
document and a setting that both sides seed; a write is one transaction of a user of
either dashboard and one crash is followed by a resume.  Two writes are enough to delete
a row between the snapshot of a resume and its commit, and to tear the first measure on
the source and mend it on the target.  Rows that refer to one another, which the
comparison of foreign keys and the recalculation at start-up need, are in the
proofs only.  Interchangeable runs, conferences, issues and requests are reduced by
symmetry only in runs without liveness properties.

Deadlock is checked in `LocalRuns` and `Documents`.  The others may stop: every run is
removed or a bound is used up, and nobody has to make another request.

Every property of a passing run has a mutant: a variant of one definition with a
plausible mistake (a dropped guard, a swapped order, a missing re-read) under which
TLC refutes the property.  The variants stand in the modules, each named after the
property it is for.

### Fairness

Safety properties need none.  The liveness of runs assumes that threads and handlers
go on (WF of the event loop, each work item, the retention thread) and that a stopped
application is started again (WF of start-up).  Requests of different pods compete for
the event loop, which serves them in order: `TakeUpload` is therefore strongly
fair.  No request of a user, crash, stop or passing of the retention period is ever
assumed, and no error of an API call: `PollRaises` is no part of `ExecutorStep`.

Of the cluster nothing is assumed for `ThreadsReturn`, which is checked under
`AppSpec`.  `wait()` polls without a limit (`kubernetes.py:77-84`) and the manifest
sets no `activeDeadlineSeconds` (`kubernetes.py:253-262`), so a pod that stays
pending holds its thread as long as it does; the property says that nothing else
does: a work item ends, or from some point on waits for a Job that stays active.
`RunsSettle` needs more, that every pod is scheduled or fails and every workflow ends.
That is `JobsEnd` (SF of `WorkerStep`), which only `FairSpec`, the specification of
`isolated_calm`, has.

`NotificationStream` assumes that intervals go on and that a fetch that does not fail
is read and answered (WF of `Poll`, `Read` and `Answer` of each widget).  Nothing is assumed of
the run, the sockets or the events: `CatchUp` is what polling alone guarantees, as
the comment in `use-jobs.ts` says.

### Findings

1. *A late progress report resurrects a finished run* (`storage.py:300`).
   `apply_worker_progress` does not look at the recorded state.
2. *Rollback of an import does not last* (`dashboard.py:3182`).  Milestones that
   the import wrote stay; the next recalculation copies them back.

### Remarks

What else a reader of the models will notice.  No run is devoted to these; the
properties above are stated so as to hold of the code, and say where they stop.

- A deleted isolated run can come back: `_write_record` (`storage.py:455`) creates the
  directory anew for an executor that read the record before (in `IsolatedRuns`,
  between `ReadForJobId` and `SetBackendJobId`, or `ReadForFailure` and `MarkFailed`).
  `FollowsLifecycle` says how far this goes: only a cancelled run, never as completed.
- After a crash, the pod of a run that start-up has failed may still report progress,
  which makes the record active again with no executor to settle it
  (`ActiveRunHasExecutor` needs orderly stops); so may the pod of a Job whose creation
  raised, and a report that is handled late.  The next start-up fails the run.
- A run whose publication fails while the application stops is completed, then failed
  and counted twice (`manager.py:143`); `CountedOnce` and `RunLifecycle` speak of a
  serving application.  A run whose `mark_running` fails stays queued until the next
  start-up (`manager.py:129`); `ActiveRunHasOwner` leaves failing storage out.  A failed
  record whose pod goes on may become completed by its upload (`manager.py:196`).
- Two overlapping requests on a conference can store derived columns of neither set
  of milestones (`dashboard.py:2579`); the next request on it mends them.
- Removing "In Progress" or "Not Applicable" from the vocabulary leaves them in finance
  statuses and TCS milestones, since recalculation puts them back
  (`VocabularyKept`); `Settings.tsx:817` promises "Unknown".
- A generation of issues that overlaps a change may store removed values or the
  score of its snapshot, and two that overlap may add the same issue (`stray`).
- Score settings or a formula that divide by zero (`step`, or a count in the
  formula) make every recalculation fail with status 500 (`Computable`).
- Creating a primary contact does not recalculate, and a derived phase enters the
  completeness one recalculation later (`Lags`).
- Lateness multiplies the weight of completed milestones as well, although the
  docstring at `dashboard.py:1385-1389` speaks of unfinished ones; `SettlingHelps`
  shows that finishing one never costs points all the same, unless another status is
  configured to score more than a finished milestone.
- The limits of the score settings (nothing negative, points up to 100) stand in
  `Settings.tsx:527-638` only: `merged_score_settings` takes any number but for the
  cap and the lateness, and beyond them a base score may leave 0 to 100.
- A status of one's own that contains "complete" ("Incomplete") is read as Complete
  (`dashboard.py:933`).  An issue that is edited back to an open state stays inactive
  (`dashboard.py:2811`).
- The page of a finished run has stopped polling; when the event of its deletion is
  lost it goes on showing the run (`CatchUp` allows it).  An `onclose` of a socket that
  was replaced opens another one (`use-notification-stream.ts:143`).

## 4. What is proved

From the assumptions named in the modules, and for every value of the constants that
satisfies the hypothesis of the theorem, if it has one:

| Module | Theorem | Statement |
|---|---|---|
| `LocalRunsProofs` | `TypeCorrect` | `Spec => []TypeOK` |
| | `OwnerCorrect` | `Spec => []ActiveRunHasOwner` |
| | `FuturesCorrect` | `Spec => []FuturesForgotten` |
| | `CountedCorrect` | `Spec => []CountedOnce` |
| | `DirectoryCorrect` | `Spec => []DirectoryWhole` |
| | `EventsCorrect` | `Spec => EventsInOrder` |
| | `LifecycleCorrect` | `Spec => FollowsLifecycle`, the refinement of `RunLifecycle` |
| `IsolatedRunsProofs` | `TypeCorrect` | `Spec => []TypeOK` |
| | `CompletedCorrect` | `Spec => []CompletedMeansUploaded` |
| | `CancelledCorrect` | `Spec => CancelledBeforeRemoved` |
| | `ExecutorCorrect` | `Spec => []ActiveRunHasExecutor`, if `Faults \subseteq {"lost", "fast"}` |
| | `HeardCorrect` | `Spec => []HeardCurrent`, if `Faults \subseteq {"lost", "fast"}` |
| | `LifecycleCorrect` | `Spec => FollowsLifecycle`, the refinement of `JobLifecycle`, if `Faults \subseteq {"lost"}` |
| `NotificationStreamProofs` | `NoticedCorrect` | `Spec => []NoticedAnswered`, its part of `CaughtUp` for any list of events |
| | `CaughtUpCorrect` | `Spec => []CaughtUp`, if `MaxEvents >= Gone` |
| `MilestoneRulesProofs` | `AggregateIsFirst` | the aggregate of three statuses is the first of them in `Priority` |
| | `BlockedFinanceShows` | a blocked or rejected finance milestone shows in the finance status |
| `ConferenceRecordsProofs` | `TypeCorrect` | `Spec => []TypeOK` |
| | `ImportCorrect` | `Spec => []ImportOnce` |
| | `DeletedCorrect` | `Spec => DeletedForGood` |
| | `RecalculateTwice` | `Recalculate` is idempotent |
| | `RecalculatedCorrect` | `Spec => []NothingToRecalculate` |
| `PortfolioProofs` | `TypeCorrect` | `Spec => []TypeOK` |
| | `SettlingCorrect` | `Spec => SettlingHelps` |
| | `VocabularyCorrect` | `Spec => []VocabularyKept` |
| | `ScoreCorrect` | `Spec => []ScoreCurrent` |
| | `TwinsCorrect` | `Spec => []NoTwins` |
| | `RecalculateAgain` | `Recalculate` is idempotent, but for what may lag |
| `DocumentsProofs` | `TypeCorrect` | `Spec => []TypeOK` |
| | `RowHasFileCorrect` | `Spec => []RowHasFile` |
| | `EmbeddedCorrect` | `Spec => []EmbeddedHasVectors` |
| | `OrphansCorrect` | `Spec => []OrphansExplained` |
| | `DeletionCorrect` | `Spec => []DeletedForGood` |
| `DatabaseMigrationProofs` | `TypeCorrect` | `Spec => []TypeOK` |
| | `ServedCorrect` | `Spec => []ServedIsWhole` |
| | `BackupCorrect` | `Spec => []BackedUpBeforeStamp` |
| | `CommitsCorrect` | `Spec => CommitsSnapshot` |
| | `CompletedCorrect` | `Spec => CompletedIsSnapshot` |
| | `CompletedFilesCorrect` | `Spec => CompletedMeansFiles` |
| | `NothingOverwrittenCorrect` | `Spec => NothingOverwritten` |

None of the properties is inductive.  Every proof has the same outline: an invariant
that says what each party knows at each of its steps, a lemma for the initial states,
one step per action, and the properties from it.  The invariants were checked by TLC
before they were proved.

**LocalRuns.**  `IInv` adds what each thread's position implies about the others: what a
work item knows of its record (`TaskInv`), of its outcome count (`CountInv`), what a
request has done (`HttpInv`), that a pass only dooms terminal runs (`SweepInv`), that
a stopped process remembers nothing (`MemoryInv`), which futures are registered or
armed (`FutureInv`) and which events were published (`ToldInv`).  `WholeInv` is about
run directories in a process that was never stopped: a directory is half of itself
only in the hands of the request or pass that creates or deletes it.  The refinement
maps every step to a step of `RunLifecycle` or a stutter.

**IsolatedRuns.**  `IInv` holds under every fault.  It says what each writer of a record
knows of the copy it holds: a run is its work item's alone until its Job is launched
(`FreshInv`), what the pod has done and uploaded (`WorkerInv`), what the executor
remembers (`ThreadInv`) and what the handler remembers (`HttpInv`).  So whoever writes
"completed" holds a result that was applied.  `CalmInv` adds what holds when no upload
is late, the API answers and the application stops in order: a live pod has an executor
that waits for it, an upload in flight has its sender waiting.  The hypothesis is
needed: with `late`, `api` or `crash` TLC finds an active run without an executor.
`OrderInv` adds what holds when the pod does not overtake its executor: nobody holds an
outdated state of a record that is there, and who may create one anew does so for a
cancelled run.  From it the refinement of `JobLifecycle` follows.

**NotificationStream.**  A version a widget has noticed is *covered*: its newest answer is
at least as new, or a fetch under way is unread or was read since.  `NoticedInv` says so
of the last version noticed, `EventsInv` of every event up to it.  The latter needs a list that
drops nothing (`MaxEvents >= Gone`): in a shorter one a dropped event may come again
through a second socket, and stand behind newer ones.  TLC checks `CaughtUp` for a
list that does drop events.

**MilestoneRules, ConferenceRecords.**  The database alone is not inductive: a request in
progress carries what it read and will write.  `SessionInv` says that what it will
write is recalculated, that its import has a number and a file of its own, and that nobody
else creates its conference; `HistoryInv` that the history speaks of conferences that
exist.  `RecalculateTwice` -- the policy sees what it left and the facts are those of
the same milestones -- with `SerialInv` -- one request at a time still finds what it
read -- gives `NothingToRecalculate`.

**Portfolio.**  What a recalculation stores is a fixed point of the policy and of the
derived facts (`Synced`), and recalculating again changes at most the completeness and
its band (`Agrees`).  A generation, which recalculates from its snapshot, therefore
finds facts it would not change and writes none of them, whatever happened to the
stored row meanwhile (`MergedFields`).  `IInv` has the shape of rows and generations (`RowsInv`,
`GensInv`) with the range of their dates and numbers (`Typed`; a snapshot has it too, or
what is written from it would not), that facts and phases are configured (`FactsKept`),
that scores are current (`Current`) and came of a recalculation that divided by nothing
that is zero (`Computed`), and what is known of the issues (`IssuesOK`, `Twinless`).

The range of a score rests on sums, whose folds the prover can only unfold.
`MilestoneRulesProofs` therefore proves what is needed of a sum over a finite set:
induction over numbers and over subsets is used in the form of a statement about
*sets* (`NatSet`, `SubsetSet`), since the library's theorems with an operator parameter
cannot be instantiated.  Adding an element adds its term (`SumsOfAdd`), and an inequality
that holds term by term holds of the sums (`SumsLinear`).  So a weighted average of
points up to 100 is at most 100 (`WeightsAndPoints`, `TotalRange`, `TenthsRange`).  For
`SettlingCorrect` let each milestone have weight w and weighted points p, and w' and p'
when it is settled, with C points for a finished one: then w <= w' and p + Cw' <= p' + Cw,
whether it counted before or not, so both hold of the sums; with p <= Cw the quotient
grows (`SettlingBase`, `TenthsGrow`).  Lateness stays in w and w' alike, which is why it
does no harm.  With the other formula the share of finished milestones grows
(`SettlingShare`), penalty and rounding are monotone, and a current row has the score
those formulas give (`ScoresDerived`).

**Documents.**  The invariant is one formula per document (`DocInv`), next to the shape of
the variables and the fact that a request concerns at most one document (`OneDoc`).
It says what an upload at each step has already written, and that nobody else has to
do with its document (`UploadInv`); that a reindex about to commit has left whole
vectors, unless they were torn (`ReindexInv`); how far a deletion has come
(`DeleteInv`); who writes vectors and that two writers know of the damage (`WriteInv`);
and what a row implies about the files (`RowInv`, `DoomedInv`, `LostInv`).  A step on
one document leaves the formula of every other as it was (`Frame`), so each action
has a lemma about its own document only (`StepOn`), and `OneStep` puts them together.
`DeleteConference` and `Crash` touch several and are proved one document at a time.

**DatabaseMigration.**  `IInv` has eleven parts: the source, the target, what is served, the
position of the command, the backups, and for a migration what was measured, its
transaction, the copy, the comparison, the instant and the files.  The argument for the
snapshot is that rows of the source only move on (absent, then its contents, then
gone).  A row that copy and comparison read with the same content had it all the time
between, and a row neither read was absent or gone; so all copied rows are those of
any instant between the two passes (`CopyInv`, `CompareInv`, `AgreedInstant`).  Except
that a row which appears and is deleted after the measurement may be missed by both:
the properties name it (`CameAndWent`); that takes four writes to matter, more than the
run has, so only the proof covers it.  And except for what requests wrote or deleted
on the target meanwhile: the transaction's snapshot and the target agree but for
touched rows (`TransactionInv`), of which the reconciliation shows that they are as
first measured and nothing else.  The order of the tables enters as a lemma: a pass
over `SortedTables` comes to every table (`OrderComplete`).

Assumptions on the constants are that bounds are natural numbers and sentinels
are not members of the sets they stand beside, and what the code guarantees of its
tables: milestone codes are those of the catalogue (`CodesAssumption`,
`ScoreAssumption`), parsed cells have known statuses (`FilesAssumption`), a
configuration contains what `sanitize_reference_config` adds, and score settings are
such as the settings view takes (`ScoreSettings`), both in `PortfolioAssumption`,
seeded rows are in tables of which no route deletes rows (`SeedsAssumption`), rows refer
to parents of their table (`RowsAssumption`), baseline and ORM agree (`BaselineMatchesModel`),
and deleting a conference meets every table that refers to it (`DeletionCoversReferences`).
TLC evaluates them.

Only model-checked: liveness (`RunsSettle`, `ExpiredRunsGo`, `ThreadsReturn`,
`CatchUp`), which is out of reach of the prover.

## 5. Plan

1. *Scores*: the formula as an expression over its variables, instead of two texts.
2. *Isolated runs under more faults*: what is left of `ActiveRunHasExecutor` after a
   crash or a late report, stated as a property.
3. *Events*: that a subscriber's queue has the last events in order, for any number of
   runs.
4. Retention of isolated runs, and the hierarchy of events with its unique names.

Modules to be proved about use no recursive operators; folds and functions on
`Nat` take their place.

## 6. Not modelled

- Rendering and form state of the frontend, report and export formatting, text
  generation, prompts and ranking, parsing of spreadsheet cells, identity headers,
  the pod manifest, CI and scripts: they keep no state of their own that the
  properties speak of, or are functions that tests cover well.
- Of the conferences: aliases, comments, pins, archiving, the event hierarchy and the
  uniqueness of acronym and year.  Of the settings: feature switches, milestone
  definitions, status mappings, series, roles and labels.  Templates and
  recommendations have rows only, which nothing else depends on.
- Of the score: a binary float may round a tie either way, the model rounds up; a
  formula is one of two texts.  A change of sponsorship is in `ConferenceRecords` only.
- Of the migration: a setting or a milestone that is set back to an earlier content;
  tables that hold none of the modelled rows; columns, indexes and types.
- Several owners of runs, who never see one another's events; a Job with a backoff
  limit above 0; the pool's queue and retention next to isolated runs.
