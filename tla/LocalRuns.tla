------------------------------ MODULE LocalRuns ------------------------------
(***************************************************************************)
(* Runs executed in-process: app/storage.py (RunStore) under               *)
(* app/manager.py (RunManager) with worker_backend = None.                 *)
(*                                                                         *)
(* Four kinds of threads meet in the run directories:                      *)
(*   - the event loop, whose `async def' endpoints of app/main.py have     *)
(*     blocking bodies, so one handler runs at a time (httpPc, httpRun);   *)
(*   - the MaxWorkers threads of the executor (task);                      *)
(*   - the retention thread (sweepPc, todo, doomed);                       *)
(*   - the main thread, which reconciles and sweeps at start-up and exits  *)
(*     after the executor has drained (phase).                             *)
(* A read-modify-write of run.json by the executor is one step: in this    *)
(* backend nobody else writes the record of an active run, which           *)
(* ActiveRunHasOwner and FollowsLifecycle check.  rmtree is several.     *)
(***************************************************************************)
EXTENDS Naturals, FiniteSets

CONSTANTS
  Runs,           \* run ids
  NoRun,          \* not a run id
  MaxWorkers,     \* max(1, max_concurrent_runs) of RunManager
  MaxStops,       \* bound: crashes plus orderly stops
  StorageFaults   \* may writing run.json raise OSError?

ASSUME RunsAssumption == NoRun \notin Runs
ASSUME BoundsAssumption == MaxWorkers \in Nat \ {0} /\ MaxStops \in Nat
ASSUME FaultsAssumption == StorageFaults \in BOOLEAN

VARIABLES
  record,     \* the state in run.json; "absent" before it, "removed" after it
  files,      \* what else the run directory holds
  expired,    \* runs whose completed_at is older than the retention
  phase,      \* the life of the process
  stops,      \* crashes and stops so far
  httpPc,     \* the handler the event loop is in ...
  httpRun,    \* ... and the run it works on
  task,       \* the executor's work item of each run
  futures,    \* RunManager._futures
  armed,      \* runs whose future has its done callback
  sweepPc,    \* the retention cleanup ...
  todo,       \* ... the run.json files it has yet to visit
  doomed,     \* ... and the run it is deleting
  submitted,  \* runs counted by record_run_submitted
  counted,    \* how often each run was counted completed or failed
  told        \* the types of the events published about each run so far

store == <<record, files, expired>>
life  == <<phase, stops>>
http  == <<httpPc, httpRun>>
pool  == <<task, futures, armed>>
sweep == <<sweepPc, todo, doomed>>
seen  == <<submitted, counted, told>>
vars  == <<store, life, http, pool, sweep, seen>>

Active   == {"queued", "running"}
Terminal == {"completed", "failed"}

CreatePcs == {"upload", "persist", "announce", "submit", "register", "arm"}
DeletePcs == {"confirm", "erase"}
\* work item: pending in the queue, held by a worker thread, or finished
Busy      == {"started", "working", "finishing", "completed", "recovering", "failed"}
Ended     == {"ended", "crashed"}

Events == {"queued", "running", "completed", "failed", "deleted"}

Init ==
  /\ record = [r \in Runs |-> "absent"]
  /\ files = [r \in Runs |-> "none"]
  /\ expired = {}
  /\ phase = "down"
  /\ stops = 0
  /\ httpPc = "idle" /\ httpRun = NoRun
  /\ task = [r \in Runs |-> "none"] /\ futures = {} /\ armed = {}
  /\ sweepPc = "idle" /\ todo = {} /\ doomed = NoRun
  /\ submitted = {}
  /\ counted = [r \in Runs |-> 0]
  /\ told = [r \in Runs |-> {}]

Present(r) == record[r] \in Active \cup Terminal   \* run.json exists
Serving    == phase = "up"
Running    == phase \in {"up", "draining"}         \* the threads are alive

Write(r, s)   == record' = [record EXCEPT ![r] = s]
Publish(r, e) == told' = [told EXCEPT ![r] = @ \cup {e}]

HttpAt(pc)   == Serving /\ httpPc = pc
HttpGoto(pc) == httpPc' = pc /\ UNCHANGED httpRun
HttpReturn   == httpPc' = "idle" /\ httpRun' = NoRun

WorkerAt(r, pc) == Running /\ task[r] = pc
Goto(r, pc)     == task' = [task EXCEPT ![r] = pc]
BusyRuns        == {r \in Runs : task[r] \in Busy}

SweepAt(pc) == phase \in {"sweeping", "up", "draining"} /\ sweepPc = pc

-----------------------------------------------------------------------------
(* Deliberately wrong variants of the definitions below, one for each      *)
(* property: the mutants that show the property can fail.                  *)

\* TypeOK: the pass forgets that it is done with a run.
FinishEraseKeepsRun ==
  /\ SweepAt("erase")
  /\ ~Present(doomed) /\ files[doomed] = "none"
  /\ sweepPc' = "visit"
  /\ UNCHANGED <<store, life, http, pool, todo, doomed, seen>>

\* ActiveRunHasOwner: only running runs are reconciled after a restart.
FinishReconcileOfRunning ==
  /\ phase = "reconciling"
  /\ \A r \in Runs : record[r] # "running"
  /\ phase' = "sweeping"
  /\ UNCHANGED <<store, stops, http, pool, sweep, seen>>

\* FuturesForgotten: the callback is not run for a future that is done.
AddDoneCallbackTooLate ==
  /\ HttpAt("arm")
  /\ armed' = IF task[httpRun] \in Ended THEN armed ELSE armed \cup {httpRun}
  /\ HttpReturn
  /\ UNCHANGED <<store, life, task, futures, sweep, seen>>

\* CountedOnce: publishing may raise while the application serves.
LoopMayCloseAnytime == Running

\* FollowsLifecycle: the pass does not look at the state of the run.
VisitRunUnchecked(r) ==
  /\ SweepAt("visit")
  /\ r \in todo /\ Present(r)
  /\ todo' = todo \ {r}
  /\ sweepPc' = "erase" /\ doomed' = r
  /\ UNCHANGED <<store, life, http, pool, seen>>

\* EventsInOrder: active runs can be deleted.
DeleteActiveRun(r) ==
  /\ HttpAt("idle")
  /\ Present(r)
  /\ httpPc' = "confirm" /\ httpRun' = r
  /\ UNCHANGED <<store, life, pool, sweep, seen>>

\* DirectoryWhole: a rejected upload leaves its workspace behind.
StoreUploadsLeavesFiles ==
  /\ HttpAt("upload")
  /\ HttpGoto("persist") \/ HttpReturn
  /\ UNCHANGED <<store, life, pool, sweep, seen>>

\* RunsSettle: an exception of the workflow is not caught.
RunWorkflowUncaught(r) ==
  /\ WorkerAt(r, "working")
  /\ \/ files' = [files EXCEPT ![r] = "outputs"] /\ Goto(r, "finishing")
     \/ Goto(r, "crashed") /\ UNCHANGED files
  /\ UNCHANGED <<record, expired, life, http, futures, armed, sweep, seen>>

\* ExpiredRunsGo: an exception ends the retention thread.
VisitRunDies(r) ==
  /\ SweepAt("visit")
  /\ r \in todo
  /\ todo' = todo \ {r}
  /\ sweepPc' = CASE ~Present(r) -> "dead"
                   [] record[r] \in Terminal /\ r \in expired -> "erase"
                   [] OTHER -> "visit"
  /\ doomed' = IF sweepPc' = "erase" THEN r ELSE NoRun
  /\ UNCHANGED <<store, life, http, pool, seen>>

-----------------------------------------------------------------------------
(* POST /api/runs: RunStore.create_run, then RunManager._submit            *)

CreateWorkspace(r) ==
  /\ HttpAt("idle")
  /\ record[r] = "absent" /\ files[r] = "none"
  /\ files' = [files EXCEPT ![r] = "inputs"]
  /\ httpPc' = "upload" /\ httpRun' = r
  /\ UNCHANGED <<record, expired, life, pool, sweep, seen>>

\* A rejected upload (bad name, too large) removes the workspace again.
StoreUploads ==
  /\ HttpAt("upload")
  /\ \/ HttpGoto("persist") /\ UNCHANGED files
     \/ HttpReturn /\ files' = [files EXCEPT ![httpRun] = "none"]
  /\ UNCHANGED <<record, expired, life, pool, sweep, seen>>

PersistQueued ==
  /\ HttpAt("persist")
  /\ \/ Write(httpRun, "queued") /\ HttpGoto("announce")
     \/ StorageFaults /\ HttpReturn /\ UNCHANGED record
  /\ UNCHANGED <<files, expired, life, pool, sweep, seen>>

AnnounceQueued ==
  /\ HttpAt("announce")
  /\ submitted' = submitted \cup {httpRun}
  /\ Publish(httpRun, "queued")
  /\ HttpGoto("submit")
  /\ UNCHANGED <<store, life, pool, sweep, counted>>

SubmitTask ==
  /\ HttpAt("submit")
  /\ Goto(httpRun, "pending")
  /\ HttpGoto("register")
  /\ UNCHANGED <<store, life, futures, armed, sweep, seen>>

RegisterFuture ==
  /\ HttpAt("register")
  /\ futures' = futures \cup {httpRun}
  /\ HttpGoto("arm")
  /\ UNCHANGED <<store, life, task, armed, sweep, seen>>

\* add_done_callback calls back at once when the future is already done.
AddDoneCallback ==
  /\ HttpAt("arm")
  /\ IF task[httpRun] \in Ended
       THEN futures' = futures \ {httpRun} /\ UNCHANGED armed
       ELSE armed' = armed \cup {httpRun} /\ UNCHANGED futures
  /\ HttpReturn
  /\ UNCHANGED <<store, life, task, sweep, seen>>

-----------------------------------------------------------------------------
(* RunManager._execute_run on a worker thread                              *)

\* Publishing raises when the event loop closes under the publisher.
LoopMayClose == phase = "draining"

\* mark_running precedes the try block: an exception here ends the work item.
StartRun(r) ==
  /\ WorkerAt(r, "pending")
  /\ Cardinality(BusyRuns) < MaxWorkers
  /\ \/ Present(r) /\ Write(r, "running") /\ Goto(r, "started")
     \/ (StorageFaults \/ ~Present(r)) /\ Goto(r, "crashed") /\ UNCHANGED record
  /\ UNCHANGED <<files, expired, life, http, futures, armed, sweep, seen>>

AnnounceRunning(r) ==
  /\ WorkerAt(r, "started")
  /\ \/ Publish(r, "running") /\ Goto(r, "working")
     \/ LoopMayClose /\ Goto(r, "crashed") /\ UNCHANGED told
  /\ UNCHANGED <<store, life, http, futures, armed, sweep, submitted, counted>>

RunWorkflow(r) ==
  /\ WorkerAt(r, "working")
  /\ \/ files' = [files EXCEPT ![r] = "outputs"] /\ Goto(r, "finishing")
     \/ Goto(r, "recovering") /\ UNCHANGED files
  /\ UNCHANGED <<record, expired, life, http, futures, armed, sweep, seen>>

MarkCompleted(r) ==
  /\ WorkerAt(r, "finishing")
  /\ \/ Present(r) /\ Write(r, "completed") /\ Goto(r, "completed")
     \/ (StorageFaults \/ ~Present(r)) /\ Goto(r, "recovering") /\ UNCHANGED record
  /\ UNCHANGED <<files, expired, life, http, futures, armed, sweep, seen>>

AnnounceCompleted(r) ==
  /\ WorkerAt(r, "completed")
  /\ counted' = [counted EXCEPT ![r] = @ + 1]
  /\ \/ Publish(r, "completed") /\ Goto(r, "ended")
     \/ LoopMayClose /\ Goto(r, "recovering") /\ UNCHANGED told
  /\ UNCHANGED <<store, life, http, futures, armed, sweep, submitted>>

\* The except branch; mark_failed sets completed_at afresh.
MarkFailed(r) ==
  /\ WorkerAt(r, "recovering")
  /\ \/ /\ Present(r)
        /\ Write(r, "failed") /\ Goto(r, "failed")
        /\ expired' = expired \ {r}
     \/ /\ StorageFaults \/ ~Present(r)
        /\ Goto(r, "crashed")
        /\ UNCHANGED <<record, expired>>
  /\ UNCHANGED <<files, life, http, futures, armed, sweep, seen>>

AnnounceFailed(r) ==
  /\ WorkerAt(r, "failed")
  /\ counted' = [counted EXCEPT ![r] = @ + 1]
  /\ \/ Publish(r, "failed") /\ Goto(r, "ended")
     \/ LoopMayClose /\ Goto(r, "crashed") /\ UNCHANGED told
  /\ UNCHANGED <<store, life, http, futures, armed, sweep, submitted>>

\* The finished future's callback, on the thread that finished it.
ForgetFuture(r) ==
  /\ Running
  /\ task[r] \in Ended /\ r \in armed
  /\ futures' = futures \ {r}
  /\ armed' = armed \ {r}
  /\ UNCHANGED <<store, life, http, task, sweep, seen>>

-----------------------------------------------------------------------------
(* rmtree of a run directory, entry by entry in the order of the file      *)
(* system; `Eraser' is a thread that is inside it.                         *)

EraseFiles(r) ==
  /\ files[r] # "none"
  /\ files' = [files EXCEPT ![r] = "none"]
  /\ UNCHANGED <<record, expired>>

EraseRecord(r) ==
  /\ Present(r)
  /\ Write(r, "removed")
  /\ expired' = expired \ {r}
  /\ UNCHANGED files

Erased(r) == ~Present(r) /\ files[r] = "none"

(* DELETE /api/runs/{run_id}: RunManager.delete_run, RunStore.delete_run   *)

DeleteRun(r) ==
  /\ HttpAt("idle")
  /\ record[r] \in Terminal          \* missing: 404, active: 409
  /\ httpPc' = "confirm" /\ httpRun' = r
  /\ UNCHANGED <<store, life, pool, sweep, seen>>

ConfirmDelete ==
  /\ HttpAt("confirm")
  /\ IF Present(httpRun) THEN HttpGoto("erase") ELSE HttpReturn
  /\ UNCHANGED <<store, life, pool, sweep, seen>>

EraseDeleted ==
  /\ HttpAt("erase")
  /\ EraseFiles(httpRun) \/ EraseRecord(httpRun)
  /\ UNCHANGED <<life, http, pool, sweep, seen>>

\* rmtree raises when an entry it listed is gone, as when retention is
\* deleting the same run: the request ends with an error and no event.
FinishDelete ==
  /\ HttpAt("erase")
  /\ \/ Erased(httpRun) /\ Publish(httpRun, "deleted")
     \/ doomed = httpRun /\ UNCHANGED told
  /\ HttpReturn
  /\ UNCHANGED <<store, life, pool, sweep, submitted, counted>>

-----------------------------------------------------------------------------
(* RunStore.cleanup_expired_runs, at start-up and on the retention thread  *)

\* The glob is complete before the first record is read.
StartSweep ==
  /\ SweepAt("idle")
  /\ sweepPc' = "visit"
  /\ todo' = {r \in Runs : Present(r)}
  /\ UNCHANGED <<store, life, http, pool, doomed, seen>>

\* Reading a run.json that was deleted since the glob raises: the pass is
\* over, and the loop sleeps until the next one.
VisitRun(r) ==
  /\ SweepAt("visit")
  /\ r \in todo
  /\ IF ~Present(r)
       THEN todo' = {} /\ UNCHANGED <<sweepPc, doomed>>
       ELSE /\ todo' = todo \ {r}
            /\ IF record[r] \in Terminal /\ r \in expired
                 THEN sweepPc' = "erase" /\ doomed' = r
                 ELSE UNCHANGED <<sweepPc, doomed>>
  /\ UNCHANGED <<store, life, http, pool, seen>>

EraseExpired ==
  /\ SweepAt("erase")
  /\ EraseFiles(doomed) \/ EraseRecord(doomed)
  /\ UNCHANGED <<life, http, pool, sweep, seen>>

FinishErase ==
  /\ SweepAt("erase")
  /\ Erased(doomed)
  /\ sweepPc' = "visit" /\ doomed' = NoRun
  /\ UNCHANGED <<store, life, http, pool, todo, seen>>

\* The start-up pass is the last thing RunManager.__init__ does.
FinishSweep ==
  /\ SweepAt("visit")
  /\ todo = {}
  /\ sweepPc' = "idle"
  /\ phase' = IF phase = "sweeping" THEN "up" ELSE phase
  /\ UNCHANGED <<store, stops, http, pool, todo, doomed, seen>>

Expire(r) ==
  /\ record[r] \in Terminal
  /\ expired' = expired \cup {r}
  /\ UNCHANGED <<record, files, life, http, pool, sweep, seen>>

-----------------------------------------------------------------------------
(* The process: RunManager.__init__, shutdown(wait=False), exit and crash  *)

LoseMemory ==
  /\ HttpReturn
  /\ task' = [r \in Runs |-> "none"] /\ futures' = {} /\ armed' = {}
  /\ sweepPc' = "idle" /\ todo' = {} /\ doomed' = NoRun
  /\ submitted' = {} /\ counted' = [r \in Runs |-> 0]
  /\ told' = [r \in Runs |-> {}]      \* its subscribers are gone too

Boot ==
  /\ phase = "down"
  /\ phase' = "reconciling"
  /\ UNCHANGED <<store, stops, http, pool, sweep, seen>>

\* reconcile_interrupted_runs, one record at a time.
ReconcileRun(r) ==
  /\ phase = "reconciling"
  /\ record[r] \in Active
  /\ Write(r, "failed")
  /\ UNCHANGED <<files, expired, life, http, pool, sweep, seen>>

FinishReconcile ==
  /\ phase = "reconciling"
  /\ \A r \in Runs : record[r] \notin Active
  /\ phase' = "sweeping"
  /\ UNCHANGED <<store, stops, http, pool, sweep, seen>>

\* The server stops accepting, finishes its requests and leaves the lifespan.
Shutdown ==
  /\ HttpAt("idle")
  /\ stops < MaxStops
  /\ phase' = "draining"
  /\ stops' = stops + 1
  /\ UNCHANGED <<store, http, pool, sweep, seen>>

\* The interpreter joins the executor's threads: queued work is still done.
Exit ==
  /\ phase = "draining"
  /\ \A r \in Runs : task[r] \in {"none"} \cup Ended
  /\ phase' = "down"
  /\ LoseMemory
  /\ UNCHANGED <<store, stops>>

Crash ==
  /\ phase # "down"
  /\ stops < MaxStops
  /\ phase' = "down"
  /\ stops' = stops + 1
  /\ LoseMemory
  /\ UNCHANGED store

-----------------------------------------------------------------------------
HttpStep ==
  \/ StoreUploads \/ PersistQueued \/ AnnounceQueued
  \/ SubmitTask \/ RegisterFuture \/ AddDoneCallback
  \/ ConfirmDelete \/ EraseDeleted \/ FinishDelete

WorkerStep(r) ==
  \/ StartRun(r) \/ AnnounceRunning(r) \/ RunWorkflow(r)
  \/ MarkCompleted(r) \/ AnnounceCompleted(r)
  \/ MarkFailed(r) \/ AnnounceFailed(r) \/ ForgetFuture(r)

SweepStep ==
  \/ StartSweep \/ EraseExpired \/ FinishErase \/ FinishSweep
  \/ \E r \in Runs : VisitRun(r)

BootStep == Boot \/ FinishReconcile \/ \E r \in Runs : ReconcileRun(r)

Next ==
  \/ HttpStep \/ SweepStep \/ BootStep
  \/ \E r \in Runs : CreateWorkspace(r) \/ DeleteRun(r) \/ WorkerStep(r) \/ Expire(r)
  \/ Shutdown \/ Exit \/ Crash

\* The event loop, the worker threads, the retention thread and the
\* supervisor that restarts the process all keep going; nobody owes the
\* system a request, a crash or the passing of the retention period.
Fairness ==
  /\ WF_vars(HttpStep) /\ WF_vars(SweepStep) /\ WF_vars(BootStep) /\ WF_vars(Exit)
  /\ \A r \in Runs : WF_vars(WorkerStep(r))

Spec == Init /\ [][Next]_vars
FairSpec == Spec /\ Fairness
-----------------------------------------------------------------------------
(* Properties                                                              *)

\* Every variable stays within the values the code gives it.
TypeOK ==
  /\ record \in [Runs -> {"absent", "removed"} \cup Active \cup Terminal]
  /\ files \in [Runs -> {"none", "inputs", "outputs"}]
  /\ expired \subseteq Runs
  /\ phase \in {"down", "reconciling", "sweeping", "up", "draining"}
  /\ stops \in 0 .. MaxStops
  /\ httpPc \in {"idle"} \cup CreatePcs \cup DeletePcs
  /\ httpRun \in Runs \cup {NoRun}
  /\ (httpPc = "idle") <=> (httpRun = NoRun)
  /\ task \in [Runs -> {"none", "pending"} \cup Busy \cup Ended]
  /\ futures \subseteq Runs /\ armed \subseteq Runs
  /\ sweepPc \in {"idle", "visit", "erase"}
  /\ todo \subseteq Runs
  /\ doomed \in Runs \cup {NoRun}
  /\ (sweepPc = "erase") <=> (doomed # NoRun)
  /\ submitted \subseteq Runs
  /\ counted \in [Runs -> 0 .. 2]
  /\ told \in [Runs -> SUBSET Events]

\* While the application serves, a run that run.json calls queued or running
\* is in somebody's hands: the request that is submitting it, the queue or a
\* worker thread.  A queued one has not been started, a running one has.
\* Only a fault of the storage can strand it (mark_running and the except
\* branch of _execute_run have no handler).  No active run survives a restart.
ActiveRunHasOwner ==
  Serving =>
    \A r \in Runs :
      /\ record[r] = "queued" =>
           \/ httpRun = r /\ httpPc \in {"announce", "submit"}
           \/ task[r] = "pending"
           \/ StorageFaults /\ task[r] = "crashed"
      /\ record[r] = "running" =>
           \/ task[r] \in {"started", "working", "finishing", "recovering"}
           \/ StorageFaults /\ task[r] = "crashed"

\* A run directory and its record come and go together, and a completed run
\* has the files its record lists, except while a request or the retention
\* pass is at work on that run: a DELETE and a retention pass that meet in one
\* directory, each stepping on the other's rmtree, leave nothing behind.  (A
\* crash inside rmtree or create_run, or failing storage, does leave a stray.)
DirectoryWhole ==
  stops = 0 /\ ~StorageFaults =>
    \A r \in Runs \ {httpRun, doomed} :
      /\ Present(r) <=> files[r] # "none"
      /\ record[r] = "completed" => files[r] = "outputs"

\* Subscribers hear of a run in the order of its life: queued, then running,
\* then its outcome.  The outcome can still come after "deleted", since the
\* record is terminal before its event is published, but nothing else can.
EventsInOrder ==
  [][\A r \in Runs :
       LET new == told'[r] \ told[r] IN
       /\ "running" \in new => "queued" \in told[r]
       /\ new \cap Terminal # {} => "running" \in told[r]
       /\ "deleted" \in told[r] => new \subseteq Terminal]_vars

\* RunManager._futures only holds work that is not done, or whose callback is
\* about to run: nothing is left behind when a run ends before its future has
\* been registered.
FuturesForgotten ==
  \A r \in futures :
    \/ task[r] \in {"pending"} \cup Busy
    \/ r \in armed
    \/ httpRun = r /\ httpPc = "arm"

\* While the application serves, the outcome of a run is counted once, after
\* its record shows it, and only for a run that was counted as submitted.
CountedOnce ==
  Serving =>
    \A r \in Runs :
      counted[r] > 0 =>
        /\ counted[r] = 1
        /\ record[r] \notin Active
        /\ r \in submitted

\* run.json goes through the life RunLifecycle promises.
Lifecycle == INSTANCE RunLifecycle WITH state <- record, serving <- Serving
FollowsLifecycle == Lifecycle!Spec

\* With a working storage every run that was queued reaches an outcome, across
\* crashes, restarts and a pool smaller than the number of runs.
RunsSettle == \A r \in Runs : record[r] \in Active ~> record[r] \notin Active

\* A run past its retention is eventually deleted, also when a pass is cut
\* short by a record that vanished or by a crash.
ExpiredRunsGo == \A r \in Runs : r \in expired ~> r \notin expired
=============================================================================
