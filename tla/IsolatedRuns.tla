---------------------------- MODULE IsolatedRuns ----------------------------
(***************************************************************************)
(* Runs executed by Kubernetes Jobs: RunManager._execute_isolated_run      *)
(* (app/manager.py) over app/kubernetes.py, the /internal/worker endpoints *)
(* of app/main.py, and the worker process of app/worker.py.                *)
(*                                                                         *)
(* Three parties write the run.json of an active run:                      *)
(*   - the executor thread that launched its Job and polls it (exec, held);*)
(*   - the event loop, where one blocking handler runs at a time and takes *)
(*     the worker's uploads or a user's DELETE (httpPc, httpRun, httpHeld);*)
(*   - start-up reconciliation (Boot).                                     *)
(* Only _write_record holds a lock, so a read-modify-write is two steps.   *)
(* The Job and its pod (job, pod, outcome) live in the cluster and outlive *)
(* the application.  The environment misbehaves as far as Faults lets it:  *)
(*   "lost"   an upload does not arrive, or its token has expired;         *)
(*   "late"   an upload is handled after its sender gave up or died, and   *)
(*            a pod outlives the cancellation of its Job;                  *)
(*   "api"    a call of the Kubernetes API raises;                         *)
(*   "fast"   the pod may overtake the executor's set_backend_job_id;      *)
(*   "crash"  the application may die instead of stopping in order.        *)
(* The pool's pending queue, upload storage and retention are LocalRuns'.  *)
(***************************************************************************)
EXTENDS Naturals, FiniteSets

CONSTANTS
  Runs,           \* run ids
  NoRun,          \* not a run id
  MaxWorkers,     \* max(1, max_concurrent_runs) of RunManager
  MaxStops,       \* bound: crashes plus orderly stops
  Faults          \* what the environment may do

ASSUME RunsAssumption == NoRun \notin Runs
ASSUME BoundsAssumption == MaxWorkers \in Nat \ {0} /\ MaxStops \in Nat
ASSUME FaultsAssumption == Faults \subseteq {"lost", "late", "api", "fast", "crash"}

VARIABLES
  record,    \* the state in run.json; "absent" before it, "removed" after it
  phase,     \* the life of the process
  stops,     \* crashes and stops so far
  exec,      \* the executor's work item of each run
  held,      \* what that work item remembers: a record, a state or an error
  launched,  \* RunManager._launched_jobs
  job,       \* the Kubernetes Job of each run
  pod,       \* the worker process of each run
  outcome,   \* how the workflow ended in the worker
  mail,      \* the worker's uploads that no handler has answered
  httpPc,    \* the handler the event loop is in ...
  httpRun,   \* ... the run it works on ...
  httpHeld,  \* ... and the record or state it remembers
  uploaded,  \* runs whose terminal result was applied to the record
  heard      \* the type of the last event published about each run

life    == <<phase, stops>>
thread  == <<exec, held, launched>>
cluster == <<job, pod, outcome, mail>>
http    == <<httpPc, httpRun, httpHeld>>
vars    == <<record, life, thread, cluster, http, uploaded, heard>>

Active   == {"queued", "running"}
Terminal == {"completed", "failed"}
Uploads  == {"started", "ended", "result"}   \* two progress reports, then the archive

Idle == {"none", "pending", "ended"}
Busy == {"launch", "note", "read", "write", "wait", "latest", "tell",
         "fail", "writefail", "tellfail", "finish"}

Init ==
  /\ record = [r \in Runs |-> "absent"]
  /\ phase = "up" /\ stops = 0
  /\ exec = [r \in Runs |-> "none"] /\ held = [r \in Runs |-> "none"]
  /\ launched = {}
  /\ job = [r \in Runs |-> "none"] /\ pod = [r \in Runs |-> "none"]
  /\ outcome = [r \in Runs |-> "none"] /\ mail = [r \in Runs |-> {}]
  /\ httpPc = "idle" /\ httpRun = NoRun /\ httpHeld = "none"
  /\ uploaded = {}
  /\ heard = [r \in Runs |-> "none"]

Present(r) == record[r] \in Active \cup Terminal
Serving    == phase = "up"
Running    == phase \in {"up", "draining"}

Write(r, s)   == record' = [record EXCEPT ![r] = s]
Publish(r, e) == heard' = [heard EXCEPT ![r] = e]

At(r, pc)          == Running /\ exec[r] = pc
Goto(r, pc)        == exec' = [exec EXCEPT ![r] = pc] /\ UNCHANGED <<held, launched>>
GotoWith(r, pc, h) == /\ exec' = [exec EXCEPT ![r] = pc]
                      /\ held' = [held EXCEPT ![r] = h]
                      /\ UNCHANGED launched
Raise(r)           == GotoWith(r, "fail", "exception")
BusyRuns           == {r \in Runs : exec[r] \in Busy}

HttpAt(pc)         == Serving /\ httpPc = pc
HttpGoto(pc)       == httpPc' = pc /\ UNCHANGED <<httpRun, httpHeld>>
HttpEnter(pc, r, h) == httpPc' = pc /\ httpRun' = r /\ httpHeld' = h
HttpReturn         == HttpEnter("idle", NoRun, "none")

\* Publishing raises when the event loop closes under the publisher.
LoopMayClose == phase = "draining"

-----------------------------------------------------------------------------
(* The worker process, app/worker.py, and the Job that owns it             *)

Exit(r, pcs, verdict) ==
  /\ pod' = [pcs EXCEPT ![r] = "gone"]
  /\ job' = [job EXCEPT ![r] = IF @ = "active" THEN verdict ELSE @]

\* Its first request is for the bundle; without it the worker exits with an
\* error before it has reported anything.
FetchBundle(r) ==
  /\ pod[r] = "fetch"
  /\ "fast" \in Faults \/ exec[r] \notin {"note", "read", "write"}
  /\ \/ /\ HttpAt("idle") /\ Present(r)
        /\ pod' = [pod EXCEPT ![r] = "report"] /\ UNCHANGED job
     \/ /\ ~Serving \/ ~Present(r) \/ "lost" \in Faults
        /\ Exit(r, pod, "failed")
  /\ UNCHANGED <<record, life, thread, outcome, mail, http, uploaded, heard>>

Send(r, kind) ==
  \/ Serving /\ mail' = [mail EXCEPT ![r] = @ \cup {kind}]
  \/ (~Serving \/ "lost" \in Faults) /\ UNCHANGED mail

ReportStarted(r) ==
  /\ pod[r] = "report"
  /\ Send(r, "started")
  /\ pod' = [pod EXCEPT ![r] = "started"]
  /\ UNCHANGED <<record, life, thread, job, outcome, http, uploaded, heard>>

RunWorkflow(r) ==
  /\ pod[r] = "work"
  /\ \E s \in Terminal : outcome' = [outcome EXCEPT ![r] = s]
  /\ Send(r, "ended")
  /\ pod' = [pod EXCEPT ![r] = "ended"]
  /\ UNCHANGED <<record, life, thread, job, http, uploaded, heard>>

UploadResult(r) ==
  /\ pod[r] = "upload"
  /\ Send(r, "result")
  /\ pod' = [pod EXCEPT ![r] = "result"]
  /\ UNCHANGED <<record, life, thread, job, outcome, http, uploaded, heard>>

\* What the worker does when its request `kind' has been answered (ok), or
\* refused, lost or timed out.  A progress report may fail, the result not.
Proceed(r, kind, ok) ==
  \/ kind = "started" /\ pod' = [pod EXCEPT ![r] = "work"] /\ UNCHANGED job
  \/ kind = "ended" /\ pod' = [pod EXCEPT ![r] = "upload"] /\ UNCHANGED job
  \/ /\ kind = "result"
     /\ Exit(r, pod, IF ok /\ outcome[r] = "completed" THEN "succeeded" ELSE "failed")

GiveUp(r) ==
  /\ pod[r] \in Uploads
  /\ pod[r] \notin mail[r] \/ "late" \in Faults
  /\ Proceed(r, pod[r], FALSE)
  /\ UNCHANGED <<record, life, thread, outcome, mail, http, uploaded, heard>>

\* Out of memory, evicted, deadline exceeded: the pod fails, and the Job with it.
PodDies(r) ==
  /\ pod[r] \notin {"none", "gone"}
  /\ mail[r] = {} \/ "late" \in Faults
  /\ Exit(r, pod, "failed")
  /\ UNCHANGED <<record, life, thread, outcome, mail, http, uploaded, heard>>

\* The response to upload `kind' reaches the worker if it still waits for it.
Answer(r, kind, ok) ==
  /\ mail' = [mail EXCEPT ![r] = @ \ {kind}]
  /\ IF pod[r] = kind THEN Proceed(r, kind, ok) ELSE UNCHANGED <<pod, job>>
  /\ UNCHANGED outcome

-----------------------------------------------------------------------------
(* Deliberately wrong variants of the definitions below, one for each      *)
(* property: the mutants that show the property can fail.                  *)

\* TypeOK: a failed work item keeps its Job registered.
ForgetLaunchedJobOfCompleted(r) ==
  /\ At(r, "finish")
  /\ launched' = IF record[r] = "completed" THEN launched \ {r} ELSE launched
  /\ exec' = [exec EXCEPT ![r] = "ended"] /\ UNCHANGED held
  /\ UNCHANGED <<record, life, cluster, http, uploaded, heard>>

\* ActiveRunHasExecutor: the Job's outcome is announced and not recorded.
ReadLatestIgnoresRecord(r) ==
  /\ At(r, "latest")
  /\ GotoWith(r, "tell", held[r])
  /\ UNCHANGED <<record, life, cluster, http, uploaded, heard>>

\* HeardCurrent: a failure is recorded and not announced.
AnnounceFailedSilently(r) ==
  /\ At(r, "tellfail")
  /\ GotoWith(r, "finish", "none")
  /\ UNCHANGED <<record, life, cluster, http, uploaded, heard>>

\* FollowsLifecycle: mark_failed creates a record that is missing.
ReadForFailureUnchecked(r) ==
  /\ At(r, "fail")
  /\ Goto(r, "writefail")
  /\ UNCHANGED <<record, life, cluster, http, uploaded, heard>>

\* RunsSettle, ThreadsReturn: a failed Job does not end the wait.
PollJobForSuccess(r) ==
  /\ At(r, "wait")
  /\ \/ job[r] = "succeeded" /\ GotoWith(r, "latest", "completed")
     \/ job[r] = "deleted" /\ Raise(r)
  /\ UNCHANGED <<record, life, cluster, http, uploaded, heard>>

\* CompletedMeansUploaded: the state inside the archive is not looked at.
ReadForResultUnread(r) ==
  /\ HttpAt("idle")
  /\ "result" \in mail[r] /\ Present(r)
  /\ HttpEnter("result", r, "completed")
  /\ UNCHANGED <<record, life, thread, cluster, uploaded, heard>>

\* CancelledBeforeRemoved: an active run is deleted without its Job.
DeleteRunOnly(r) ==
  /\ HttpAt("idle")
  /\ Present(r)
  /\ HttpEnter("erase", r, "none")
  /\ UNCHANGED <<record, life, thread, cluster, uploaded, heard>>

-----------------------------------------------------------------------------
(* RunManager._execute_isolated_run on a thread of the pool                *)

\* mark_running and its event precede the try block.  No other party knows
\* of the run yet, so the record's read and write are one step.
StartRun(r) ==
  /\ At(r, "pending")
  /\ Cardinality(BusyRuns) < MaxWorkers
  /\ Write(r, "running")
  /\ \/ Publish(r, "running") /\ Goto(r, "launch")
     \/ LoopMayClose /\ Goto(r, "ended") /\ UNCHANGED heard
  /\ UNCHANGED <<life, cluster, http, uploaded>>

\* A call that raises may still have created the Job.
LaunchJob(r) ==
  /\ At(r, "launch")
  /\ \/ /\ Goto(r, "note") \/ ("api" \in Faults /\ Raise(r))
        /\ job' = [job EXCEPT ![r] = "active"]
        /\ pod' = [pod EXCEPT ![r] = "fetch"]
     \/ "api" \in Faults /\ Raise(r) /\ UNCHANGED <<job, pod>>
  /\ UNCHANGED <<record, life, outcome, mail, http, uploaded, heard>>

NoteLaunchedJob(r) ==
  /\ At(r, "note")
  /\ launched' = launched \cup {r}
  /\ exec' = [exec EXCEPT ![r] = "read"] /\ UNCHANGED held
  /\ UNCHANGED <<record, life, cluster, http, uploaded, heard>>

\* set_backend_job_id reads the record ...
ReadForJobId(r) ==
  /\ At(r, "read")
  /\ IF Present(r) THEN GotoWith(r, "write", record[r]) ELSE Raise(r)
  /\ UNCHANGED <<record, life, cluster, http, uploaded, heard>>

\* ... and writes what it read, in a directory it creates when there is none.
SetBackendJobId(r) ==
  /\ At(r, "write")
  /\ Write(r, held[r])
  /\ GotoWith(r, "wait", "none")
  /\ UNCHANGED <<life, cluster, http, uploaded, heard>>

\* A Job that was deleted answers 404, which urlopen raises.
PollJob(r) ==
  /\ At(r, "wait")
  /\ \/ job[r] = "succeeded" /\ GotoWith(r, "latest", "completed")
     \/ job[r] = "failed" /\ GotoWith(r, "latest", "failed")
     \/ job[r] = "deleted" /\ Raise(r)
  /\ UNCHANGED <<record, life, cluster, http, uploaded, heard>>

\* Any poll may raise, none has to: nothing else ends the wait for a Job that
\* stays active, which has no deadline.
PollRaises(r) ==
  /\ At(r, "wait") /\ "api" \in Faults
  /\ Raise(r)
  /\ UNCHANGED <<record, life, cluster, http, uploaded, heard>>

\* The worker has uploaded its result if the record is terminal by now.
ReadLatest(r) ==
  /\ At(r, "latest")
  /\ IF record[r] \in Terminal
       THEN GotoWith(r, "tell", record[r])
       ELSE GotoWith(r, "fail", IF held[r] = "completed" THEN "noresult" ELSE "job")
  /\ UNCHANGED <<record, life, cluster, http, uploaded, heard>>

AnnounceLatest(r) ==
  /\ At(r, "tell")
  /\ \/ Publish(r, held[r]) /\ GotoWith(r, "finish", "none")
     \/ LoopMayClose /\ Raise(r) /\ UNCHANGED heard
  /\ UNCHANGED <<record, life, cluster, http, uploaded>>

\* mark_failed reads the record; a missing one raises, which leads to the
\* except branch and its own mark_failed, and there ends the work item ...
ReadForFailure(r) ==
  /\ At(r, "fail")
  /\ \/ Present(r) /\ Goto(r, "writefail")
     \/ ~Present(r) /\ held[r] # "exception" /\ Raise(r)
     \/ ~Present(r) /\ held[r] = "exception" /\ GotoWith(r, "finish", "none")
  /\ UNCHANGED <<record, life, cluster, http, uploaded, heard>>

\* ... and writes it back as failed, whatever became of it in between.
MarkFailed(r) ==
  /\ At(r, "writefail")
  /\ Write(r, "failed")
  /\ Goto(r, "tellfail")
  /\ UNCHANGED <<life, cluster, http, uploaded, heard>>

AnnounceFailed(r) ==
  /\ At(r, "tellfail")
  /\ \/ Publish(r, "failed") /\ GotoWith(r, "finish", "none")
     \/ /\ LoopMayClose /\ UNCHANGED heard
        /\ IF held[r] = "exception" THEN GotoWith(r, "finish", "none") ELSE Raise(r)
  /\ UNCHANGED <<record, life, cluster, http, uploaded>>

\* The finally clause.
ForgetLaunchedJob(r) ==
  /\ At(r, "finish")
  /\ launched' = launched \ {r}
  /\ exec' = [exec EXCEPT ![r] = "ended"] /\ UNCHANGED held
  /\ UNCHANGED <<record, life, cluster, http, uploaded, heard>>

-----------------------------------------------------------------------------
(* The handlers of the event loop                                          *)

\* POST /api/runs.  Nobody else can act on the run before its work item is
\* in the queue, so persisting, announcing and submitting it are one step.
SubmitRun(r) ==
  /\ HttpAt("idle")
  /\ record[r] = "absent"
  /\ Write(r, "queued")
  /\ Publish(r, "queued")
  /\ Goto(r, "pending")
  /\ UNCHANGED <<life, cluster, http, uploaded>>

\* DELETE /api/runs/{run_id}: an active run can only be deleted while its
\* Job is known, and its Job is cancelled first (else 409; missing is 404).
DeleteRun(r) ==
  /\ HttpAt("idle")
  /\ \/ record[r] \in Terminal /\ HttpEnter("erase", r, "none")
     \/ record[r] \in Active /\ r \in launched /\ HttpEnter("cancel", r, "none")
  /\ UNCHANGED <<record, life, thread, cluster, uploaded, heard>>

\* The pods of a deleted Job are deleted in the background.
CancelJob ==
  /\ HttpAt("cancel")
  /\ \/ /\ job' = [job EXCEPT ![httpRun] = "deleted"]
        /\ \/ pod' = [pod EXCEPT ![httpRun] = "gone"] /\ mail' = [mail EXCEPT ![httpRun] = {}]
           \/ "late" \in Faults /\ UNCHANGED <<pod, mail>>
        /\ HttpGoto("erase")
     \/ "api" \in Faults /\ HttpReturn /\ UNCHANGED <<job, pod, mail>>
  /\ UNCHANGED <<record, life, thread, outcome, uploaded, heard>>

\* RunStore.delete_run and the event.
EraseRun ==
  /\ HttpAt("erase")
  /\ Write(httpRun, "removed")
  /\ Publish(httpRun, "deleted")
  /\ HttpReturn
  /\ UNCHANGED <<life, thread, cluster, uploaded>>

\* PUT .../progress and PUT .../result: an unknown run is a 404.
RefuseUpload(r, kind) ==
  /\ HttpAt("idle")
  /\ kind \in mail[r] /\ ~Present(r)
  /\ Answer(r, kind, FALSE)
  /\ UNCHANGED <<record, life, thread, http, uploaded, heard>>

\* apply_worker_progress takes over the reported state if it is an active one.
ReadForProgress(r, kind) ==
  /\ HttpAt("idle")
  /\ kind \in mail[r] \ {"result"} /\ Present(r)
  /\ HttpEnter(kind, r, IF kind = "started" THEN "running" ELSE record[r])
  /\ UNCHANGED <<record, life, thread, cluster, uploaded, heard>>

WriteProgress ==
  /\ HttpAt("started") \/ HttpAt("ended")
  /\ Write(httpRun, httpHeld)
  /\ HttpEnter("announce", httpRun, httpPc)
  /\ UNCHANGED <<life, thread, cluster, uploaded, heard>>

ReadForResult(r) ==
  /\ HttpAt("idle")
  /\ "result" \in mail[r] /\ Present(r)
  /\ HttpEnter("result", r, outcome[r])
  /\ UNCHANGED <<record, life, thread, cluster, uploaded, heard>>

\* apply_worker_result_archive: mark_completed or mark_failed ...
MarkResult ==
  /\ HttpAt("result")
  /\ Write(httpRun, httpHeld)
  /\ uploaded' = uploaded \cup {httpRun}
  /\ HttpGoto("rewrite")
  /\ UNCHANGED <<life, thread, cluster, heard>>

\* ... and the same record once more, with its files.
RewriteResult ==
  /\ HttpAt("rewrite")
  /\ Write(httpRun, httpHeld)
  /\ HttpEnter("announce", httpRun, "result")
  /\ UNCHANGED <<life, thread, cluster, uploaded, heard>>

AnnounceUpload ==
  /\ HttpAt("announce")
  /\ Publish(httpRun, IF httpHeld = "result" THEN outcome[httpRun] ELSE "running")
  /\ Answer(httpRun, httpHeld, TRUE)
  /\ HttpReturn
  /\ UNCHANGED <<record, life, thread, uploaded>>

-----------------------------------------------------------------------------
(* The process: the server stops accepting and the interpreter waits for   *)
(* the pool, or it dies; start-up fails whatever was left active.          *)

DropConnections == mail' = [r \in Runs |-> {}]

Shutdown ==
  /\ HttpAt("idle")
  /\ stops < MaxStops
  /\ stops' = stops + 1
  /\ phase' = "draining"
  /\ DropConnections
  /\ UNCHANGED <<record, thread, job, pod, outcome, http, uploaded, heard>>

LoseMemory ==
  /\ phase' = "down"
  /\ exec' = [r \in Runs |-> "none"] /\ held' = [r \in Runs |-> "none"]
  /\ launched' = {}
  /\ DropConnections
  /\ HttpReturn
  /\ heard' = [r \in Runs |-> "none"]

ExitProcess ==
  /\ phase = "draining"
  /\ \A r \in Runs : exec[r] \in {"none", "ended"}
  /\ LoseMemory
  /\ UNCHANGED <<record, stops, job, pod, outcome, uploaded>>

Crash ==
  /\ "crash" \in Faults
  /\ Running
  /\ stops < MaxStops
  /\ stops' = stops + 1
  /\ LoseMemory
  /\ UNCHANGED <<record, job, pod, outcome, uploaded>>

\* RunManager.__init__ up to the first request.
Boot ==
  /\ phase = "down"
  /\ record' = [r \in Runs |-> IF record[r] \in Active THEN "failed" ELSE record[r]]
  /\ phase' = "up"
  /\ UNCHANGED <<stops, thread, cluster, http, uploaded, heard>>

-----------------------------------------------------------------------------
ExecutorStep(r) ==
  \/ StartRun(r) \/ LaunchJob(r) \/ NoteLaunchedJob(r)
  \/ ReadForJobId(r) \/ SetBackendJobId(r)
  \/ PollJob(r) \/ ReadLatest(r) \/ AnnounceLatest(r)
  \/ ReadForFailure(r) \/ MarkFailed(r) \/ AnnounceFailed(r)
  \/ ForgetLaunchedJob(r)

\* What the pod does by itself; the cluster may end it at any time.
WorkerStep(r) ==
  \/ FetchBundle(r) \/ ReportStarted(r) \/ RunWorkflow(r) \/ UploadResult(r)
  \/ GiveUp(r)

TakeUpload ==
  \E r \in Runs :
    \/ \E kind \in Uploads : RefuseUpload(r, kind)
    \/ \E kind \in Uploads : ReadForProgress(r, kind)
    \/ ReadForResult(r)

HandlerStep ==
  \/ CancelJob \/ EraseRun
  \/ WriteProgress \/ MarkResult \/ RewriteResult \/ AnnounceUpload

ProcessStep == ExitProcess \/ Boot

Next ==
  \/ HandlerStep \/ TakeUpload \/ ProcessStep
  \/ \E r \in Runs : SubmitRun(r) \/ DeleteRun(r)
  \/ \E r \in Runs : ExecutorStep(r) \/ PollRaises(r)
  \/ \E r \in Runs : WorkerStep(r) \/ PodDies(r)
  \/ Shutdown \/ Crash

\* Threads and handlers keep going, uploads that arrived are taken, and a
\* stopped application is started again.  An error of the API may come, and is
\* not counted on.
AppFairness ==
  /\ WF_vars(HandlerStep) /\ SF_vars(TakeUpload) /\ WF_vars(ProcessStep)
  /\ \A r \in Runs : WF_vars(ExecutorStep(r))

\* A cluster that schedules or fails every pod, and a workflow that ends: what
\* neither the manifest of the Job nor wait() enforces.
JobsEnd == \A r \in Runs : SF_vars(WorkerStep(r))

Spec == Init /\ [][Next]_vars
AppSpec == Spec /\ AppFairness
FairSpec == AppSpec /\ JobsEnd
-----------------------------------------------------------------------------
(* Properties                                                              *)

\* Every variable stays within the values the code gives it, and only work
\* in progress has a noted Job.
TypeOK ==
  /\ record \in [Runs -> {"absent", "removed"} \cup Active \cup Terminal]
  /\ phase \in {"up", "draining", "down"}
  /\ stops \in 0 .. MaxStops
  /\ exec \in [Runs -> Idle \cup Busy]
  /\ held \in [Runs -> {"none", "noresult", "job", "exception"} \cup Active \cup Terminal]
  /\ launched \subseteq BusyRuns
  /\ job \in [Runs -> {"none", "active", "succeeded", "failed", "deleted"}]
  /\ pod \in [Runs -> {"none", "fetch", "report", "work", "upload", "gone"} \cup Uploads]
  /\ outcome \in [Runs -> {"none"} \cup Terminal]
  /\ mail \in [Runs -> SUBSET Uploads]
  /\ httpPc \in {"idle", "cancel", "erase", "rewrite", "announce"} \cup Uploads
  /\ httpRun \in Runs \cup {NoRun}
  /\ (httpPc = "idle") <=> (httpRun = NoRun)
  /\ httpHeld \in {"none"} \cup Uploads \cup Active \cup Terminal
  /\ uploaded \subseteq Runs
  /\ heard \in [Runs -> {"none", "deleted"} \cup Active \cup Terminal]

\* While the application serves, an active run has a work item that will
\* settle it: reconciliation left none behind, and an upload of the worker
\* does not bring a settled run back to life.
ActiveRunHasExecutor ==
  Serving =>
    \A r \in Runs :
      /\ record[r] = "queued" => exec[r] = "pending"
      /\ record[r] = "running" => exec[r] \in Busy \ {"tellfail", "finish"}

\* While the application serves and once the parties are done with a run, the
\* last event a subscriber got about it tells the state its record is in,
\* whichever of executor and handler came last.
HeardCurrent ==
  Serving =>
    \A r \in Runs \ {httpRun} :
      Present(r) /\ exec[r] = "ended" => heard[r] = record[r]

\* run.json goes through the life JobLifecycle promises.
Cancelled == {r \in Runs : job[r] = "deleted"}
Lifecycle == INSTANCE JobLifecycle WITH
               state <- record, serving <- Serving, cancelled <- Cancelled

\* When uploads are lost or handled in time, and none before the Job's name is
\* stored, the API answers and the application stops in order, then executor,
\* uploads and DELETE leave each run its life although each writes what it read
\* before: it starts once, settles once, its outcome is not overturned, and what
\* comes back after its removal was cancelled and never completes.
FollowsLifecycle == Lifecycle!Spec

\* While no upload is late, the API answers and every Job ends, every run reaches
\* an outcome, across orderly stops, failing pods and cancelled Jobs.
RunsSettle == \A r \in Runs : record[r] \in Active ~> record[r] \notin Active

\* Whatever is lost, late, crashed or restarted, a run is only shown as
\* completed when its worker finished the workflow and uploaded that result.
CompletedMeansUploaded ==
  \A r \in Runs :
    record[r] = "completed" => r \in uploaded /\ outcome[r] = "completed"

\* An active record is only ever removed once its Job is cancelled or over: a
\* user who deletes a running run leaves no Job of it behind.
CancelledBeforeRemoved ==
  [][\A r \in Runs :
       record[r] \in Active /\ record'[r] = "removed" => job[r] # "active"]_vars

\* Whatever is lost, late, raised, crashed or restarted, only a Job that never
\* ends holds a thread of the pool for ever: every work item ends, or from some
\* point on waits for a Job that stays active.
ThreadsReturn ==
  \A r \in Runs :
    exec[r] \in Busy ~> \/ exec[r] \notin Busy
                       \/ [](exec[r] = "wait" /\ job[r] = "active")

\* "Worker Kubernetes Job completed without uploading a terminal result."
\* (app/manager.py:182): a run is failed with this error only when no result
\* of its worker was applied.
NoResultMeansNoUpload ==
  \A r \in Runs : held[r] = "noresult" => r \notin uploaded
=============================================================================
