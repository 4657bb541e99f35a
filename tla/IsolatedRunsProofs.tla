-------------------------- MODULE IsolatedRunsProofs --------------------------
(***************************************************************************)
(* Proofs about IsolatedRuns for any set of runs, any pool size and any    *)
(* number of crashes and stops.                                            *)
(*                                                                         *)
(* The first part holds for every choice of Faults.  IInv says what each   *)
(* of the three writers of a run.json knows when it holds a copy of it:    *)
(* what the worker has done (WorkerInv), what the executor remembers       *)
(* (ThreadInv) and what the handler of the event loop remembers (HttpInv). *)
(* The second part is about an environment in which uploads are handled in *)
(* time and the API answers: there a worker's uploads meet an executor     *)
(* that waits for them (CalmInv), and when the pod does not overtake it    *)
(* either, no writer undoes what another one wrote (OrderInv).             *)
(***************************************************************************)
EXTENDS IsolatedRuns, TLAPS

Noting == {"note", "read", "write"}

\* A record says "completed" only for this reason.
Done(r) == r \in uploaded /\ outcome[r] = "completed"

\* The worker's result for r is applied, and not yet answered.
Applying(r) ==
  httpRun = r /\ (httpPc = "rewrite" \/ (httpPc = "announce" /\ httpHeld = "result"))

\* Before its Job is launched a run is known to its work item alone.
FreshInv(r) ==
  record[r] = "absent" \/ exec[r] \in {"pending", "launch"} =>
    /\ record[r] = "absent" => exec[r] = "none"
    /\ exec[r] = "pending" => record[r] = "queued"
    /\ exec[r] = "launch" => record[r] = "running"
    /\ job[r] = "none" /\ pod[r] = "none" /\ outcome[r] = "none" /\ mail[r] = {}
    /\ r \notin uploaded /\ r \notin launched /\ httpRun # r

\* What the state of the worker process says about its outcome and uploads.
WorkerInv(r) ==
  /\ pod[r] \in {"none", "fetch", "report", "started", "work"} => outcome[r] = "none"
  /\ pod[r] \in {"ended", "upload", "result"} => outcome[r] \in Terminal
  /\ "result" \in mail[r] => outcome[r] \in Terminal /\ pod[r] \in {"result", "gone"}
  /\ pod[r] = "gone" => job[r] # "active"
  /\ r \in uploaded => outcome[r] \in Terminal

\* What the work item remembers, and what a settled record tells it.
ThreadInv(r) ==
  /\ exec[r] = "write" => held[r] \in Active \cup Terminal
  /\ exec[r] = "write" /\ held[r] = "completed" => Done(r)
  /\ exec[r] \in {"latest", "tell"} => held[r] \in Terminal
  /\ exec[r] \in Noting /\ record[r] \in Terminal => r \in uploaded
  /\ exec[r] \in Noting /\ r \in uploaded => pod[r] = "gone" \/ Applying(r)

\* What the handler remembers of the run it works on.
HttpInv ==
  /\ ~Serving => httpPc = "idle"
  /\ httpPc \in {"started", "ended"} =>
       /\ httpHeld \in Active \cup Terminal
       /\ httpHeld = "completed" => Done(httpRun)
       /\ exec[httpRun] \in Noting /\ httpHeld \in Terminal => httpRun \in uploaded
  /\ httpPc \in {"result", "rewrite"} =>
       /\ httpHeld = outcome[httpRun] /\ httpHeld \in Terminal
       /\ pod[httpRun] \in {"result", "gone"}
  /\ httpPc = "rewrite" => httpRun \in uploaded
  /\ httpPc = "announce" => httpHeld \in Uploads
  /\ httpPc = "announce" /\ httpHeld = "result" =>
       outcome[httpRun] \in Terminal /\ pod[httpRun] \in {"result", "gone"}
  /\ httpPc = "erase" =>
       \/ job[httpRun] # "active"
       \/ record[httpRun] \notin Active /\ exec[httpRun] \notin Noting

\* A process that does not run has no threads.
MemoryInv == ~Running => exec = [r \in Runs |-> "none"] /\ launched = {}

\* A Job is noted after its launch and forgotten by the finally clause.
LaunchedInv == \A r \in launched : exec[r] \in Busy \ {"launch", "note"}

IInv ==
  /\ TypeOK
  /\ \A r \in Runs : FreshInv(r) /\ WorkerInv(r) /\ ThreadInv(r)
  /\ HttpInv
  /\ MemoryInv
  /\ LaunchedInv
  /\ CompletedMeansUploaded

-----------------------------------------------------------------------------
(* Uploads may be lost, and the pod may overtake its executor, but nothing *)
(* is late: what holds besides IInv when Faults \subseteq {"lost", "fast"} *)

Dead(r) == pod[r] \in {"none", "gone"}

\* A worker process lives only while its executor launches it and waits, and
\* an upload lives only while its sender waits for the answer.
CalmWorkerInv(r) ==
  /\ ~Dead(r) => exec[r] \in Noting \cup {"wait"}
  /\ job[r] \in {"succeeded", "failed", "deleted"} => pod[r] = "gone"
  /\ mail[r] \subseteq {pod[r]}
  /\ record[r] \in Terminal \cup {"removed"} => Dead(r) \/ Applying(r)

\* The work item and the record of its run.
CalmThreadInv(r) ==
  /\ exec[r] = "write" => held[r] \in {"running"} \cup Terminal
  /\ exec[r] = "write" /\ held[r] \in Terminal =>
       record[r] \in {held[r], "removed"} /\ job[r] # "deleted"
  /\ exec[r] \in Noting \cup {"wait"} => record[r] # "queued"
  /\ exec[r] \in Noting \cup {"wait"} /\ job[r] = "deleted" =>
       record[r] \in {"running", "removed"}
  /\ exec[r] = "tell" => record[r] \in {held[r], "removed"}
  /\ exec[r] = "tellfail" => record[r] \in {"failed", "removed"}
  /\ Serving /\ exec[r] \in {"fail", "writefail"} => record[r] \in {"running", "removed"}
  /\ Serving /\ record[r] = "queued" => exec[r] = "pending"
  /\ Serving /\ record[r] = "running" => exec[r] \in Busy \ {"tell", "tellfail", "finish"}
  /\ Serving /\ exec[r] \in {"finish", "ended"} /\ Present(r) => heard[r] = record[r]

\* The handler of an upload has its sender waiting.
CalmHttpInv ==
  /\ httpPc \in Uploads => pod[httpRun] = httpPc /\ httpPc \in mail[httpRun]
  /\ httpPc = "rewrite" => pod[httpRun] = "result" /\ "result" \in mail[httpRun]
  /\ Applying(httpRun) => record[httpRun] \in {outcome[httpRun], "running"}
  /\ httpPc = "announce" => pod[httpRun] = httpHeld /\ httpHeld \in mail[httpRun]
  /\ httpPc \in {"started", "ended"} => httpHeld = "running"
  /\ httpPc = "cancel" /\ exec[httpRun] \in Noting \cup {"wait"} =>
       record[httpRun] = "running"
  /\ httpPc = "erase" => Dead(httpRun)

CalmInv ==
  /\ \A r \in Runs : CalmWorkerInv(r) /\ CalmThreadInv(r)
  /\ CalmHttpInv

\* When the pod waits for its executor as well, Faults \subseteq {"lost"}, no
\* writer holds an outdated state of a record that is there.  One that may create
\* a record anew does so for a run whose Job was cancelled, and a DELETE removes
\* what is over or cancelled.
OrderInv ==
  /\ \A r \in Runs :
       /\ exec[r] \in Noting => pod[r] \in {"fetch", "gone"} /\ record[r] \in {"running", "removed"}
       /\ exec[r] = "write" => held[r] = "running"
       /\ exec[r] \in {"write", "writefail"} /\ record[r] = "removed" => job[r] = "deleted"
       /\ Running /\ record[r] = "queued" => exec[r] = "pending"
  /\ httpPc = "rewrite" => record[httpRun] = httpHeld
  /\ httpPc = "cancel" => record[httpRun] \in {"running", "failed"}
  /\ httpPc = "erase" =>
       \/ record[httpRun] \in Terminal
       \/ record[httpRun] = "running" /\ job[httpRun] = "deleted"

-----------------------------------------------------------------------------
LEMMA InitIInv == Init => IInv
BY RunsAssumption, BoundsAssumption
   DEF Init, IInv, TypeOK, FreshInv, WorkerInv, ThreadInv, HttpInv, MemoryInv,
       LaunchedInv, CompletedMeansUploaded, Noting, Done, Applying, Active, Terminal,
       Uploads, Idle, Busy, BusyRuns, Serving, Running

\* Every action preserves the inductive invariant, whatever the environment does.
LEMMA StepIInv == IInv /\ [Next]_vars => IInv'
<1> SUFFICES ASSUME IInv, [Next]_vars PROVE IInv'
  OBVIOUS
<1> USE RunsAssumption, BoundsAssumption
    DEF IInv, TypeOK, FreshInv, WorkerInv, ThreadInv, HttpInv, MemoryInv,
        LaunchedInv, CompletedMeansUploaded, Noting, Done, Applying, Active, Terminal,
        Uploads, Idle, Busy, BusyRuns, Serving, Running, Present, life, thread, cluster,
        http, Write, Publish, At, Goto, GotoWith, Raise, HttpAt, HttpGoto, HttpEnter,
        HttpReturn, LoopMayClose, DropConnections, LoseMemory
<1>1. CASE CancelJob
  BY <1>1 DEF CancelJob
<1>2. CASE EraseRun
  BY <1>2 DEF EraseRun
<1>3. CASE WriteProgress
  BY <1>3 DEF WriteProgress
<1>4. CASE MarkResult
  BY <1>4 DEF MarkResult
<1>5. CASE RewriteResult
  BY <1>5 DEF RewriteResult
<1>6. CASE AnnounceUpload
  BY <1>6 DEF AnnounceUpload, Answer, Proceed, Exit
<1>7. CASE ExitProcess
  BY <1>7 DEF ExitProcess
<1>8. CASE Boot
  BY <1>8 DEF Boot
<1>9. CASE Shutdown
  BY <1>9 DEF Shutdown
<1>10. CASE Crash
  BY <1>10 DEF Crash
<1>11. ASSUME NEW r \in Runs, SubmitRun(r) PROVE IInv'
  BY <1>11 DEF SubmitRun
<1>12. ASSUME NEW r \in Runs, DeleteRun(r) PROVE IInv'
  BY <1>12 DEF DeleteRun
<1>13. ASSUME NEW r \in Runs, ReadForResult(r) PROVE IInv'
  BY <1>13 DEF ReadForResult
<1>14. ASSUME NEW r \in Runs, StartRun(r) PROVE IInv'
  BY <1>14 DEF StartRun
<1>15. ASSUME NEW r \in Runs, LaunchJob(r) PROVE IInv'
  BY <1>15 DEF LaunchJob
<1>16. ASSUME NEW r \in Runs, NoteLaunchedJob(r) PROVE IInv'
  BY <1>16 DEF NoteLaunchedJob
<1>17. ASSUME NEW r \in Runs, ReadForJobId(r) PROVE IInv'
  BY <1>17 DEF ReadForJobId
<1>18. ASSUME NEW r \in Runs, SetBackendJobId(r) PROVE IInv'
  BY <1>18 DEF SetBackendJobId
<1>19. ASSUME NEW r \in Runs, PollJob(r) PROVE IInv'
  BY <1>19 DEF PollJob
<1>20. ASSUME NEW r \in Runs, ReadLatest(r) PROVE IInv'
  BY <1>20 DEF ReadLatest
<1>21. ASSUME NEW r \in Runs, AnnounceLatest(r) PROVE IInv'
  BY <1>21 DEF AnnounceLatest
<1>22. ASSUME NEW r \in Runs, ReadForFailure(r) PROVE IInv'
  BY <1>22 DEF ReadForFailure
<1>23. ASSUME NEW r \in Runs, MarkFailed(r) PROVE IInv'
  BY <1>23 DEF MarkFailed
<1>24. ASSUME NEW r \in Runs, AnnounceFailed(r) PROVE IInv'
  BY <1>24 DEF AnnounceFailed
<1>25. ASSUME NEW r \in Runs, ForgetLaunchedJob(r) PROVE IInv'
  BY <1>25 DEF ForgetLaunchedJob
<1>26. ASSUME NEW r \in Runs, FetchBundle(r) PROVE IInv'
  BY <1>26 DEF FetchBundle, Exit
<1>27. ASSUME NEW r \in Runs, ReportStarted(r) PROVE IInv'
  BY <1>27 DEF ReportStarted, Send
<1>28. ASSUME NEW r \in Runs, RunWorkflow(r) PROVE IInv'
  BY <1>28 DEF RunWorkflow, Send
<1>29. ASSUME NEW r \in Runs, UploadResult(r) PROVE IInv'
  BY <1>29 DEF UploadResult, Send
<1>30. ASSUME NEW r \in Runs, GiveUp(r) PROVE IInv'
  BY <1>30 DEF GiveUp, Proceed, Exit
<1>31. ASSUME NEW r \in Runs, PodDies(r) PROVE IInv'
  BY <1>31 DEF PodDies, Exit
<1>32. ASSUME NEW r \in Runs, NEW kind \in Uploads, RefuseUpload(r, kind) PROVE IInv'
  BY <1>32 DEF RefuseUpload, Answer, Proceed, Exit
<1>33. ASSUME NEW r \in Runs, NEW kind \in Uploads, ReadForProgress(r, kind) PROVE IInv'
  BY <1>33 DEF ReadForProgress
<1>34. ASSUME NEW r \in Runs, PollRaises(r) PROVE IInv'
  BY <1>34 DEF PollRaises
<1>35. CASE UNCHANGED vars
  BY <1>35 DEF vars
<1> HIDE DEF IInv
<1>36. QED
  BY <1>1, <1>2, <1>3, <1>4, <1>5, <1>6, <1>7, <1>8, <1>9, <1>10, <1>11, <1>12,
     <1>13, <1>14, <1>15, <1>16, <1>17, <1>18, <1>19, <1>20, <1>21, <1>22,
     <1>23, <1>24, <1>25, <1>26, <1>27, <1>28, <1>29, <1>30, <1>31, <1>32,
     <1>33, <1>34, <1>35
     DEF Next, HandlerStep, TakeUpload, ProcessStep, ExecutorStep, WorkerStep

\* The inductive invariant holds of every reachable state.
LEMMA Inductive == Spec => []IInv
BY InitIInv, StepIInv, PTL DEF Spec

-----------------------------------------------------------------------------
(* Uploads are handled in time                                             *)

LEMMA InitCalmInv == Init => CalmInv
BY RunsAssumption
   DEF Init, CalmInv, CalmWorkerInv, CalmThreadInv, CalmHttpInv, Dead, Applying, Noting,
       Active, Terminal, Uploads, Busy, Serving, Present

\* When nothing is late, the Kubernetes API answers and the process stops in
\* order, whoever settles a record has the last word on it, or fails it again.
LEMMA StepCalmInv ==
  ASSUME Faults \subseteq {"lost", "fast"}, IInv, CalmInv, [Next]_vars
  PROVE  CalmInv'
<1> USE RunsAssumption
    DEF IInv, TypeOK, FreshInv, WorkerInv, ThreadInv, HttpInv, MemoryInv,
        LaunchedInv, Noting, Applying, Active, Terminal, Uploads, Idle, Busy,
        BusyRuns, Serving, Running, Present, life, thread, cluster, http, Write, Publish,
        At, Goto, GotoWith, Raise, HttpAt, HttpGoto, HttpEnter, HttpReturn, LoopMayClose,
        DropConnections, LoseMemory, CalmInv, CalmWorkerInv, CalmThreadInv, CalmHttpInv, Dead
<1>1. CASE CancelJob
  BY <1>1 DEF CancelJob
<1>2. CASE EraseRun
  BY <1>2 DEF EraseRun
<1>3. CASE WriteProgress
  BY <1>3 DEF WriteProgress
<1>4. CASE MarkResult
  BY <1>4 DEF MarkResult
<1>5. CASE RewriteResult
  BY <1>5 DEF RewriteResult
<1>6. CASE AnnounceUpload
  BY <1>6 DEF AnnounceUpload, Answer, Proceed, Exit
<1>7. CASE ExitProcess
  BY <1>7 DEF ExitProcess
<1>8. CASE Boot
  BY <1>8 DEF Boot
<1>9. CASE Shutdown
  BY <1>9 DEF Shutdown
<1>10. CASE Crash
  BY <1>10 DEF Crash
<1>11. ASSUME NEW r \in Runs, SubmitRun(r) PROVE CalmInv'
  BY <1>11 DEF SubmitRun
<1>12. ASSUME NEW r \in Runs, DeleteRun(r) PROVE CalmInv'
  BY <1>12 DEF DeleteRun
<1>13. ASSUME NEW r \in Runs, ReadForResult(r) PROVE CalmInv'
  BY <1>13 DEF ReadForResult
<1>14. ASSUME NEW r \in Runs, StartRun(r) PROVE CalmInv'
  BY <1>14 DEF StartRun
<1>15. ASSUME NEW r \in Runs, LaunchJob(r) PROVE CalmInv'
  BY <1>15 DEF LaunchJob
<1>16. ASSUME NEW r \in Runs, NoteLaunchedJob(r) PROVE CalmInv'
  BY <1>16 DEF NoteLaunchedJob
<1>17. ASSUME NEW r \in Runs, ReadForJobId(r) PROVE CalmInv'
  BY <1>17 DEF ReadForJobId
<1>18. ASSUME NEW r \in Runs, SetBackendJobId(r) PROVE CalmInv'
  BY <1>18 DEF SetBackendJobId
<1>19. ASSUME NEW r \in Runs, PollJob(r) PROVE CalmInv'
  BY <1>19 DEF PollJob
<1>20. ASSUME NEW r \in Runs, ReadLatest(r) PROVE CalmInv'
  BY <1>20 DEF ReadLatest
<1>21. ASSUME NEW r \in Runs, AnnounceLatest(r) PROVE CalmInv'
  BY <1>21 DEF AnnounceLatest
<1>22. ASSUME NEW r \in Runs, ReadForFailure(r) PROVE CalmInv'
  BY <1>22 DEF ReadForFailure
<1>23. ASSUME NEW r \in Runs, MarkFailed(r) PROVE CalmInv'
  BY <1>23 DEF MarkFailed
<1>24. ASSUME NEW r \in Runs, AnnounceFailed(r) PROVE CalmInv'
  BY <1>24 DEF AnnounceFailed
<1>25. ASSUME NEW r \in Runs, ForgetLaunchedJob(r) PROVE CalmInv'
  BY <1>25 DEF ForgetLaunchedJob
<1>26. ASSUME NEW r \in Runs, FetchBundle(r) PROVE CalmInv'
  BY <1>26 DEF FetchBundle, Exit
<1>27. ASSUME NEW r \in Runs, ReportStarted(r) PROVE CalmInv'
  BY <1>27 DEF ReportStarted, Send
<1>28. ASSUME NEW r \in Runs, RunWorkflow(r) PROVE CalmInv'
  BY <1>28 DEF RunWorkflow, Send
<1>29. ASSUME NEW r \in Runs, UploadResult(r) PROVE CalmInv'
  BY <1>29 DEF UploadResult, Send
<1>30. ASSUME NEW r \in Runs, GiveUp(r) PROVE CalmInv'
  BY <1>30 DEF GiveUp, Proceed, Exit
<1>31. ASSUME NEW r \in Runs, PodDies(r) PROVE CalmInv'
  BY <1>31 DEF PodDies, Exit
<1>32. ASSUME NEW r \in Runs, NEW kind \in Uploads, RefuseUpload(r, kind) PROVE CalmInv'
  BY <1>32 DEF RefuseUpload, Answer, Proceed, Exit
<1>33. ASSUME NEW r \in Runs, NEW kind \in Uploads, ReadForProgress(r, kind) PROVE CalmInv'
  BY <1>33 DEF ReadForProgress
<1>34. ASSUME NEW r \in Runs, PollRaises(r) PROVE CalmInv'
  BY <1>34 DEF PollRaises
<1>35. CASE UNCHANGED vars
  BY <1>35 DEF vars
<1> HIDE DEF IInv, CalmInv
<1>36. QED
  BY <1>1, <1>2, <1>3, <1>4, <1>5, <1>6, <1>7, <1>8, <1>9, <1>10, <1>11, <1>12,
     <1>13, <1>14, <1>15, <1>16, <1>17, <1>18, <1>19, <1>20, <1>21, <1>22,
     <1>23, <1>24, <1>25, <1>26, <1>27, <1>28, <1>29, <1>30, <1>31, <1>32,
     <1>33, <1>34, <1>35
     DEF Next, HandlerStep, TakeUpload, ProcessStep, ExecutorStep, WorkerStep

\* When the pod also waits until the executor has stored the name of its Job,
\* what a cancelled run's executor still writes is all that can come back.
LEMMA StepOrderInv ==
  ASSUME Faults \subseteq {"lost"}, IInv, CalmInv, OrderInv, [Next]_vars
  PROVE  OrderInv'
<1> USE RunsAssumption
    DEF IInv, TypeOK, FreshInv, WorkerInv, ThreadInv, HttpInv, MemoryInv,
        LaunchedInv, Noting, Applying, Active, Terminal, Uploads, Idle, Busy,
        BusyRuns, Serving, Running, Present, life, thread, cluster, http, Write, Publish,
        At, Goto, GotoWith, Raise, HttpAt, HttpGoto, HttpEnter, HttpReturn, LoopMayClose,
        DropConnections, LoseMemory, CalmInv, CalmWorkerInv, CalmThreadInv, CalmHttpInv, Dead,
        OrderInv
<1>1. CASE CancelJob
  BY <1>1 DEF CancelJob
<1>2. CASE EraseRun
  BY <1>2 DEF EraseRun
<1>3. CASE WriteProgress
  BY <1>3 DEF WriteProgress
<1>4. CASE MarkResult
  BY <1>4 DEF MarkResult
<1>5. CASE RewriteResult
  BY <1>5 DEF RewriteResult
<1>6. CASE AnnounceUpload
  BY <1>6 DEF AnnounceUpload, Answer, Proceed, Exit
<1>7. CASE ExitProcess
  BY <1>7 DEF ExitProcess
<1>8. CASE Boot
  BY <1>8 DEF Boot
<1>9. CASE Shutdown
  BY <1>9 DEF Shutdown
<1>10. CASE Crash
  BY <1>10 DEF Crash
<1>11. ASSUME NEW r \in Runs, SubmitRun(r) PROVE OrderInv'
  BY <1>11 DEF SubmitRun
<1>12. ASSUME NEW r \in Runs, DeleteRun(r) PROVE OrderInv'
  BY <1>12 DEF DeleteRun
<1>13. ASSUME NEW r \in Runs, ReadForResult(r) PROVE OrderInv'
  BY <1>13 DEF ReadForResult
<1>14. ASSUME NEW r \in Runs, StartRun(r) PROVE OrderInv'
  BY <1>14 DEF StartRun
<1>15. ASSUME NEW r \in Runs, LaunchJob(r) PROVE OrderInv'
  BY <1>15 DEF LaunchJob
<1>16. ASSUME NEW r \in Runs, NoteLaunchedJob(r) PROVE OrderInv'
  BY <1>16 DEF NoteLaunchedJob
<1>17. ASSUME NEW r \in Runs, ReadForJobId(r) PROVE OrderInv'
  BY <1>17 DEF ReadForJobId
<1>18. ASSUME NEW r \in Runs, SetBackendJobId(r) PROVE OrderInv'
  BY <1>18 DEF SetBackendJobId
<1>19. ASSUME NEW r \in Runs, PollJob(r) PROVE OrderInv'
  BY <1>19 DEF PollJob
<1>20. ASSUME NEW r \in Runs, ReadLatest(r) PROVE OrderInv'
  BY <1>20 DEF ReadLatest
<1>21. ASSUME NEW r \in Runs, AnnounceLatest(r) PROVE OrderInv'
  BY <1>21 DEF AnnounceLatest
<1>22. ASSUME NEW r \in Runs, ReadForFailure(r) PROVE OrderInv'
  BY <1>22 DEF ReadForFailure
<1>23. ASSUME NEW r \in Runs, MarkFailed(r) PROVE OrderInv'
  BY <1>23 DEF MarkFailed
<1>24. ASSUME NEW r \in Runs, AnnounceFailed(r) PROVE OrderInv'
  BY <1>24 DEF AnnounceFailed
<1>25. ASSUME NEW r \in Runs, ForgetLaunchedJob(r) PROVE OrderInv'
  BY <1>25 DEF ForgetLaunchedJob
<1>26. ASSUME NEW r \in Runs, FetchBundle(r) PROVE OrderInv'
  BY <1>26 DEF FetchBundle, Exit
<1>27. ASSUME NEW r \in Runs, ReportStarted(r) PROVE OrderInv'
  BY <1>27 DEF ReportStarted, Send
<1>28. ASSUME NEW r \in Runs, RunWorkflow(r) PROVE OrderInv'
  BY <1>28 DEF RunWorkflow, Send
<1>29. ASSUME NEW r \in Runs, UploadResult(r) PROVE OrderInv'
  BY <1>29 DEF UploadResult, Send
<1>30. ASSUME NEW r \in Runs, GiveUp(r) PROVE OrderInv'
  BY <1>30 DEF GiveUp, Proceed, Exit
<1>31. ASSUME NEW r \in Runs, PodDies(r) PROVE OrderInv'
  BY <1>31 DEF PodDies, Exit
<1>32. ASSUME NEW r \in Runs, NEW kind \in Uploads, RefuseUpload(r, kind) PROVE OrderInv'
  BY <1>32 DEF RefuseUpload, Answer, Proceed, Exit
<1>33. ASSUME NEW r \in Runs, NEW kind \in Uploads, ReadForProgress(r, kind) PROVE OrderInv'
  BY <1>33 DEF ReadForProgress
<1>34. ASSUME NEW r \in Runs, PollRaises(r) PROVE OrderInv'
  BY <1>34 DEF PollRaises
<1>35. CASE UNCHANGED vars
  BY <1>35 DEF vars
<1> HIDE DEF IInv, CalmInv, OrderInv
<1>36. QED
  BY <1>1, <1>2, <1>3, <1>4, <1>5, <1>6, <1>7, <1>8, <1>9, <1>10, <1>11, <1>12,
     <1>13, <1>14, <1>15, <1>16, <1>17, <1>18, <1>19, <1>20, <1>21, <1>22,
     <1>23, <1>24, <1>25, <1>26, <1>27, <1>28, <1>29, <1>30, <1>31, <1>32,
     <1>33, <1>34, <1>35
     DEF Next, HandlerStep, TakeUpload, ProcessStep, ExecutorStep, WorkerStep

LEMMA CalmInductive ==
  ASSUME Faults \subseteq {"lost", "fast"}
  PROVE  Spec => [](IInv /\ CalmInv)
<1>1. IInv /\ CalmInv /\ [Next]_vars => (IInv /\ CalmInv)'
  BY StepIInv, StepCalmInv
<1>2. QED
  BY <1>1, InitIInv, InitCalmInv, PTL DEF Spec

LEMMA OrderInductive ==
  ASSUME Faults \subseteq {"lost"}
  PROVE  Spec => [](IInv /\ CalmInv /\ OrderInv)
<1>1. Init => OrderInv
  BY DEF Init, OrderInv, Noting
<1>2. IInv /\ CalmInv /\ OrderInv /\ [Next]_vars => (IInv /\ CalmInv /\ OrderInv)'
  BY StepIInv, StepCalmInv, StepOrderInv
<1>3. QED
  BY <1>1, <1>2, InitIInv, InitCalmInv, PTL DEF Spec

-----------------------------------------------------------------------------
\* Every variable of isolated execution keeps its type, under every fault, and
\* only a work item in progress has a noted Job.
THEOREM TypeCorrect == Spec => []TypeOK
<1>1. IInv => TypeOK
  BY DEF IInv
<1>2. QED
  BY <1>1, Inductive, PTL

\* Whatever is lost, late, crashed or restarted, run.json only says that a run
\* completed when its worker finished the workflow and its result was applied.
THEOREM CompletedCorrect == Spec => []CompletedMeansUploaded
<1>1. IInv => CompletedMeansUploaded
  BY DEF IInv
<1>2. QED
  BY <1>1, Inductive, PTL

\* Under every fault, an active record is removed only when its Job has been
\* cancelled or is over, although the executor may have revived the record
\* between the check of DELETE and the removal.
THEOREM CancelledCorrect == Spec => CancelledBeforeRemoved
<1> DEFINE Ended ==
      \A r \in Runs :
        record[r] \in Active /\ record'[r] = "removed" => job[r] # "active"
<1>1. ASSUME IInv, [Next]_vars PROVE [Ended]_vars
  <2> USE <1>1 DEF IInv, TypeOK, FreshInv, ThreadInv, HttpInv, MemoryInv, Active, Terminal,
                   Write, life, thread, cluster, http
  <2>1. CASE EraseRun
    BY <2>1 DEF EraseRun, HttpAt
  <2>2. ASSUME NEW r \in Runs, SubmitRun(r) \/ StartRun(r) \/ MarkFailed(r) PROVE Ended
    BY <2>2 DEF SubmitRun, StartRun, MarkFailed
  <2>3. ASSUME NEW r \in Runs, SetBackendJobId(r) PROVE Ended
    BY <2>3 DEF SetBackendJobId, At
  <2>4. CASE WriteProgress \/ MarkResult \/ RewriteResult
    BY <2>4 DEF WriteProgress, MarkResult, RewriteResult, HttpAt
  <2>5. CASE Boot
    BY <2>5 DEF Boot
  <2>6. CASE UNCHANGED record
    BY <2>6
  <2>7. QED
    BY <2>1, <2>2, <2>3, <2>4, <2>5, <2>6
       DEF Next, HandlerStep, TakeUpload, ProcessStep, ExecutorStep, WorkerStep, vars,
           CancelJob, AnnounceUpload, ExitProcess, Shutdown, Crash, DeleteRun,
           ReadForResult, LaunchJob, NoteLaunchedJob, ReadForJobId, PollJob, PollRaises,
           ReadLatest, AnnounceLatest, ReadForFailure, AnnounceFailed, ForgetLaunchedJob,
           FetchBundle, ReportStarted, RunWorkflow, UploadResult, GiveUp, PodDies,
           RefuseUpload, ReadForProgress
<1>2. QED
  BY <1>1, Inductive, PTL DEF Spec, CancelledBeforeRemoved

\* When no upload is late, the Kubernetes API answers and the application stops
\* in order, an active run of a serving application has a work item that will
\* settle it, even if its worker was done before the executor had stored the
\* name of the Job.
THEOREM ExecutorCorrect ==
  ASSUME Faults \subseteq {"lost", "fast"}
  PROVE  Spec => []ActiveRunHasExecutor
<1>1. CalmInv => ActiveRunHasExecutor
  BY DEF CalmInv, CalmThreadInv, ActiveRunHasExecutor
<1>2. QED
  BY <1>1, CalmInductive, PTL

\* In the same environment, the last event about a run that all parties are done
\* with tells the state its record is in.
THEOREM HeardCorrect ==
  ASSUME Faults \subseteq {"lost", "fast"}
  PROVE  Spec => []HeardCurrent
<1>1. CalmInv => HeardCurrent
  BY DEF CalmInv, CalmThreadInv, HeardCurrent
<1>2. QED
  BY <1>1, CalmInductive, PTL

\* When, moreover, the pod fetches its bundle only after the executor has stored
\* the name of the Job, run.json goes through the life JobLifecycle
\* promises, whatever copies executor, uploads and DELETE hold of it: a run
\* starts once and settles once, and only one that was cancelled can come back,
\* never as completed.
THEOREM LifecycleCorrect ==
  ASSUME Faults \subseteq {"lost"}
  PROVE  Spec => FollowsLifecycle
<1> DEFINE Step == [Lifecycle!Next]_(Lifecycle!vars)
<1> USE DEF Lifecycle!Active, Lifecycle!Terminal, Lifecycle!Become
<1>1. Init => Lifecycle!Init
  BY DEF Init, Lifecycle!Init, Serving, Cancelled
<1>2. ASSUME IInv, CalmInv, OrderInv, [Next]_vars PROVE Step
  <2> USE <1>2, RunsAssumption
      DEF IInv, TypeOK, FreshInv, WorkerInv, HttpInv, MemoryInv, CalmInv, CalmWorkerInv,
          CalmThreadInv, CalmHttpInv, OrderInv, Dead, Applying, Noting, Active, Terminal,
          Uploads, Running, Write, Serving, Cancelled, life, thread, cluster, http, At,
          HttpAt, Lifecycle!Next, Lifecycle!vars
  <2>1. ASSUME NEW r \in Runs, SubmitRun(r) PROVE Step
    <3>1. Lifecycle!Queue(r)
      BY <2>1 DEF SubmitRun, Lifecycle!Queue
    <3>2. QED
      BY <3>1
  <2>2. ASSUME NEW r \in Runs, StartRun(r) PROVE Step
    <3>1. Lifecycle!Start(r)
      BY <2>2 DEF StartRun, Lifecycle!Start
    <3>2. QED
      BY <3>1
  <2>3. CASE MarkResult
    <3>1. /\ httpRun \in Runs \ Cancelled /\ record[httpRun] = "running"
          /\ httpHeld \in Terminal /\ record' = [record EXCEPT ![httpRun] = httpHeld]
      BY <2>3 DEF MarkResult
    <3>2. UNCHANGED <<Serving, Cancelled>>
      BY <2>3 DEF MarkResult
    <3>3. Lifecycle!Settle(httpRun)
      BY <3>1, <3>2 DEF Lifecycle!Settle
    <3>4. QED
      BY <3>1, <3>3
  <2>4. ASSUME NEW r \in Runs, MarkFailed(r) PROVE Step
    <3>1. record[r] \in {"running", "completed", "failed", "removed"}
      BY <2>4 DEF MarkFailed
    <3>2. CASE record[r] = "running"
      <4>1. Lifecycle!Settle(r)
        BY <2>4, <3>2 DEF MarkFailed, Lifecycle!Settle
      <4>2. QED
        BY <4>1
    <3>3. CASE record[r] = "completed"
      <4>1. Lifecycle!Overturn(r)
        BY <2>4, <3>3 DEF MarkFailed, Lifecycle!Overturn
      <4>2. QED
        BY <4>1
    <3>4. CASE record[r] = "removed"
      <4>1. Lifecycle!Return(r)
        BY <2>4, <3>4 DEF MarkFailed, Lifecycle!Return
      <4>2. QED
        BY <4>1
    <3>5. CASE record[r] = "failed"
      BY <2>4, <3>5 DEF MarkFailed
    <3>6. QED
      BY <3>1, <3>2, <3>3, <3>4, <3>5
  <2>5. ASSUME NEW r \in Runs, SetBackendJobId(r) PROVE Step
    <3>1. CASE record[r] = "removed"
      <4>1. r \in Cancelled /\ record' = [record EXCEPT ![r] = "running"]
        BY <2>5, <3>1 DEF SetBackendJobId
      <4>2. UNCHANGED <<Serving, Cancelled>>
        BY <2>5 DEF SetBackendJobId
      <4>3. Lifecycle!Return(r)
        BY <3>1, <4>1, <4>2 DEF Lifecycle!Return
      <4>4. QED
        BY <4>3
    <3>2. CASE record[r] = "running"
      BY <2>5, <3>2 DEF SetBackendJobId
    <3>3. QED
      BY <2>5, <3>1, <3>2 DEF SetBackendJobId
  <2>6. CASE WriteProgress \/ RewriteResult
    BY <2>6 DEF WriteProgress, RewriteResult
  <2>7. CASE CancelJob
    BY <2>7 DEF CancelJob, Lifecycle!Cancel
  <2>8. CASE EraseRun
    BY <2>8 DEF EraseRun, Lifecycle!Remove
  <2>9. CASE Shutdown
    BY <2>9 DEF Shutdown, Lifecycle!Stop
  <2>10. CASE Boot
    BY <2>10 DEF Boot, Lifecycle!Resume
  <2>11. ASSUME NEW r \in Runs, LaunchJob(r) PROVE Step
    BY <2>11 DEF LaunchJob
  <2>12. CASE AnnounceUpload
    BY <2>12 DEF AnnounceUpload, Answer, Proceed, Exit
  <2>13. ASSUME NEW r \in Runs, FetchBundle(r) \/ GiveUp(r) \/ PodDies(r) PROVE Step
    BY <2>13 DEF FetchBundle, GiveUp, PodDies, Proceed, Exit
  <2>14. ASSUME NEW r \in Runs, NEW kind \in Uploads, RefuseUpload(r, kind) PROVE Step
    BY <2>14 DEF RefuseUpload, Answer, Proceed, Exit
  <2>15. CASE ExitProcess \/ Crash
    BY <2>15 DEF ExitProcess, Crash, LoseMemory
  <2>16. CASE UNCHANGED <<record, phase, job>>
    BY <2>16
  <2> HIDE DEF Step
  <2>17. QED
    BY <2>1, <2>2, <2>3, <2>4, <2>5, <2>6, <2>7, <2>8, <2>9, <2>10, <2>11, <2>12,
       <2>13, <2>14, <2>15, <2>16
       DEF Next, HandlerStep, TakeUpload, ProcessStep, ExecutorStep, WorkerStep, vars,
           DeleteRun, ReadForResult, NoteLaunchedJob, ReadForJobId, PollJob, PollRaises,
           ReadLatest, AnnounceLatest, ReadForFailure, AnnounceFailed, ForgetLaunchedJob,
           ReportStarted, RunWorkflow, UploadResult, ReadForProgress
<1>3. QED
  BY <1>1, <1>2, OrderInductive, PTL DEF Spec, FollowsLifecycle, Lifecycle!Spec
=============================================================================
