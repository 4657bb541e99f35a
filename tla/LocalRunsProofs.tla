--------------------------- MODULE LocalRunsProofs ---------------------------
(***************************************************************************)
(* Proofs about LocalRuns for any set of runs, any pool size, any number   *)
(* of crashes and stops, with and without storage faults.                  *)
(*                                                                         *)
(* None of the properties is inductive: each depends on which thread holds *)
(* which run.  IInv ties the record of a run to its work item, to the      *)
(* request that created or deletes it and to the retention pass.           *)
(***************************************************************************)
EXTENDS LocalRuns, TLAPS

Gone == Terminal \cup {"removed"}

\* What a work item knows of its record.
TaskInv(r) ==
  /\ task[r] = "none" /\ phase \in {"sweeping", "up", "draining"} /\ record[r] \in Active =>
       httpRun = r /\ httpPc \in {"announce", "submit"}
  /\ task[r] # "none" => record[r] # "absent" /\ r \in submitted /\ "queued" \in told[r]
  /\ task[r] = "pending" => record[r] = "queued"
  /\ task[r] \in {"started", "working", "finishing"} => record[r] = "running"
  /\ task[r] = "completed" => record[r] \in {"completed", "removed"}
  /\ task[r] \in {"failed", "ended"} => record[r] \in Gone
  /\ task[r] = "recovering" =>
       \/ record[r] = "running"
       \/ phase = "draining" /\ record[r] \in {"completed", "removed"}
  /\ task[r] = "crashed" /\ record[r] \in Active => StorageFaults \/ phase = "draining"
  /\ task[r] \in Busy \ {"started"} => "running" \in told[r]

\* How often the outcome of a run has been counted.
CountInv(r) ==
  /\ counted[r] > 0 => task[r] \in {"recovering", "failed", "ended", "crashed"}
  /\ task[r] \in {"recovering", "failed"} => counted[r] <= 1
  /\ Serving /\ task[r] \in {"recovering", "failed", "crashed"} => counted[r] = 0
  /\ Serving => counted[r] <= 1

\* What the request in progress knows of its run.
HttpInv ==
  /\ ~Serving => httpPc = "idle"
  /\ httpPc \in {"upload", "persist"} =>
       record[httpRun] = "absent" /\ task[httpRun] = "none"
  /\ httpPc \in {"announce", "submit"} =>
       record[httpRun] = "queued" /\ task[httpRun] = "none"
  /\ httpPc = "submit" => httpRun \in submitted /\ "queued" \in told[httpRun]
  /\ httpPc \in {"register", "arm"} => task[httpRun] # "none"
  /\ httpPc \in DeletePcs => record[httpRun] \in Gone

SweepInv ==
  /\ phase \in {"down", "reconciling"} => sweepPc = "idle"
  /\ sweepPc = "erase" => record[doomed] \in Gone

\* A process that has no threads yet has nothing in memory.
MemoryInv ==
  ~Running =>
    /\ \A r \in Runs : task[r] = "none" /\ told[r] = {}
    /\ futures = {} /\ armed = {}

FutureInv == \A r \in futures : r \in armed \/ (httpRun = r /\ httpPc = "arm")

ToldInv == \A r \in Runs : "deleted" \in told[r] => record[r] = "removed"

IInv ==
  /\ TypeOK
  /\ \A r \in Runs : TaskInv(r) /\ CountInv(r)
  /\ HttpInv
  /\ SweepInv
  /\ MemoryInv
  /\ FutureInv
  /\ ToldInv

-----------------------------------------------------------------------------
LEMMA InitIInv == Init => IInv
BY RunsAssumption, BoundsAssumption
   DEF Init, IInv, TypeOK, TaskInv, CountInv, HttpInv, SweepInv, MemoryInv,
       FutureInv, ToldInv, Gone, Active, Terminal, CreatePcs, DeletePcs, Busy, Ended,
       Events, Serving, Running

\* Every action preserves the inductive invariant.
LEMMA StepIInv == IInv /\ [Next]_vars => IInv'
<1> SUFFICES ASSUME IInv, [Next]_vars PROVE IInv'
  OBVIOUS
<1> USE RunsAssumption, BoundsAssumption
    DEF IInv, TypeOK, TaskInv, CountInv, HttpInv, SweepInv, MemoryInv, FutureInv,
        ToldInv, Gone, Active, Terminal, CreatePcs, DeletePcs, Busy, Ended, Events,
        Serving, Running, store, life, http, pool, sweep, seen,
        Present, Write, Publish, Goto, HttpAt, HttpGoto, HttpReturn, WorkerAt, SweepAt,
        LoopMayClose, EraseFiles, EraseRecord, Erased, LoseMemory
<1>1. CASE StoreUploads
  BY <1>1 DEF StoreUploads
<1>2. CASE PersistQueued
  BY <1>2 DEF PersistQueued
<1>3. CASE AnnounceQueued
  BY <1>3 DEF AnnounceQueued
<1>4. CASE SubmitTask
  BY <1>4 DEF SubmitTask
<1>5. CASE RegisterFuture
  BY <1>5 DEF RegisterFuture
<1>6. CASE AddDoneCallback
  BY <1>6 DEF AddDoneCallback
<1>7. CASE ConfirmDelete
  BY <1>7 DEF ConfirmDelete
<1>8. CASE EraseDeleted
  BY <1>8 DEF EraseDeleted
<1>9. CASE FinishDelete
  BY <1>9 DEF FinishDelete
<1>10. CASE StartSweep
  BY <1>10 DEF StartSweep
<1>11. CASE EraseExpired
  BY <1>11 DEF EraseExpired
<1>12. CASE FinishErase
  BY <1>12 DEF FinishErase
<1>13. CASE FinishSweep
  BY <1>13 DEF FinishSweep
<1>14. CASE Boot
  BY <1>14 DEF Boot
<1>15. CASE FinishReconcile
  BY <1>15 DEF FinishReconcile
<1>16. CASE Shutdown
  BY <1>16 DEF Shutdown
<1>17. CASE Exit
  BY <1>17 DEF Exit
<1>18. CASE Crash
  BY <1>18 DEF Crash
<1>19. ASSUME NEW r \in Runs, CreateWorkspace(r) PROVE IInv'
  BY <1>19 DEF CreateWorkspace
<1>20. ASSUME NEW r \in Runs, DeleteRun(r) PROVE IInv'
  BY <1>20 DEF DeleteRun
<1>21. ASSUME NEW r \in Runs, StartRun(r) PROVE IInv'
  BY <1>21 DEF StartRun
<1>22. ASSUME NEW r \in Runs, AnnounceRunning(r) PROVE IInv'
  BY <1>22 DEF AnnounceRunning
<1>23. ASSUME NEW r \in Runs, RunWorkflow(r) PROVE IInv'
  BY <1>23 DEF RunWorkflow
<1>24. ASSUME NEW r \in Runs, MarkCompleted(r) PROVE IInv'
  BY <1>24 DEF MarkCompleted
<1>25. ASSUME NEW r \in Runs, AnnounceCompleted(r) PROVE IInv'
  BY <1>25 DEF AnnounceCompleted
<1>26. ASSUME NEW r \in Runs, MarkFailed(r) PROVE IInv'
  BY <1>26 DEF MarkFailed
<1>27. ASSUME NEW r \in Runs, AnnounceFailed(r) PROVE IInv'
  BY <1>27 DEF AnnounceFailed
<1>28. ASSUME NEW r \in Runs, ForgetFuture(r) PROVE IInv'
  BY <1>28 DEF ForgetFuture
<1>29. ASSUME NEW r \in Runs, VisitRun(r) PROVE IInv'
  BY <1>29 DEF VisitRun
<1>30. ASSUME NEW r \in Runs, ReconcileRun(r) PROVE IInv'
  BY <1>30 DEF ReconcileRun
<1>31. ASSUME NEW r \in Runs, Expire(r) PROVE IInv'
  BY <1>31 DEF Expire
<1>32. CASE UNCHANGED vars
  BY <1>32 DEF vars
<1>33. QED
  BY <1>1, <1>2, <1>3, <1>4, <1>5, <1>6, <1>7, <1>8, <1>9, <1>10, <1>11,
     <1>12, <1>13, <1>14, <1>15, <1>16, <1>17, <1>18, <1>19, <1>20, <1>21, <1>22,
     <1>23, <1>24, <1>25, <1>26, <1>27, <1>28, <1>29, <1>30, <1>31, <1>32
     DEF Next, HttpStep, WorkerStep, SweepStep, BootStep

\* The inductive invariant holds of every reachable state.
LEMMA Inductive == Spec => []IInv
BY InitIInv, StepIInv, PTL DEF Spec

-----------------------------------------------------------------------------
\* Every variable of the run subsystem keeps its type.
THEOREM TypeCorrect == Spec => []TypeOK
<1>1. IInv => TypeOK
  BY DEF IInv
<1>2. QED
  BY <1>1, Inductive, PTL

\* However requests, workers, crashes and restarts interleave, an active run
\* of a serving application is held by a request, the queue or a worker; only
\* a storage fault can strand it.
THEOREM OwnerCorrect == Spec => []ActiveRunHasOwner
<1>1. IInv => ActiveRunHasOwner
  BY DEF IInv, TypeOK, TaskInv, HttpInv, ActiveRunHasOwner, Active, Terminal, Gone, Serving,
         Busy, Ended
<1>2. QED
  BY <1>1, Inductive, PTL

\* Whatever the order in which a run finishes and its future is registered,
\* RunManager._futures forgets it.
THEOREM FuturesCorrect == Spec => []FuturesForgotten
<1>1. IInv => FuturesForgotten
  BY DEF IInv, FutureInv, FuturesForgotten
<1>2. QED
  BY <1>1, Inductive, PTL

\* A serving application counts the outcome of a run at most once, and after
\* its record shows it.
THEOREM CountedCorrect == Spec => []CountedOnce
<1>1. IInv => CountedOnce
  BY DEF IInv, TypeOK, TaskInv, CountInv, CountedOnce, Active, Terminal, Gone, Serving
<1>2. QED
  BY <1>1, Inductive, PTL

\* No subscriber is told of a run out of the order of its life.
THEOREM EventsCorrect == Spec => EventsInOrder
<1> DEFINE Ordered ==
      \A r \in Runs :
        LET new == told'[r] \ told[r] IN
        /\ "running" \in new => "queued" \in told[r]
        /\ new \cap Terminal # {} => "running" \in told[r]
        /\ "deleted" \in told[r] => new \subseteq Terminal
<1>1. ASSUME IInv, [Next]_vars PROVE [Ordered]_vars
  <2> USE <1>1 DEF IInv, TypeOK, TaskInv, HttpInv, ToldInv, Gone, Active, Terminal, Busy,
                   Events, seen, Publish
  <2>1. CASE AnnounceQueued
    BY <2>1 DEF AnnounceQueued, HttpAt
  <2>2. ASSUME NEW r \in Runs, AnnounceRunning(r) PROVE Ordered
    BY <2>2 DEF AnnounceRunning, WorkerAt
  <2>3. ASSUME NEW r \in Runs, AnnounceCompleted(r) PROVE Ordered
    BY <2>3 DEF AnnounceCompleted, WorkerAt
  <2>4. ASSUME NEW r \in Runs, AnnounceFailed(r) PROVE Ordered
    BY <2>4 DEF AnnounceFailed, WorkerAt
  <2>5. CASE FinishDelete
    BY <2>5 DEF FinishDelete
  <2>6. CASE told' = [r \in Runs |-> {}]
    BY <2>6
  <2>7. CASE UNCHANGED told
    BY <2>7
  <2>8. QED
    BY <2>1, <2>2, <2>3, <2>4, <2>5, <2>6, <2>7
       DEF Next, HttpStep, WorkerStep, SweepStep, BootStep, vars, StoreUploads,
           PersistQueued, SubmitTask, RegisterFuture, AddDoneCallback, ConfirmDelete,
           EraseDeleted, StartSweep, EraseExpired, FinishErase, FinishSweep, Boot,
           FinishReconcile, Shutdown, Exit, Crash, LoseMemory, CreateWorkspace, DeleteRun,
           StartRun, RunWorkflow, MarkCompleted, MarkFailed, ForgetFuture, VisitRun,
           ReconcileRun, Expire
<1>2. QED
  BY <1>1, Inductive, PTL DEF Spec, EventsInOrder

\* run.json of every run goes through the life that RunLifecycle promises:
\* only terminal runs are removed, an outcome is final while the application
\* serves, and it serves only when no run is left over from before.
THEOREM LifecycleCorrect == Spec => FollowsLifecycle
<1> USE DEF Active, Terminal, Lifecycle!Active, Lifecycle!Terminal, Lifecycle!Become
<1>1. Init => Lifecycle!Init
  BY DEF Init, Lifecycle!Init, Serving
<1>2. ASSUME IInv, [Next]_vars PROVE [Lifecycle!Next]_(Lifecycle!vars)
  <2> USE <1>2 DEF IInv, TypeOK, TaskInv, HttpInv, SweepInv, MemoryInv, Gone, Serving,
                   Running, Present, Write, Busy, Ended, store, life, http, pool, sweep,
                   seen, Lifecycle!Next, Lifecycle!vars
  <2>1. CASE PersistQueued
    BY <2>1 DEF PersistQueued, HttpAt, HttpGoto, Lifecycle!Queue
  <2>2. ASSUME NEW r \in Runs, StartRun(r) PROVE [Lifecycle!Next]_(Lifecycle!vars)
    BY <2>2 DEF StartRun, WorkerAt, Lifecycle!Start
  <2>3. ASSUME NEW r \in Runs, MarkCompleted(r) PROVE [Lifecycle!Next]_(Lifecycle!vars)
    BY <2>3 DEF MarkCompleted, WorkerAt, Lifecycle!Settle
  <2>4. ASSUME NEW r \in Runs, MarkFailed(r) PROVE [Lifecycle!Next]_(Lifecycle!vars)
    BY <2>4 DEF MarkFailed, WorkerAt, Lifecycle!Settle, Lifecycle!Interrupt
  <2>5. ASSUME NEW r \in Runs, ReconcileRun(r) PROVE [Lifecycle!Next]_(Lifecycle!vars)
    BY <2>5 DEF ReconcileRun, Lifecycle!Interrupt
  <2>6. CASE EraseDeleted
    BY <2>6 DEF EraseDeleted, EraseFiles, EraseRecord, HttpAt, DeletePcs, Lifecycle!Remove
  <2>7. CASE EraseExpired
    BY <2>7 DEF EraseExpired, EraseFiles, EraseRecord, SweepAt, Lifecycle!Remove
  <2>8. CASE FinishSweep
    BY <2>8 DEF FinishSweep, SweepAt, Lifecycle!Resume
  <2>9. CASE Shutdown
    BY <2>9 DEF Shutdown, HttpAt, Lifecycle!Stop
  <2>10. CASE Crash
    BY <2>10 DEF Crash, LoseMemory, Lifecycle!Stop
  <2>11. CASE UNCHANGED <<record, phase>>
    BY <2>11
  <2>12. CASE Boot \/ FinishReconcile \/ Exit
    BY <2>12 DEF Boot, FinishReconcile, Exit
  <2>13. QED
    BY <2>1, <2>2, <2>3, <2>4, <2>5, <2>6, <2>7, <2>8, <2>9, <2>10, <2>11, <2>12
       DEF Next, HttpStep, WorkerStep, SweepStep, BootStep, vars, StoreUploads,
           AnnounceQueued, SubmitTask, RegisterFuture, AddDoneCallback, ConfirmDelete,
           FinishDelete, StartSweep, FinishErase, CreateWorkspace, DeleteRun,
           AnnounceRunning, RunWorkflow, AnnounceCompleted, AnnounceFailed,
           ForgetFuture, VisitRun, Expire
<1>3. QED
  BY <1>1, <1>2, Inductive, PTL DEF Spec, FollowsLifecycle, Lifecycle!Spec

-----------------------------------------------------------------------------
(* The run directories of a process that has not been stopped              *)

Whole(r) ==
  /\ Present(r) <=> files[r] # "none"
  /\ record[r] = "completed" => files[r] = "outputs"

\* A directory is only ever half of itself in the hands of the request that
\* creates or deletes the run or of the retention pass; a worker thread has
\* written the outputs before it calls the run completed.
WholeInv ==
  stops = 0 /\ ~StorageFaults =>
    /\ phase # "draining"
    /\ httpPc \in {"upload", "persist"} => files[httpRun] = "inputs"
    /\ \A r \in Runs : task[r] = "finishing" => files[r] = "outputs"
    /\ \A r \in Runs \ {doomed} :
         Whole(r) \/ (r = httpRun /\ httpPc \in {"upload", "persist", "erase"})

LEMMA StepWhole == IInv /\ WholeInv /\ [Next]_vars => WholeInv'
<1> SUFFICES ASSUME IInv, WholeInv, [Next]_vars PROVE WholeInv'
  OBVIOUS
<1>1. ASSUME stops' = 0, ~StorageFaults PROVE stops = 0
  BY <1>1, BoundsAssumption
     DEF IInv, TypeOK, Next, HttpStep, WorkerStep, SweepStep, BootStep, life, vars, StoreUploads,
         PersistQueued, AnnounceQueued, SubmitTask, RegisterFuture, AddDoneCallback,
         ConfirmDelete, EraseDeleted, FinishDelete, StartSweep, EraseExpired, FinishErase,
         FinishSweep, Boot, FinishReconcile, Shutdown, Exit, Crash, CreateWorkspace, DeleteRun,
         StartRun, AnnounceRunning, RunWorkflow, MarkCompleted, AnnounceCompleted, MarkFailed,
         AnnounceFailed, ForgetFuture, VisitRun, ReconcileRun, Expire
<1>2. SUFFICES ASSUME stops = 0, stops' = 0, ~StorageFaults PROVE WholeInv'
  BY <1>1 DEF WholeInv
<1> USE <1>2, RunsAssumption
    DEF IInv, TypeOK, TaskInv, HttpInv, SweepInv, WholeInv, Whole,
        Gone, Active, Terminal, CreatePcs, DeletePcs, Busy, Ended, Serving, Running, store, life,
        http, pool, sweep, seen, Present, Write, Publish, Goto, HttpAt, HttpGoto, HttpReturn,
        WorkerAt, SweepAt, LoopMayClose, EraseFiles, EraseRecord, Erased
<1>3. CASE StoreUploads
  BY <1>3 DEF StoreUploads
<1>4. CASE PersistQueued
  BY <1>4 DEF PersistQueued
<1>5. CASE AnnounceQueued
  BY <1>5 DEF AnnounceQueued
<1>6. CASE SubmitTask
  BY <1>6 DEF SubmitTask
<1>7. CASE RegisterFuture
  BY <1>7 DEF RegisterFuture
<1>8. CASE AddDoneCallback
  BY <1>8 DEF AddDoneCallback
<1>9. CASE ConfirmDelete
  BY <1>9 DEF ConfirmDelete
<1>10. CASE EraseDeleted
  BY <1>10 DEF EraseDeleted
<1>11. CASE FinishDelete
  BY <1>11 DEF FinishDelete
<1>12. CASE StartSweep
  BY <1>12 DEF StartSweep
<1>13. CASE EraseExpired
  BY <1>13 DEF EraseExpired
<1>14. CASE FinishErase
  BY <1>14 DEF FinishErase
<1>15. CASE FinishSweep
  BY <1>15 DEF FinishSweep
<1>16. CASE Boot
  BY <1>16 DEF Boot
<1>17. CASE FinishReconcile
  BY <1>17 DEF FinishReconcile
<1>18. CASE Shutdown \/ Crash
  BY <1>18 DEF Shutdown, Crash
<1>19. CASE Exit
  BY <1>19 DEF Exit
<1>20. ASSUME NEW r \in Runs, CreateWorkspace(r) PROVE WholeInv'
  BY <1>20 DEF CreateWorkspace
<1>21. ASSUME NEW r \in Runs, DeleteRun(r) PROVE WholeInv'
  BY <1>21 DEF DeleteRun
<1>22. ASSUME NEW r \in Runs, StartRun(r) PROVE WholeInv'
  BY <1>22 DEF StartRun
<1>23. ASSUME NEW r \in Runs, AnnounceRunning(r) PROVE WholeInv'
  BY <1>23 DEF AnnounceRunning
<1>24. ASSUME NEW r \in Runs, RunWorkflow(r) PROVE WholeInv'
  BY <1>24 DEF RunWorkflow
<1>25. ASSUME NEW r \in Runs, MarkCompleted(r) PROVE WholeInv'
  BY <1>25 DEF MarkCompleted
<1>26. ASSUME NEW r \in Runs, AnnounceCompleted(r) PROVE WholeInv'
  BY <1>26 DEF AnnounceCompleted
<1>27. ASSUME NEW r \in Runs, MarkFailed(r) PROVE WholeInv'
  BY <1>27 DEF MarkFailed
<1>28. ASSUME NEW r \in Runs, AnnounceFailed(r) PROVE WholeInv'
  BY <1>28 DEF AnnounceFailed
<1>29. ASSUME NEW r \in Runs, ForgetFuture(r) PROVE WholeInv'
  BY <1>29 DEF ForgetFuture
<1>30. ASSUME NEW r \in Runs, VisitRun(r) PROVE WholeInv'
  BY <1>30 DEF VisitRun
<1>31. ASSUME NEW r \in Runs, ReconcileRun(r) PROVE WholeInv'
  BY <1>31 DEF ReconcileRun
<1>32. ASSUME NEW r \in Runs, Expire(r) PROVE WholeInv'
  BY <1>32 DEF Expire
<1>33. CASE UNCHANGED vars
  BY <1>33 DEF vars
<1>34. QED
  BY <1>3, <1>4, <1>5, <1>6, <1>7, <1>8, <1>9, <1>10, <1>11, <1>12, <1>13,
     <1>14, <1>15, <1>16, <1>17, <1>18, <1>19, <1>20, <1>21, <1>22, <1>23,
     <1>24, <1>25, <1>26, <1>27, <1>28, <1>29, <1>30, <1>31, <1>32, <1>33
     DEF Next, HttpStep, WorkerStep, SweepStep, BootStep

\* In a process that was not stopped, with a working storage, a run directory
\* and its record come and go together, although a DELETE and the retention
\* pass may erase one directory at once, and a completed run has the files its
\* record lists.
THEOREM DirectoryCorrect == Spec => []DirectoryWhole
<1>1. Init => WholeInv
  BY RunsAssumption DEF Init, WholeInv, Whole, Present, Active, Terminal
<1>2. IInv /\ WholeInv => DirectoryWhole
  BY DEF WholeInv, Whole, DirectoryWhole
<1>3. QED
  BY <1>1, <1>2, Inductive, StepWhole, PTL DEF Spec
=============================================================================
