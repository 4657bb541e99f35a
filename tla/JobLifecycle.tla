---------------------------- MODULE JobLifecycle ----------------------------
(***************************************************************************)
(* What the run subsystem promises of the runs it executes as Kubernetes   *)
(* Jobs, when no upload of a worker is late or ahead of its executor, the  *)
(* API answers and the application stops in order.  It is the life of      *)
(* RunLifecycle but for a DELETE, which may cancel the Job of a run that   *)
(* is running and remove the record.  The executor, which still knows the  *)
(* run, may then write its record anew: a cancelled run can come back, but *)
(* it never completes.                                                     *)
(***************************************************************************)
CONSTANT Runs      \* the run ids

VARIABLES state,     \* what run.json says of each run
          serving,   \* is the application accepting requests
          cancelled  \* the runs whose Job was deleted on request

vars == <<state, serving, cancelled>>

Active   == {"queued", "running"}
Terminal == {"completed", "failed"}

Become(r, s) == state' = [state EXCEPT ![r] = s]

Init ==
  /\ state = [r \in Runs |-> "absent"]
  /\ serving = TRUE
  /\ cancelled = {}

Queue(r) ==
  /\ serving
  /\ state[r] = "absent"
  /\ Become(r, "queued")
  /\ UNCHANGED <<serving, cancelled>>

Start(r) ==
  /\ state[r] = "queued"
  /\ Become(r, "running")
  /\ UNCHANGED <<serving, cancelled>>

Settle(r) ==
  /\ state[r] = "running"
  /\ Become(r, "failed") \/ (r \notin cancelled /\ Become(r, "completed"))
  /\ UNCHANGED <<serving, cancelled>>

\* A run that completed while the application was stopping may be overturned.
Overturn(r) ==
  /\ ~serving
  /\ state[r] = "completed"
  /\ Become(r, "failed")
  /\ UNCHANGED <<serving, cancelled>>

Cancel(r) ==
  /\ serving
  /\ state[r] \in {"running", "failed"}
  /\ cancelled' = cancelled \cup {r}
  /\ UNCHANGED <<state, serving>>

Remove(r) ==
  /\ serving
  /\ state[r] \in Terminal \/ (state[r] = "running" /\ r \in cancelled)
  /\ Become(r, "removed")
  /\ UNCHANGED <<serving, cancelled>>

Return(r) ==
  /\ state[r] = "removed" /\ r \in cancelled
  /\ Become(r, "running") \/ Become(r, "failed")
  /\ UNCHANGED <<serving, cancelled>>

Stop ==
  /\ serving
  /\ serving' = FALSE
  /\ UNCHANGED <<state, cancelled>>

\* The application starts, and fails whatever was left active.
Resume ==
  /\ ~serving
  /\ state' = [r \in Runs |-> IF state[r] \in Active THEN "failed" ELSE state[r]]
  /\ serving' = TRUE
  /\ UNCHANGED cancelled

Next ==
  \/ \E r \in Runs : Queue(r) \/ Start(r) \/ Settle(r) \/ Overturn(r)
  \/ \E r \in Runs : Cancel(r) \/ Remove(r) \/ Return(r)
  \/ Stop
  \/ Resume

Spec == Init /\ [][Next]_vars
=============================================================================
